------------------------- MODULE DeltaFramesProofs -------------------------
(***************************************************************************)
(* Theorems about DeltaFrames for any entities, any size of the rings and  *)
(* any bounds: the types, that a delta answers a request, that the client  *)
(* shows and goes on from the frames the server means, and that the server *)
(* executes the commands it has missed, each once (cl_input.c, sv_user.c,  *)
(* sv_ents.c, cl_ents.c).                                                  *)
(***************************************************************************)
EXTENDS DeltaFrames, TLAPS, SequenceTheorems

-----------------------------------------------------------------------------
(* Slots *)

(* A number has one slot, and is it but for whole rounds of the ring.      *)
LEMMA SlotRounds ==
    ASSUME NEW n \in Int
    PROVE  /\ n = UPDATE_BACKUP * (n \div UPDATE_BACKUP) + Slot(n)
           /\ n \div UPDATE_BACKUP \in Int
           /\ Slot(n) \in 0 .. UPDATE_BACKUP - 1
           /\ Slot(n) \in Slots
           /\ Slot(n) \in Int
BY DeltaFramesAssumption DEF Slot, Slots

(* Different rounds are at least one ring apart.                           *)
LEMMA RoundsApart ==
    ASSUME NEW q \in Int, NEW r \in Int, q > r
    PROVE  UPDATE_BACKUP * q - UPDATE_BACKUP * r >= UPDATE_BACKUP
<1>1. UPDATE_BACKUP * q - UPDATE_BACKUP * r = UPDATE_BACKUP * (q - r)
  BY DeltaFramesAssumption
<1>2. q - r >= 1
  OBVIOUS
<1>3. UPDATE_BACKUP * (q - r) >= UPDATE_BACKUP
  BY <1>2, DeltaFramesAssumption
<1> QED BY <1>1, <1>3

(* Two numbers less than a ring apart have different slots.                *)
LEMMA SlotsDiffer ==
    ASSUME NEW a \in Int, NEW b \in Int, b < a, a - b < UPDATE_BACKUP
    PROVE  Slot(a) # Slot(b)
<1> SUFFICES ASSUME Slot(a) = Slot(b) PROVE FALSE
  OBVIOUS
<1>1. PICK p \in Int : a = UPDATE_BACKUP * p + Slot(a)
  BY SlotRounds
<1>2. PICK q \in Int : b = UPDATE_BACKUP * q + Slot(b)
  BY SlotRounds
<1>3. UPDATE_BACKUP * q \in Int /\ UPDATE_BACKUP * p \in Int /\ Slot(a) \in Int
  BY DeltaFramesAssumption, SlotRounds
<1>4. a - b = UPDATE_BACKUP * p - UPDATE_BACKUP * q
  BY <1>1, <1>2, <1>3
<1>5. CASE p > q
  <2>1. UPDATE_BACKUP * p - UPDATE_BACKUP * q >= UPDATE_BACKUP
    BY <1>5, RoundsApart
  <2> QED BY <2>1, <1>4, <1>3, DeltaFramesAssumption
<1>6. CASE q > p
  <2>1. UPDATE_BACKUP * q - UPDATE_BACKUP * p >= UPDATE_BACKUP
    BY <1>6, RoundsApart
  <2> QED BY <2>1, <1>4, <1>3, DeltaFramesAssumption
<1>7. CASE p = q
  BY <1>7, <1>4, <1>3
<1> QED BY <1>5, <1>6, <1>7

(* The slot is what is left after whole rounds.                            *)
LEMMA SlotUnique ==
    ASSUME NEW x \in Int, NEW k \in Int, NEW r \in 0 .. UPDATE_BACKUP - 1,
           x = UPDATE_BACKUP * k + r
    PROVE  Slot(x) = r
<1>1. PICK p \in Int : x = UPDATE_BACKUP * p + Slot(x)
  BY SlotRounds
<1>0. UPDATE_BACKUP * k \in Int /\ UPDATE_BACKUP * p \in Int
  BY DeltaFramesAssumption
<1>2. /\ UPDATE_BACKUP * k \in Int /\ UPDATE_BACKUP * p \in Int
      /\ Slot(x) \in 0 .. UPDATE_BACKUP - 1
  BY <1>0, SlotRounds
<1>3. UPDATE_BACKUP * p - UPDATE_BACKUP * k = r - Slot(x)
  BY <1>1, <1>2
<1>4. CASE p > k
  <2>1. UPDATE_BACKUP * p - UPDATE_BACKUP * k >= UPDATE_BACKUP
    BY <1>4, RoundsApart
  <2> QED BY <2>1, <1>3, <1>2, DeltaFramesAssumption
<1>5. CASE k > p
  <2>1. UPDATE_BACKUP * k - UPDATE_BACKUP * p >= UPDATE_BACKUP
    BY <1>5, RoundsApart
  <2> QED BY <2>1, <1>3, <1>2, DeltaFramesAssumption
<1>6. CASE p = k
  BY <1>6, <1>3, <1>2, DeltaFramesAssumption
<1> QED BY <1>4, <1>5, <1>6

(* The last byte of a number is enough to find its slot.                   *)
LEMMA SlotOfByte ==
    ASSUME NEW x \in Int
    PROVE  x % ByteRange \in Bytes /\ Slot(x % ByteRange) = Slot(x)
<1>0. x % ByteRange \in Bytes /\ x % ByteRange \in Int
  BY DeltaFramesAssumption DEF Bytes
<1>1. PICK c \in Int : ByteRange = UPDATE_BACKUP * c
  <2>1. /\ ByteRange = UPDATE_BACKUP * (ByteRange \div UPDATE_BACKUP) + Slot(ByteRange)
        /\ ByteRange \div UPDATE_BACKUP \in Int
    BY SlotRounds, DeltaFramesAssumption
  <2>2. Slot(ByteRange) = 0
    BY DeltaFramesAssumption DEF Slot
  <2>3. UPDATE_BACKUP * (ByteRange \div UPDATE_BACKUP) \in Int
    BY <2>1, DeltaFramesAssumption
  <2> QED BY <2>1, <2>2, <2>3
<1>2. PICK j \in Int : x = ByteRange * j + (x % ByteRange)
  <2>1. ByteRange \in Nat \ {0}
    BY DeltaFramesAssumption
  <2>2. x = ByteRange * (x \div ByteRange) + (x % ByteRange) /\ x \div ByteRange \in Int
    BY <2>1
  <2> QED BY <2>2
<1>3. PICK p \in Int : x = UPDATE_BACKUP * p + Slot(x)
  BY SlotRounds
<1>4. ByteRange * j = UPDATE_BACKUP * (c * j)
  BY <1>1, DeltaFramesAssumption
<1>5. UPDATE_BACKUP * (p - c * j) = UPDATE_BACKUP * p - UPDATE_BACKUP * (c * j)
  BY DeltaFramesAssumption
<1>6. UPDATE_BACKUP * p \in Int /\ UPDATE_BACKUP * (c * j) \in Int /\ c * j \in Int
  BY DeltaFramesAssumption
<1>7. x % ByteRange = UPDATE_BACKUP * (p - c * j) + Slot(x)
  <2> DEFINE X == x % ByteRange
             P == UPDATE_BACKUP * p
             Q == UPDATE_BACKUP * (c * j)
             W == UPDATE_BACKUP * (p - c * j)
             S == Slot(x)
  <2>1. /\ x = Q + X /\ x = P + S /\ W = P - Q
        /\ X \in Int /\ P \in Int /\ Q \in Int /\ S \in Int
    BY <1>0, <1>2, <1>3, <1>4, <1>5, <1>6, SlotRounds
  <2> HIDE DEF X, P, Q, W, S
  <2>2. X = W + S
    BY <2>1
  <2> QED BY <2>2 DEF X, W, S
<1>8. p - c * j \in Int /\ Slot(x) \in 0 .. UPDATE_BACKUP - 1
  BY <1>6, SlotRounds
<1> QED BY <1>0, <1>7, <1>8, SlotUnique

-----------------------------------------------------------------------------
(* Frames and updates *)

(* A frame is a function on a set of entities.                             *)
LEMMA FrameShape ==
    ASSUME NEW F \in Frames
    PROVE  DOMAIN F \in SUBSET Entities /\ F \in [DOMAIN F -> States]
BY DEF Frames

(* The converse: any map from a set of entities to states is a frame.      *)
LEMMA FrameMade ==
    ASSUME NEW S \in SUBSET Entities, NEW F \in [S -> States]
    PROVE  F \in Frames
BY DEF Frames

(* The frame without entities.                                             *)
LEMMA EmptyFrame == Empty \in Frames /\ DOMAIN Empty = {} /\ Baseline \in States
<1>1. Baseline \in States
  BY DEF Baseline, States
<1>2. Empty \in [{} -> States] /\ DOMAIN Empty = {}
  BY DEF Empty
<1> QED BY <1>1, <1>2, FrameMade

(* What an update holds.                                                   *)
LEMMA UpdateShape ==
    ASSUME NEW u \in Updates
    PROVE  /\ u.from \in Bytes \cup {NoDelta}
           /\ u.removed \in SUBSET Entities
           /\ DOMAIN u.changed \in SUBSET Entities
           /\ \A e \in DOMAIN u.changed :
                 /\ DOMAIN u.changed[e] \in SUBSET Fields
                 /\ u.changed[e] \in [DOMAIN u.changed[e] -> {0, 1}]
<1>1. u.changed \in UNION {[S -> Changes] : S \in SUBSET Entities}
  BY DEF Updates
<1>2. DOMAIN u.changed \in SUBSET Entities /\ u.changed \in [DOMAIN u.changed -> Changes]
  BY <1>1
<1>3. \A c \in Changes : DOMAIN c \in SUBSET Fields /\ c \in [DOMAIN c -> {0, 1}]
  BY DEF Changes
<1>4. u.from \in Bytes \cup {NoDelta} /\ u.removed \in SUBSET Entities
  BY DEF Updates
<1> QED BY <1>2, <1>3, <1>4

(* An update makes a frame of a frame.                                     *)
LEMMA MergeType ==
    ASSUME NEW old \in Frames, NEW u \in Updates
    PROVE  Merge(old, u) \in Frames
<1> DEFINE D == (DOMAIN old \ u.removed) \cup DOMAIN u.changed
<1>1. D \in SUBSET Entities
  BY FrameShape, UpdateShape
<1>2. \A e \in D : Merge(old, u)[e] \in States
  <2> SUFFICES ASSUME NEW e \in D PROVE Merge(old, u)[e] \in States
    OBVIOUS
  <2>1. e \in DOMAIN old => old[e] \in States
    BY FrameShape
  <2>2. CASE e \notin DOMAIN u.changed
    BY <2>1, <2>2 DEF Merge
  <2>3. CASE e \in DOMAIN u.changed
    <3> DEFINE c == u.changed[e]
    <3>1. Merge(old, u)[e] = [f \in Fields |->
                 IF f \in DOMAIN c THEN c[f]
                 ELSE IF e \in DOMAIN old THEN old[e][f] ELSE Baseline[f]]
      BY <2>3 DEF Merge
    <3>2. c \in [DOMAIN c -> {0, 1}]
      BY <2>3, UpdateShape
    <3>3. Baseline \in States
      BY EmptyFrame
    <3> QED BY <2>1, <3>1, <3>2, <3>3 DEF States
  <2> QED BY <2>2, <2>3
<1>3. Merge(old, u) \in [D -> States]
  BY <1>2 DEF Merge
<1> QED BY <1>1, <1>3, FrameMade

(* What the server writes for the visible entities, from frame base.       *)
Old(base, e) == IF e \in DOMAIN base THEN base[e] ELSE Baseline
Written(base, visible, room) ==
    {e \in DOMAIN visible : e <= room /\ (e \notin DOMAIN base \/ visible[e] # base[e])}
Meant(base, visible, room) ==
    [e \in DOMAIN visible |-> IF e <= room THEN visible[e] ELSE Old(base, e)]
UpdateFrom(d, base, visible, room) ==
    [from |-> d, removed |-> DOMAIN base \ DOMAIN visible,
     changed |-> [e \in Written(base, visible, room) |-> Difference(Old(base, e), visible[e])]]

(* It is an update and a frame.                                            *)
LEMMA WrittenType ==
    ASSUME NEW base \in Frames, NEW visible \in Frames, NEW room,
           NEW d \in Bytes \cup {NoDelta}
    PROVE  /\ Meant(base, visible, room) \in Frames
           /\ UpdateFrom(d, base, visible, room) \in Updates
<1>1. DOMAIN visible \in SUBSET Entities /\ DOMAIN base \in SUBSET Entities
  BY FrameShape
<1>2. \A e \in DOMAIN visible : visible[e] \in States /\ Old(base, e) \in States
  BY FrameShape, EmptyFrame DEF Old
<1>3. Meant(base, visible, room) \in [DOMAIN visible -> States]
  BY <1>2 DEF Meant
<1>4. \A e \in DOMAIN visible : Difference(Old(base, e), visible[e]) \in Changes
  <2> SUFFICES ASSUME NEW e \in DOMAIN visible
               PROVE  Difference(Old(base, e), visible[e]) \in Changes
    OBVIOUS
  <2> DEFINE F == {g \in Fields : visible[e][g] # Old(base, e)[g]}
  <2>1. F \in SUBSET Fields /\ \A f \in F : visible[e][f] \in {0, 1}
    BY <1>2 DEF States
  <2>2. Difference(Old(base, e), visible[e]) \in [F -> {0, 1}]
    BY <2>1 DEF Difference
  <2> QED BY <2>1, <2>2 DEF Changes
<1>5. Written(base, visible, room) \in SUBSET Entities
  BY <1>1 DEF Written
<1>6. [e \in Written(base, visible, room) |-> Difference(Old(base, e), visible[e])]
        \in [Written(base, visible, room) -> Changes]
  BY <1>4 DEF Written
<1>7. DOMAIN base \ DOMAIN visible \in SUBSET Entities
  BY <1>1
<1> QED BY <1>1, <1>3, <1>5, <1>6, <1>7, FrameMade DEF UpdateFrom, Updates

(* If the client has the frame that the server starts from, it makes of    *)
(* the update the frame that the server means.                             *)
LEMMA MergeMatches ==
    ASSUME NEW shown \in Frames, NEW base \in Frames, Matches(shown, base),
           NEW visible \in Frames, NEW room, NEW d
    PROVE  Matches(Merge(shown, UpdateFrom(d, base, visible, room)), Meant(base, visible, room))
<1> DEFINE u == UpdateFrom(d, base, visible, room)
           W == Written(base, visible, room)
           M == Merge(shown, u)
           T == Meant(base, visible, room)
<1>1. /\ u.removed = DOMAIN base \ DOMAIN visible
      /\ DOMAIN u.changed = W
      /\ \A e \in W : u.changed[e] = Difference(Old(base, e), visible[e])
  BY DEF UpdateFrom
<1>2. DOMAIN M = (DOMAIN shown \ u.removed) \cup W
  BY <1>1 DEF Merge
<1>3. DOMAIN T = DOMAIN visible
  BY DEF Meant
<1>4. /\ DOMAIN shown \subseteq DOMAIN base
      /\ \A e \in DOMAIN shown : shown[e] = base[e]
      /\ \A e \in DOMAIN base \ DOMAIN shown : base[e] = Baseline
  BY DEF Matches
<1>5. DOMAIN M \subseteq DOMAIN T
  BY <1>1, <1>2, <1>3, <1>4 DEF Written
<1>6. \A e \in DOMAIN M : M[e] = T[e]
  <2> SUFFICES ASSUME NEW e \in DOMAIN M PROVE M[e] = T[e]
    OBVIOUS
  <2>0. e \in DOMAIN visible
    BY <1>3, <1>5
  <2>1. CASE e \in W
    <3>1. T[e] = visible[e]
      BY <2>0, <2>1 DEF Meant, Written
    <3>2. visible[e] \in [Fields -> {0, 1}] /\ Old(base, e) \in [Fields -> {0, 1}]
      BY <2>0, FrameShape, EmptyFrame DEF Old, States
    <3>3. M[e] = [f \in Fields |->
                     IF f \in DOMAIN u.changed[e] THEN u.changed[e][f]
                     ELSE IF e \in DOMAIN shown THEN shown[e][f] ELSE Baseline[f]]
      BY <1>1, <1>2, <2>1 DEF Merge
    <3>4. IF e \in DOMAIN shown THEN shown[e] = Old(base, e) ELSE Baseline = Old(base, e)
      BY <1>4 DEF Old
    <3>5. /\ DOMAIN u.changed[e] = {g \in Fields : visible[e][g] # Old(base, e)[g]}
          /\ \A f \in DOMAIN u.changed[e] : u.changed[e][f] = visible[e][f]
      BY <1>1, <2>1 DEF Difference
    <3>6. \A f \in Fields : M[e][f] = visible[e][f]
      BY <3>3, <3>4, <3>5
    <3>7. M[e] = visible[e]
      BY <3>2, <3>3, <3>6
    <3> QED BY <3>1, <3>7
  <2>2. CASE e \notin W
    <3>1. M[e] = shown[e] /\ e \in DOMAIN shown
      BY <1>1, <1>2, <2>2 DEF Merge
    <3>2. shown[e] = base[e] /\ e \in DOMAIN base
      BY <1>4, <3>1
    <3>3. T[e] = base[e]
      BY <2>0, <2>2, <3>2 DEF Meant, Written, Old
    <3> QED BY <3>1, <3>2, <3>3
  <2> QED BY <2>1, <2>2
<1>7. \A e \in DOMAIN T \ DOMAIN M : T[e] = Baseline
  <2> SUFFICES ASSUME NEW e \in DOMAIN T, e \notin DOMAIN M PROVE T[e] = Baseline
    OBVIOUS
  <2>1. e \in DOMAIN visible /\ e \notin W /\ e \notin DOMAIN shown
    BY <1>1, <1>2, <1>3
  <2>2. Old(base, e) = Baseline
    BY <1>4, <2>1 DEF Old
  <2> QED BY <2>1, <2>2 DEF Meant, Written, Old
<1> QED BY <1>5, <1>6, <1>7 DEF Matches

-----------------------------------------------------------------------------
(* The inductive invariant *)

(* Packet k is still in the rings of the client when it sends packet n.    *)
InRing(n, k) == n - k <= UPDATE_BACKUP

(* Byte b asks for frame d.                                                *)
Asks(b, d) == b = IF d = NoDelta THEN NoDelta ELSE d % ByteRange

(* Both sides mean the same by frame d.                                    *)
SameAt(d) == Matches(cl_entities[Slot(d)], sv_entities[Slot(d)])
Usable(d) == d # NoDelta /\ ~Outdated(outgoing_sequence, d)

(* A copy of the impulse has left with each packet since at most.          *)
CopiesInv ==
    IF impulse = 0 THEN copies = 0
    ELSE impulse < outgoing_sequence /\ copies <= outgoing_sequence - impulse

(* Packets are read in order, each once; the server answers after that.    *)
NumbersInv ==
    /\ received < outgoing_sequence
    /\ validsequence <= received
    /\ send_message => validsequence < received
    /\ cl_delta_sequence \in {0, validsequence}
    /\ \A m \in commands : received < m.seq /\ m.seq < outgoing_sequence
    /\ \A m \in replies : /\ m.seq <= received
                          /\ send_message => m.seq < received
                          /\ validsequence < m.seq

(* A request is for a frame before every answer under way, and goes with   *)
(* its packet and its answer as long as the ring of the client keeps it.   *)
RequestsInv ==
    /\ \A s \in Slots : /\ requested[s] <= received
                        /\ send_message => requested[s] < received
                        /\ \A m \in replies : requested[s] < m.seq
    /\ \A m \in commands : InRing(outgoing_sequence, m.seq) => Asks(m.delta, requested[Slot(m.seq)])
    /\ send_message /\ InRing(outgoing_sequence, received) => Asks(sv_delta_sequence, requested[Slot(received)])
    /\ \A m \in replies :
          m.update # NoUpdate /\ InRing(outgoing_sequence, m.seq) => Asks(m.update.from, requested[Slot(m.seq)])

(* Answer m leads to the server's frame from the frame asked for.          *)
Leads(m) ==
    LET d == requested[Slot(m.seq)]
    IN  IF m.update.from = NoDelta
        THEN Matches(Merge(Empty, m.update), sv_entities[Slot(m.seq)])
        ELSE Usable(d) => Matches(Merge(cl_entities[Slot(d)], m.update), sv_entities[Slot(m.seq)])

(* Every frame that is asked for is the same on both sides, and so will be *)
(* the frame that an answer makes.                                         *)
FramesInv ==
    /\ SameFrame
    /\ \A s \in Slots : Usable(requested[s]) => SameAt(requested[s])
    /\ \A m \in replies :
          m.update # NoUpdate /\ ~Outdated(outgoing_sequence, m.seq) => Leads(m)

DeltasInv == TypeOK /\ CopiesInv /\ NumbersInv /\ RequestsInv /\ FramesInv

-----------------------------------------------------------------------------
(* The initial state *)

(* Two frames that are the same match.                                     *)
LEMMA MatchesItself == ASSUME NEW F PROVE Matches(F, F)
BY DEF Matches

(* Nothing has been sent.                                                  *)
LEMMA InitInv == Init => DeltasInv
<1> SUFFICES ASSUME Init PROVE DeltasInv
  OBVIOUS
<1>0. /\ MaxSeq \in Nat /\ MaxFaults \in Nat /\ UPDATE_BACKUP \in Nat
      /\ UPDATE_BACKUP >= 4 /\ Empty \in Frames
  BY DeltaFramesAssumption, EmptyFrame
<1>a. 0 \in Numbers /\ 1 \in 1 .. MaxSeq + 1 /\ 0 \in 0 .. MaxFaults
  BY <1>0 DEF Numbers
<1>1. ClientTypeOK
  <2>1. /\ cmds \in [Slots -> Numbers] /\ requested \in [Slots -> Numbers \cup {NoDelta}]
        /\ cl_entities \in [Slots -> Frames]
    BY <1>0, <1>a DEF Init
  <2>2. 0 \in 0 .. 2 /\ 0 \in 0 .. 3
    OBVIOUS
  <2> QED BY Zenon, <1>a, <2>1, <2>2 DEF Init, ClientTypeOK
<1>2. ServerTypeOK /\ PacketsTypeOK
  <2>1. sv_entities \in [Slots -> Frames]
    BY <1>0 DEF Init
  <2> QED BY <1>a, <2>1 DEF Init, ServerTypeOK, PacketsTypeOK
<1>3. CopiesInv /\ NumbersInv
  BY DEF Init, CopiesInv, NumbersInv
<1>4. RequestsInv
  BY DEF Init, RequestsInv
<1>5. FramesInv
  <2>1. Slot(0) \in Slots
    BY SlotRounds
  <2>2. SameAt(0)
    BY <2>1, MatchesItself DEF Init, SameAt
  <2> QED BY <2>2 DEF Init, FramesInv, SameFrame
<1> QED BY <1>1, <1>2, <1>3, <1>4, <1>5 DEF DeltasInv, TypeOK

-----------------------------------------------------------------------------
(* The client sends *)

(* What sending a command does to numbers, requests and packets.           *)
LEMMA Sending ==
    ASSUME TypeOK, NumbersInv, NEW fire \in BOOLEAN, NEW nodelta \in BOOLEAN,
           NEW drop \in BOOLEAN, CL_SendCmd(fire, nodelta, drop)
    PROVE  \E ask \in Numbers \cup {NoDelta} :
              /\ ask # NoDelta =>
                    ask = validsequence /\ ask # 0 /\ ~Outdated(outgoing_sequence, ask)
              /\ requested' = [requested EXCEPT ![Slot(outgoing_sequence)] = ask]
              /\ outgoing_sequence' = outgoing_sequence + 1 /\ outgoing_sequence <= MaxSeq
              /\ validsequence' \in {0, validsequence}
              /\ cl_delta_sequence' \in {0, validsequence'}
              /\ \A p \in commands' \ commands :
                    p.seq = outgoing_sequence /\ Asks(p.delta, ask) /\ p \in CommandPackets
              /\ UNCHANGED <<shows, server, replies>>
<1> DEFINE n == outgoing_sequence
           late == Outdated(n, validsequence)
           base == IF late THEN 0 ELSE cl_delta_sequence
           ask == IF base # 0 /\ ~nodelta /\ active THEN base ELSE NoDelta
           packet == [seq |-> n,
                      delta |-> IF ask = NoDelta THEN NoDelta ELSE ask % ByteRange,
                      cmds |-> [i \in 1 .. 3 |-> cmds'[Slot(n - 3 + i)]]]
<1>0. /\ MaxSeq \in Nat /\ n \in 1 .. MaxSeq /\ n \in Int /\ n <= MaxSeq
      /\ outgoing_sequence' = n + 1
      /\ requested' = [requested EXCEPT ![Slot(n)] = ask]
      /\ cmds' = [cmds EXCEPT ![Slot(n)] = n]
      /\ validsequence' = IF late THEN 0 ELSE validsequence
      /\ cl_delta_sequence' = base
      /\ commands' = commands \/ commands' = commands \cup {packet}
      /\ UNCHANGED <<shows, server, replies>>
  <2>1. MaxSeq \in Nat /\ n \in Int /\ n >= 1
    BY DeltaFramesAssumption DEF TypeOK, ClientTypeOK
  <2>2. n <= MaxSeq /\ outgoing_sequence' = n + 1 /\ UNCHANGED <<shows, server, replies>>
    BY DEF CL_SendCmd
  <2>3. requested' = [requested EXCEPT ![Slot(n)] = ask] /\ cmds' = [cmds EXCEPT ![Slot(n)] = n]
    BY DEF CL_SendCmd
  <2>4. validsequence' = (IF late THEN 0 ELSE validsequence) /\ cl_delta_sequence' = base
    BY DEF CL_SendCmd
  <2>5. commands' = commands \/ commands' = commands \cup {packet}
    BY Zenon DEF CL_SendCmd
  <2> QED BY <2>1, <2>2, <2>3, <2>4, <2>5
<1>1. ask \in Numbers \cup {NoDelta}
  BY <1>0 DEF TypeOK, ClientTypeOK, Numbers
<1>2. ask # NoDelta => ask = validsequence /\ ask # 0 /\ ~Outdated(n, ask)
  BY DEF NumbersInv
<1>3. validsequence' \in {0, validsequence} /\ cl_delta_sequence' \in {0, validsequence'}
  BY <1>0 DEF NumbersInv
<1>4. packet \in CommandPackets
  <2>1. cmds' \in [Slots -> Numbers]
    BY <1>0, SlotRounds DEF TypeOK, ClientTypeOK, Numbers
  <2>2. \A i \in 1 .. 3 : Slot(n - 3 + i) \in Slots
    BY <1>0, SlotRounds
  <2>3. [i \in 1 .. 3 |-> cmds'[Slot(n - 3 + i)]] \in [1 .. 3 -> Numbers]
    BY <2>1, <2>2
  <2>4. ask # NoDelta => ask % ByteRange \in Bytes
    BY <1>1, SlotOfByte DEF Numbers
  <2> QED BY <1>0, <2>3, <2>4 DEF CommandPackets
<1>5. packet.seq = n /\ Asks(packet.delta, ask)
  BY DEF Asks
<1> HIDE DEF ask, packet, late, base
<1>6. \A p \in commands' \ commands : p = packet
  BY <1>0
<1> QED BY <1>0, <1>1, <1>2, <1>3, <1>4, <1>5, <1>6

(* Sending breaks no type.                                                 *)
LEMMA SendType ==
    ASSUME TypeOK, CopiesInv, NumbersInv, NEW fire \in BOOLEAN, NEW nodelta \in BOOLEAN,
           NEW drop \in BOOLEAN, CL_SendCmd(fire, nodelta, drop)
    PROVE  TypeOK' /\ CopiesInv'
<1>0. /\ MaxSeq \in Nat /\ MaxFaults \in Nat
      /\ outgoing_sequence \in Int /\ Slot(outgoing_sequence) \in Slots
  BY DeltaFramesAssumption, SlotRounds DEF TypeOK, ClientTypeOK
<1>1. PICK ask \in Numbers \cup {NoDelta} :
         /\ requested' = [requested EXCEPT ![Slot(outgoing_sequence)] = ask]
         /\ outgoing_sequence' = outgoing_sequence + 1 /\ outgoing_sequence <= MaxSeq
         /\ validsequence' \in {0, validsequence}
         /\ cl_delta_sequence' \in {0, validsequence'}
         /\ \A p \in commands' \ commands : p \in CommandPackets
         /\ UNCHANGED <<shows, server, replies>>
  BY Sending
<1>2. /\ impulse' = (IF fire THEN outgoing_sequence ELSE impulse)
      /\ fire => impulse = 0
      /\ cmds' = [cmds EXCEPT ![Slot(outgoing_sequence)] = outgoing_sequence]
      /\ faults' \in 0 .. MaxFaults
      /\ dropcount' = 0 \/ (dropcount < 2 /\ dropcount' = dropcount + 1)
      /\ \/ copies' = copies
         \/ /\ copies' = copies + 1
            /\ impulse' # 0 /\ impulse' >= outgoing_sequence - 2
  <2>1. /\ impulse' = (IF fire THEN outgoing_sequence ELSE impulse)
        /\ fire => impulse = 0
        /\ cmds' = [cmds EXCEPT ![Slot(outgoing_sequence)] = outgoing_sequence]
        /\ Disturb((IF nodelta THEN 1 ELSE 0) + (IF fire THEN 1 ELSE 0))
    BY DEF CL_SendCmd
  <2>2. faults' \in 0 .. MaxFaults
    BY <1>0, <2>1 DEF Disturb, TypeOK, ServerTypeOK
  <2>3. CASE drop
    BY <2>1, <2>2, <2>3 DEF CL_SendCmd
  <2>4. CASE ~drop
    BY <2>1, <2>2, <2>4 DEF CL_SendCmd
  <2> QED BY <2>3, <2>4
<1>3. impulse' \in Numbers /\ CopiesInv' /\ copies' \in 0 .. 3
  BY <1>0, <1>1, <1>2 DEF CopiesInv, TypeOK, ClientTypeOK, Numbers
<1>4. dropcount' \in 0 .. 2
  BY <1>2 DEF TypeOK, ClientTypeOK
<1>5. requested' \in [Slots -> Numbers \cup {NoDelta}] /\ cmds' \in [Slots -> Numbers]
  BY <1>0, <1>1, <1>2 DEF TypeOK, ClientTypeOK, Numbers
<1>6. /\ outgoing_sequence' \in 1 .. MaxSeq + 1
      /\ validsequence' \in Numbers /\ cl_delta_sequence' \in Numbers
  BY <1>0, <1>1 DEF TypeOK, ClientTypeOK, Numbers
<1>7. ClientTypeOK'
  BY <1>1, <1>3, <1>4, <1>5, <1>6
  DEF TypeOK, ClientTypeOK, shows, server, executed
<1>8. ServerTypeOK'
  BY <1>1, <1>2 DEF TypeOK, ServerTypeOK, server, executed
<1>9. PacketsTypeOK'
  BY <1>1 DEF TypeOK, PacketsTypeOK
<1> QED BY <1>3, <1>7, <1>8, <1>9 DEF TypeOK

(* All numbers are integers.                                               *)
LEMMA Numeric ==
    ASSUME TypeOK
    PROVE  /\ UPDATE_BACKUP \in Int /\ UPDATE_BACKUP >= 4 /\ NoDelta = -1
           /\ outgoing_sequence \in Int /\ outgoing_sequence >= 1
           /\ received \in Int /\ received >= 0
           /\ validsequence \in Int /\ validsequence >= 0
           /\ \A s \in Slots : requested[s] \in Int /\ requested[s] >= -1
           /\ \A m \in commands : m.seq \in Int /\ m.seq >= 1
           /\ \A m \in replies : m.seq \in Int /\ m.seq >= 1 /\ Slot(m.seq) \in Slots
           /\ Slot(received) \in Slots /\ Slot(outgoing_sequence) \in Slots
<1>1. UPDATE_BACKUP \in Int /\ UPDATE_BACKUP >= 4 /\ MaxSeq \in Nat /\ NoDelta = -1
  BY DeltaFramesAssumption DEF NoDelta
<1>2. /\ outgoing_sequence \in Int /\ outgoing_sequence >= 1
      /\ received \in Int /\ received >= 0
      /\ validsequence \in Int /\ validsequence >= 0
  BY <1>1 DEF TypeOK, ClientTypeOK, ServerTypeOK, Numbers
<1>3. \A s \in Slots : requested[s] \in Int /\ requested[s] >= -1
  BY <1>1 DEF TypeOK, ClientTypeOK, Numbers
<1>4. \A m \in commands : m.seq \in Int /\ m.seq >= 1
  BY <1>1 DEF TypeOK, PacketsTypeOK, CommandPackets
<1>5. \A m \in replies : m.seq \in Int /\ m.seq >= 1
  BY <1>1 DEF TypeOK, PacketsTypeOK
<1> QED BY <1>1, <1>2, <1>3, <1>4, <1>5, SlotRounds

(* A frame that may still be used has not been written over by n later.    *)
LEMMA NotOverwritten ==
    ASSUME TypeOK, NEW n \in Int, NEW d \in Int, d < n, n <= outgoing_sequence,
           ~Outdated(outgoing_sequence, d)
    PROVE  Slot(n) # Slot(d)
<1>1. n - d < UPDATE_BACKUP
  BY Numeric DEF Outdated
<1> QED BY <1>1, SlotsDiffer

(* Sending keeps the order of the packets, the requests and the frames.    *)
LEMMA SendInv ==
    ASSUME DeltasInv, NEW fire \in BOOLEAN, NEW nodelta \in BOOLEAN,
           NEW drop \in BOOLEAN, CL_SendCmd(fire, nodelta, drop)
    PROVE  NumbersInv' /\ RequestsInv' /\ FramesInv'
<1> DEFINE n == outgoing_sequence
<1>0. TypeOK /\ NumbersInv /\ RequestsInv /\ FramesInv
  BY DEF DeltasInv
<1>1. PICK ask \in Numbers \cup {NoDelta} :
         /\ ask # NoDelta =>
               ask = validsequence /\ ask # 0 /\ ~Outdated(n, ask)
         /\ requested' = [requested EXCEPT ![Slot(n)] = ask]
         /\ outgoing_sequence' = n + 1 /\ n <= MaxSeq
         /\ validsequence' \in {0, validsequence}
         /\ cl_delta_sequence' \in {0, validsequence'}
         /\ \A p \in commands' \ commands :
               p.seq = n /\ Asks(p.delta, ask) /\ p \in CommandPackets
         /\ UNCHANGED <<shows, server, replies>>
  BY <1>0, Sending
<1>2. /\ received' = received /\ send_message' = send_message
      /\ sv_delta_sequence' = sv_delta_sequence /\ sv_entities' = sv_entities
      /\ cl_entities' = cl_entities /\ replies' = replies
  BY <1>1 DEF shows, server, executed
<1>3. /\ ask \in Int
      /\ requested'[Slot(n)] = ask
      /\ \A s \in Slots : s # Slot(n) => requested'[s] = requested[s]
  <2>1. ask \in Int
    BY <1>1, DeltaFramesAssumption DEF Numbers, NoDelta
  <2>2. requested \in [Slots -> Numbers \cup {NoDelta}] /\ Slot(n) \in Slots
    BY <1>0, Numeric DEF TypeOK, ClientTypeOK
  <2> QED BY <1>1, <2>1, <2>2
<1>4. NumbersInv'
  <2>1. \A m \in commands' : received < m.seq /\ m.seq < n + 1
    <3> SUFFICES ASSUME NEW m \in commands' PROVE received < m.seq /\ m.seq < n + 1
      OBVIOUS
    <3>1. CASE m \in commands
      BY <1>0, <3>1, Numeric DEF NumbersInv
    <3>2. CASE m \notin commands
      BY <1>0, <1>1, <3>2, Numeric DEF NumbersInv
    <3> QED BY <3>1, <3>2
  <2>2. validsequence' \in Int /\ validsequence' <= validsequence
    BY <1>0, <1>1, Numeric
  <2>3. received < n + 1 /\ validsequence' <= received
    BY <1>0, <2>2, Numeric DEF NumbersInv
  <2>4. send_message => validsequence' < received
    BY <1>0, <2>2, Numeric DEF NumbersInv
  <2>5. \A m \in replies : validsequence' < m.seq
    BY <1>0, <2>2, Numeric DEF NumbersInv
  <2> QED BY <1>0, <1>1, <1>2, <2>1, <2>3, <2>4, <2>5 DEF NumbersInv
<1>5. \A k \in Int : k < n /\ n + 1 - k <= UPDATE_BACKUP => Slot(k) # Slot(n) /\ Slot(k) \in Slots
  <2> SUFFICES ASSUME NEW k \in Int, k < n, n + 1 - k <= UPDATE_BACKUP
               PROVE  Slot(k) # Slot(n) /\ Slot(k) \in Slots
    OBVIOUS
  <2>1. n - k < UPDATE_BACKUP
    BY <1>0, Numeric
  <2> QED BY <1>0, <2>1, SlotsDiffer, SlotRounds, Numeric
<1>6. RequestsInv'
  <2>1. \A s \in Slots : /\ requested'[s] <= received
                         /\ send_message => requested'[s] < received
                         /\ \A m \in replies : requested'[s] < m.seq
    <3> SUFFICES ASSUME NEW s \in Slots
                 PROVE  /\ requested'[s] <= received
                        /\ send_message => requested'[s] < received
                        /\ \A m \in replies : requested'[s] < m.seq
      OBVIOUS
    <3>1. CASE s # Slot(n)
      BY <1>0, <1>3, <3>1 DEF RequestsInv
    <3>2. CASE s = Slot(n) /\ ask # NoDelta
      BY <1>0, <1>1, <1>3, <3>2 DEF NumbersInv
    <3>3. CASE s = Slot(n) /\ ask = NoDelta
      <4>1. send_message => 0 < received
        BY <1>0, Numeric DEF NumbersInv
      <4> QED BY <1>0, <1>3, <3>3, <4>1, Numeric
    <3> QED BY <3>1, <3>2, <3>3
  <2>2. \A m \in commands' : InRing(n + 1, m.seq) => Asks(m.delta, requested'[Slot(m.seq)])
    <3> SUFFICES ASSUME NEW m \in commands', InRing(n + 1, m.seq)
                 PROVE  Asks(m.delta, requested'[Slot(m.seq)])
      OBVIOUS
    <3>1. CASE m \in commands
      <4>1. m.seq \in Int /\ m.seq < n /\ InRing(n, m.seq) /\ n + 1 - m.seq <= UPDATE_BACKUP
        BY <1>0, <3>1, Numeric DEF NumbersInv, InRing
      <4> QED BY <1>0, <1>3, <1>5, <3>1, <4>1 DEF RequestsInv
    <3>2. CASE m \notin commands
      BY <1>1, <1>3, <3>2
    <3> QED BY <3>1, <3>2
  <2>3. send_message /\ InRing(n + 1, received) =>
            Asks(sv_delta_sequence, requested'[Slot(received)])
    <3> SUFFICES ASSUME send_message, InRing(n + 1, received)
                 PROVE  Asks(sv_delta_sequence, requested'[Slot(received)])
      OBVIOUS
    <3>1. received \in Int /\ received < n /\ InRing(n, received) /\ n + 1 - received <= UPDATE_BACKUP
      BY <1>0, Numeric DEF NumbersInv, InRing
    <3> QED BY <1>0, <1>3, <1>5, <3>1 DEF RequestsInv
  <2>4. \A m \in replies :
           m.update # NoUpdate /\ InRing(n + 1, m.seq) =>
              Asks(m.update.from, requested'[Slot(m.seq)])
    <3> SUFFICES ASSUME NEW m \in replies, m.update # NoUpdate, InRing(n + 1, m.seq)
                 PROVE  Asks(m.update.from, requested'[Slot(m.seq)])
      OBVIOUS
    <3>1. m.seq \in Int /\ m.seq < n /\ InRing(n, m.seq) /\ n + 1 - m.seq <= UPDATE_BACKUP
      BY <1>0, Numeric DEF NumbersInv, InRing
    <3> QED BY <1>0, <1>3, <1>5, <3>1 DEF RequestsInv
  <2> QED BY <1>1, <1>2, <2>1, <2>2, <2>3, <2>4 DEF RequestsInv
<1>7. \A d \in Int : ~Outdated(n + 1, d) => ~Outdated(n, d) /\ n + 1 - d <= UPDATE_BACKUP
  BY <1>0, Numeric DEF Outdated
<1>8. FramesInv'
  <2>1. SameFrame'
    BY <1>0, <1>1, <1>2, <1>7, Numeric DEF FramesInv, SameFrame
  <2>2. ask # NoDelta => SameAt(ask)
    BY <1>0, <1>1 DEF FramesInv, SameFrame, SameAt
  <2>3. \A s \in Slots : Usable(requested[s])' => SameAt(requested[s])'
    <3> SUFFICES ASSUME NEW s \in Slots, requested'[s] # NoDelta, ~Outdated(n + 1, requested'[s])
                 PROVE  SameAt(requested'[s])
      BY <1>1, <1>2 DEF Usable, SameAt
    <3>1. CASE s = Slot(n)
      BY <1>3, <2>2, <3>1
    <3>2. CASE s # Slot(n)
      <4>1. requested'[s] = requested[s] /\ requested[s] \in Int
        BY <1>0, <1>3, <3>2, Numeric
      <4> QED BY <1>0, <1>7, <4>1 DEF FramesInv, Usable
    <3> QED BY <3>1, <3>2
  <2>4. ASSUME NEW m \in replies, m.update # NoUpdate, ~Outdated(n + 1, m.seq)
        PROVE  Leads(m)'
    <3>1. m.seq \in Int /\ m.seq < n
      BY <1>0, Numeric DEF NumbersInv
    <3>2. requested'[Slot(m.seq)] = requested[Slot(m.seq)] /\ requested[Slot(m.seq)] \in Int
      BY <1>0, <1>3, <1>5, <1>7, <2>4, <3>1, Numeric
    <3>3. Leads(m)
      BY <1>0, <1>7, <2>4, <3>1 DEF FramesInv
    <3> QED BY <1>1, <1>2, <1>7, <3>2, <3>3 DEF Leads, Usable
  <2> QED BY <1>1, <1>2, <2>1, <2>3, <2>4 DEF FramesInv
<1> QED BY <1>4, <1>6, <1>8

-----------------------------------------------------------------------------
(* The server *)

(* Reading a packet breaks nothing: what it asks for is asked of the       *)
(* server now.                                                             *)
LEMMA MessageInv ==
    ASSUME DeltasInv, NEW m \in commands, SV_ExecuteClientMessage(m)
    PROVE  DeltasInv'
<1>0. TypeOK /\ CopiesInv /\ NumbersInv /\ RequestsInv /\ FramesInv
  BY DEF DeltasInv
<1>1. /\ m \in CommandPackets /\ m.seq \in Numbers /\ m.seq \in Int
      /\ m.delta \in Bytes \cup {NoDelta} /\ m.cmds[3] \in Numbers
  BY <1>0, DeltaFramesAssumption DEF TypeOK, PacketsTypeOK, CommandPackets, Numbers
<1>2. /\ commands' = {k \in commands : k.seq > m.seq}
      /\ received' = m.seq /\ send_message' = TRUE
      /\ sv_delta_sequence' = m.delta /\ lastcmd' = m.cmds[3]
      /\ UNCHANGED <<client, sv_entities, replies, faults>>
      /\ arrived' \in BOOLEAN
  BY <1>0 DEF SV_ExecuteClientMessage, TypeOK, ClientTypeOK
<1>3. /\ UNCHANGED <<outgoing_sequence, dropcount, cmds, requested, impulse, copies>>
      /\ UNCHANGED <<active, cl_entities, validsequence, cl_delta_sequence>>
      /\ UNCHANGED <<sv_entities, replies, faults>>
  BY <1>2 DEF client, asks, shows
<1>4. received < m.seq /\ m.seq < outgoing_sequence
  BY <1>0 DEF NumbersInv
<1>5. TypeOK' /\ CopiesInv'
  <2>1. ClientTypeOK' /\ CopiesInv'
    BY <1>0, <1>2, <1>3 DEF TypeOK, ClientTypeOK, CopiesInv
  <2>2. ServerTypeOK'
    BY <1>0, <1>1, <1>2, <1>3 DEF TypeOK, ServerTypeOK
  <2>3. PacketsTypeOK'
    BY <1>0, <1>2, <1>3 DEF TypeOK, PacketsTypeOK
  <2> QED BY <2>1, <2>2, <2>3 DEF TypeOK
<1>6. NumbersInv'
  <2>1. validsequence < m.seq
    BY <1>0, <1>1, <1>4, Numeric DEF NumbersInv
  <2>2. \A k \in replies : k.seq < m.seq
    BY <1>0, <1>1, <1>4, Numeric DEF NumbersInv
  <2>3. \A k \in commands' : m.seq < k.seq /\ k.seq < outgoing_sequence
    BY <1>0, <1>1, <1>2, Numeric DEF NumbersInv
  <2>4. validsequence <= m.seq /\ \A k \in replies : k.seq <= m.seq
    BY <1>0, <1>1, <2>1, <2>2, Numeric
  <2> QED BY <1>0, <1>2, <1>3, <1>4, <2>1, <2>2, <2>3, <2>4 DEF NumbersInv
<1>7. RequestsInv'
  <2>1. \A s \in Slots : requested[s] < m.seq /\ requested[s] <= m.seq
    BY <1>0, <1>1, <1>4, Numeric DEF RequestsInv
  <2>2. InRing(outgoing_sequence, m.seq) => Asks(m.delta, requested[Slot(m.seq)])
    BY <1>0 DEF RequestsInv
  <2> QED BY <1>0, <1>2, <1>3, <2>1, <2>2 DEF RequestsInv
<1>8. FramesInv'
  BY <1>0, <1>3 DEF FramesInv, SameFrame, Leads, Usable, SameAt
<1> QED BY <1>5, <1>6, <1>7, <1>8 DEF DeltasInv

(* The answer leads from the frame the client has asked for to what the    *)
(* server has in the slot of the packet now.                               *)
LEMMA DatagramInv ==
    ASSUME DeltasInv, NEW visible \in Frames, NEW room, NEW overflowed \in BOOLEAN,
           SV_SendClientDatagram(visible, room, overflowed)
    PROVE  DeltasInv'
<1> DEFINE base == IF sv_delta_sequence = NoDelta THEN Empty
                   ELSE [sv_entities EXCEPT ![Slot(received)] = visible][Slot(sv_delta_sequence)]
           u == UpdateFrom(sv_delta_sequence, base, visible, room)
           to == Meant(base, visible, room)
           answer == [seq |-> received, update |-> IF overflowed THEN NoUpdate ELSE u]
<1>0. TypeOK /\ CopiesInv /\ NumbersInv /\ RequestsInv /\ FramesInv
  BY DEF DeltasInv
<1>1. /\ send_message /\ send_message' = FALSE
      /\ faults' \in 0 .. MaxFaults
      /\ UNCHANGED <<client, received, sv_delta_sequence, executed, commands>>
  <2>1. MaxFaults \in Nat
    BY DeltaFramesAssumption
  <2> QED BY <1>0, <2>1 DEF SV_SendClientDatagram, Disturb, TypeOK, ServerTypeOK
<1>2. /\ UNCHANGED <<outgoing_sequence, dropcount, cmds, requested, impulse, copies>>
      /\ UNCHANGED <<active, cl_entities, validsequence, cl_delta_sequence>>
      /\ UNCHANGED <<received, sv_delta_sequence, lastcmd, arrived, commands>>
  BY <1>1 DEF client, asks, shows, executed
<1>3. /\ sv_entities' = [sv_entities EXCEPT ![Slot(received)] = to]
      /\ replies' = replies \cup {answer}
  <2>1. SV_WriteEntitiesToClient(visible, room) = [frame |-> to, update |-> u]
    BY DEF SV_WriteEntitiesToClient, UpdateFrom, Meant, Written, Old
  <2> QED BY <2>1 DEF SV_SendClientDatagram
<1>4. /\ received \in Int /\ received \in 1 .. MaxSeq
      /\ Slot(received) \in Slots
      /\ received < outgoing_sequence /\ validsequence < received
      /\ sv_entities \in [Slots -> Frames] /\ cl_entities \in [Slots -> Frames]
      /\ sv_delta_sequence \in Bytes \cup {NoDelta}
  <2>1. MaxSeq \in Nat
    BY DeltaFramesAssumption
  <2>2. received \in Int /\ validsequence \in Int /\ validsequence >= 0 /\ Slot(received) \in Slots
    BY <1>0, Numeric
  <2>3. received \in 0 .. MaxSeq /\ validsequence < received
    BY <1>0, <1>1, <2>1 DEF NumbersInv, TypeOK, ServerTypeOK, Numbers
  <2> QED BY <1>0, <2>1, <2>2, <2>3 DEF NumbersInv, TypeOK, ServerTypeOK, ClientTypeOK
<1>5. base \in Frames
  <2>1. CASE sv_delta_sequence = NoDelta
    BY <2>1, EmptyFrame
  <2>2. CASE sv_delta_sequence # NoDelta
    <3>1. sv_delta_sequence \in Int
      BY <1>4, <2>2, DeltaFramesAssumption DEF Bytes
    <3>2. [sv_entities EXCEPT ![Slot(received)] = visible] \in [Slots -> Frames]
      BY <1>4
    <3> QED BY <2>2, <3>1, <3>2, SlotRounds
  <2> QED BY <2>1, <2>2
<1> HIDE DEF base
<1>6. to \in Frames /\ u \in Updates
  BY <1>4, <1>5, WrittenType
<1>7. /\ sv_entities' \in [Slots -> Frames]
      /\ sv_entities'[Slot(received)] = to
      /\ \A s \in Slots : s # Slot(received) => sv_entities'[s] = sv_entities[s]
  BY <1>3, <1>4, <1>6
<1>8. u.from = sv_delta_sequence
  BY DEF UpdateFrom
<1>a. answer.seq = received /\ answer.update = IF overflowed THEN NoUpdate ELSE u
  OBVIOUS
<1> HIDE DEF u, to, answer
<1>9. TypeOK' /\ CopiesInv'
  <2>1. ClientTypeOK' /\ CopiesInv'
    BY <1>0, <1>2 DEF TypeOK, ClientTypeOK, CopiesInv
  <2>2. ServerTypeOK'
    BY <1>0, <1>1, <1>2, <1>7 DEF TypeOK, ServerTypeOK
  <2>3. PacketsTypeOK'
    BY <1>0, <1>2, <1>3, <1>4, <1>6, <1>a DEF TypeOK, PacketsTypeOK
  <2> QED BY <2>1, <2>2, <2>3 DEF TypeOK
<1>10. NumbersInv'
  <2>1. \A k \in replies' : k.seq <= received /\ validsequence < k.seq
    BY <1>0, <1>3, <1>4, <1>a DEF NumbersInv
  <2> QED BY <1>0, <1>1, <1>2, <2>1 DEF NumbersInv
<1>11. RequestsInv'
  <2>1. \A s \in Slots : \A k \in replies' : requested[s] < k.seq
    BY <1>0, <1>1, <1>3, <1>a DEF RequestsInv
  <2>2. \A k \in replies' :
           k.update # NoUpdate /\ InRing(outgoing_sequence, k.seq) =>
              Asks(k.update.from, requested[Slot(k.seq)])
    BY <1>0, <1>1, <1>3, <1>8, <1>a DEF RequestsInv
  <2> QED BY <1>0, <1>1, <1>2, <2>1, <2>2 DEF RequestsInv
<1>12. \A d \in Int : d < received /\ ~Outdated(outgoing_sequence, d) =>
          sv_entities'[Slot(d)] = sv_entities[Slot(d)]
  <2> SUFFICES ASSUME NEW d \in Int, d < received, ~Outdated(outgoing_sequence, d)
               PROVE  sv_entities'[Slot(d)] = sv_entities[Slot(d)]
    OBVIOUS
  <2>1. received <= outgoing_sequence
    BY <1>0, <1>4, Numeric
  <2>2. Slot(received) # Slot(d)
    BY <1>0, <1>4, <2>1, NotOverwritten
  <2> QED BY <1>7, <2>2, SlotRounds
<1>13. ASSUME ~overflowed, ~Outdated(outgoing_sequence, received)
       PROVE  IF sv_delta_sequence = NoDelta THEN Matches(Merge(Empty, u), to)
              ELSE Usable(requested[Slot(received)]) =>
                      Matches(Merge(cl_entities[Slot(requested[Slot(received)])], u), to)
  <2> DEFINE d == requested[Slot(received)]
  <2>1. InRing(outgoing_sequence, received)
    BY <1>0, <1>4, <1>13, Numeric DEF InRing, Outdated
  <2>2. Asks(sv_delta_sequence, d) /\ d \in Int /\ d < received
    BY <1>0, <1>1, <1>4, <2>1, Numeric DEF RequestsInv
  <2>3. CASE sv_delta_sequence = NoDelta
    <3>1. base = Empty
      BY <2>3 DEF base
    <3> QED BY <1>4, <2>3, <3>1, EmptyFrame, MatchesItself, MergeMatches DEF u, to
  <2>4. CASE sv_delta_sequence # NoDelta
    <3> SUFFICES ASSUME Usable(d) PROVE Matches(Merge(cl_entities[Slot(d)], u), to)
      BY <2>4
    <3>2. sv_delta_sequence = d % ByteRange
      BY <2>2 DEF Asks, Usable
    <3>3. Slot(sv_delta_sequence) = Slot(d) /\ Slot(d) \in Slots
      BY <2>2, <3>2, SlotOfByte, SlotRounds
    <3>4. Slot(received) # Slot(d)
      <4>1. received <= outgoing_sequence
        BY <1>0, <1>4, Numeric
      <4> QED BY <1>0, <1>4, <2>2, <4>1, NotOverwritten DEF Usable
    <3>5. base = sv_entities[Slot(d)]
      BY <1>4, <2>4, <3>3, <3>4 DEF base
    <3>6. Matches(cl_entities[Slot(d)], base)
      BY <1>0, <1>4, <3>5 DEF FramesInv, SameAt
    <3>7. cl_entities[Slot(d)] \in Frames
      BY <1>4, <3>3
    <3> QED BY <1>5, <3>6, <3>7, MergeMatches DEF u, to
  <2> QED BY <2>3, <2>4
<1>14. FramesInv'
  <2>1. SameFrame'
    <3> SUFFICES ASSUME validsequence # 0, ~Outdated(outgoing_sequence, validsequence)
                 PROVE  Matches(cl_entities[Slot(validsequence)], sv_entities'[Slot(validsequence)])
      BY <1>2 DEF SameFrame
    <3>1. validsequence \in Int
      BY <1>0, Numeric
    <3> QED BY <1>0, <1>4, <1>12, <3>1 DEF FramesInv, SameFrame
  <2>2. \A s \in Slots : Usable(requested[s])' => SameAt(requested[s])'
    <3> SUFFICES ASSUME NEW s \in Slots, Usable(requested[s])
                 PROVE  SameAt(requested[s])'
      BY <1>2 DEF Usable
    <3>1. requested[s] \in Int /\ requested[s] < received
      BY <1>0, <1>1, Numeric DEF RequestsInv
    <3> QED BY <1>0, <1>2, <1>12, <3>1 DEF FramesInv, Usable, SameAt
  <2>3. ASSUME NEW k \in replies', k.update # NoUpdate, ~Outdated(outgoing_sequence, k.seq)
        PROVE  Leads(k)'
    <3>1. CASE k \in replies
      <4>1. k.seq \in Int /\ k.seq < received
        BY <1>0, <1>1, <3>1, Numeric DEF NumbersInv
      <4>2. Leads(k)
        BY <1>0, <2>3, <3>1 DEF FramesInv
      <4> QED BY <1>2, <1>12, <2>3, <4>1, <4>2 DEF Leads, Usable
    <3>2. CASE k = answer
      <4>1. k.seq = received /\ k.update = u /\ ~overflowed
        BY <1>a, <2>3, <3>2
      <4> QED BY <1>2, <1>7, <1>8, <1>13, <2>3, <4>1 DEF Leads, Usable
    <3> QED BY <1>3, <3>1, <3>2
  <2> QED BY <1>2, <2>1, <2>2, <2>3 DEF FramesInv
<1> QED BY <1>9, <1>10, <1>11, <1>14 DEF DeltasInv

(* No answer at all.                                                       *)
LEMMA ChokeInv == ASSUME DeltasInv, SV_ChokeClient PROVE DeltasInv'
<1>0. TypeOK /\ CopiesInv /\ NumbersInv /\ RequestsInv /\ FramesInv
  BY DEF DeltasInv
<1>1. /\ send_message' = FALSE
      /\ faults' \in 0 .. MaxFaults
      /\ UNCHANGED <<client, received, sv_delta_sequence, sv_entities, executed, commands, replies>>
  <2>1. MaxFaults \in Nat
    BY DeltaFramesAssumption
  <2> QED BY <1>0, <2>1 DEF SV_ChokeClient, Disturb, TypeOK, ServerTypeOK
<1>2. /\ UNCHANGED <<outgoing_sequence, dropcount, cmds, requested, impulse, copies>>
      /\ UNCHANGED <<active, cl_entities, validsequence, cl_delta_sequence>>
      /\ UNCHANGED <<received, sv_delta_sequence, sv_entities, lastcmd, arrived, commands, replies>>
  BY <1>1 DEF client, asks, shows, executed
<1>3. TypeOK' /\ CopiesInv'
  <2>1. ClientTypeOK' /\ CopiesInv'
    BY <1>0, <1>2 DEF TypeOK, ClientTypeOK, CopiesInv
  <2>2. ServerTypeOK'
    BY <1>0, <1>1, <1>2 DEF TypeOK, ServerTypeOK
  <2>3. PacketsTypeOK'
    BY <1>0, <1>2 DEF TypeOK, PacketsTypeOK
  <2> QED BY <2>1, <2>2, <2>3 DEF TypeOK
<1>4. NumbersInv' /\ RequestsInv'
  BY <1>0, <1>1, <1>2 DEF NumbersInv, RequestsInv
<1>5. FramesInv'
  BY <1>0, <1>2 DEF FramesInv, SameFrame, Leads, Usable, SameAt
<1> QED BY <1>3, <1>4, <1>5 DEF DeltasInv

-----------------------------------------------------------------------------
(* The network and the client *)

(* Fewer packets, and all else as it was.                                  *)
LEMMA FewerInv ==
    ASSUME DeltasInv, commands' \in SUBSET commands, replies' \in SUBSET replies,
           UNCHANGED <<client, server, faults>>
    PROVE  DeltasInv'
<1>0. TypeOK /\ CopiesInv /\ NumbersInv /\ RequestsInv /\ FramesInv
  BY DEF DeltasInv
<1>1. /\ UNCHANGED <<outgoing_sequence, dropcount, cmds, requested, impulse, copies>>
      /\ UNCHANGED <<active, cl_entities, validsequence, cl_delta_sequence>>
      /\ UNCHANGED <<received, send_message, sv_delta_sequence, sv_entities>>
      /\ UNCHANGED <<lastcmd, arrived, faults>>
  BY DEF client, server, asks, shows, executed
<1>2. TypeOK' /\ CopiesInv'
  <2>1. ClientTypeOK' /\ ServerTypeOK' /\ CopiesInv'
    BY <1>0, <1>1 DEF TypeOK, ClientTypeOK, ServerTypeOK, CopiesInv
  <2>2. PacketsTypeOK'
    BY <1>0 DEF TypeOK, PacketsTypeOK
  <2> QED BY <2>1, <2>2 DEF TypeOK
<1>3. NumbersInv' /\ RequestsInv'
  BY <1>0, <1>1 DEF NumbersInv, RequestsInv
<1>4. FramesInv'
  BY <1>0, <1>1 DEF FramesInv, SameFrame, Leads, Usable, SameAt
<1> QED BY <1>2, <1>3, <1>4 DEF DeltasInv

(* Reading an answer never makes the client show, or ask for, a frame that *)
(* differs from the server's, and the frames it has asked for stay.        *)
LEMMA ReadInv ==
    ASSUME DeltasInv, NEW m \in replies, CL_ReadPacket(m)
    PROVE  DeltasInv'
<1> DEFINE n == m.seq
           u == m.update
           asked == requested[Slot(n)]
<1>0. TypeOK /\ CopiesInv /\ NumbersInv /\ RequestsInv /\ FramesInv
  BY DEF DeltasInv
<1>1. /\ replies' = {k \in replies : k.seq > n}
      /\ UNCHANGED <<asks, server, commands, faults>>
  BY DEF CL_ReadPacket
<1>2. /\ UNCHANGED <<outgoing_sequence, dropcount, cmds, requested, impulse, copies>>
      /\ UNCHANGED <<received, send_message, sv_delta_sequence, sv_entities>>
      /\ UNCHANGED <<lastcmd, arrived, commands, faults>>
  BY <1>1 DEF server, asks, executed
<1>3. /\ n \in Int /\ n \in Numbers /\ Slot(n) \in Slots /\ n > 0
      /\ n <= received /\ validsequence < n /\ n <= outgoing_sequence
      /\ send_message => n < received
      /\ asked \in Int
  <2>1. n \in 1 .. MaxSeq /\ MaxSeq \in Nat
    BY <1>0, DeltaFramesAssumption DEF TypeOK, PacketsTypeOK
  <2> QED BY <1>0, <2>1, Numeric DEF NumbersInv, Numbers
<1>4. \A k \in replies' : k \in replies /\ n < k.seq
  BY <1>0, <1>1, <1>3, Numeric
<1>5. RequestsInv'
  BY <1>0, <1>2, <1>4 DEF RequestsInv
<1>6. ServerTypeOK' /\ PacketsTypeOK' /\ CopiesInv'
  <2>1. ServerTypeOK' /\ CopiesInv'
    BY <1>0, <1>2 DEF TypeOK, ServerTypeOK, CopiesInv
  <2>2. PacketsTypeOK'
    BY <1>0, <1>2, <1>4 DEF TypeOK, PacketsTypeOK
  <2> QED BY <2>1, <2>2
<1>7. ASSUME UNCHANGED <<validsequence, cl_delta_sequence, active, cl_entities>>
      PROVE  DeltasInv'
  BY <1>1, <1>4, <1>7, FewerInv DEF client, shows, server
<1>8. ASSUME NEW valid \in {0, validsequence}, FlushEntityPacket(valid)
      PROVE  DeltasInv'
  <2>1. /\ cl_delta_sequence' = 0 /\ validsequence' = valid
        /\ active' = active /\ cl_entities' = cl_entities
    BY <1>8 DEF FlushEntityPacket
  <2>2. ClientTypeOK'
    BY <1>0, <1>2, <2>1, DeltaFramesAssumption DEF TypeOK, ClientTypeOK, Numbers
  <2>3. NumbersInv'
    <3>1. valid \in Int /\ valid <= validsequence
      BY <1>0, Numeric
    <3>2. valid <= received /\ (send_message => valid < received) /\ \A k \in replies : valid < k.seq
      BY <1>0, <3>1, Numeric DEF NumbersInv
    <3> QED BY <1>0, <1>2, <1>4, <2>1, <3>2 DEF NumbersInv
  <2>4. FramesInv'
    BY <1>0, <1>2, <1>4, <2>1 DEF FramesInv, SameFrame, Leads, Usable, SameAt
  <2> QED BY <1>5, <1>6, <2>2, <2>3, <2>4 DEF DeltasInv, TypeOK
<1>9. ASSUME NEW old \in Frames, ParseFrame(n, old, u), u \in Updates,
             ~Outdated(outgoing_sequence, n) => Matches(Merge(old, u), sv_entities[Slot(n)])
      PROVE  DeltasInv'
  <2>1. /\ cl_delta_sequence' = n /\ validsequence' = n /\ active' = TRUE
        /\ cl_entities' = [cl_entities EXCEPT ![Slot(n)] = Merge(old, u)]
    BY <1>9 DEF ParseFrame
  <2>2. cl_entities \in [Slots -> Frames] /\ Merge(old, u) \in Frames
    BY <1>0, <1>9, MergeType DEF TypeOK, ClientTypeOK
  <2>3. /\ cl_entities' \in [Slots -> Frames]
        /\ cl_entities'[Slot(n)] = Merge(old, u)
        /\ \A s \in Slots : s # Slot(n) => cl_entities'[s] = cl_entities[s]
    BY <1>3, <2>1, <2>2
  <2>4. ClientTypeOK'
    BY <1>0, <1>2, <1>3, <2>1, <2>3 DEF TypeOK, ClientTypeOK
  <2>5. NumbersInv'
    BY <1>0, <1>2, <1>3, <1>4, <2>1 DEF NumbersInv
  <2>6. \A s \in Slots : Usable(requested[s]) =>
           cl_entities'[Slot(requested[s])] = cl_entities[Slot(requested[s])]
    <3> SUFFICES ASSUME NEW s \in Slots, Usable(requested[s])
                 PROVE  cl_entities'[Slot(requested[s])] = cl_entities[Slot(requested[s])]
      OBVIOUS
    <3>1. requested[s] \in Int /\ requested[s] < n
      BY <1>0, Numeric DEF RequestsInv
    <3>2. Slot(n) # Slot(requested[s]) /\ Slot(requested[s]) \in Slots
      BY <1>0, <1>3, <3>1, NotOverwritten, SlotRounds DEF Usable
    <3> QED BY <2>3, <3>2
  <2>7. SameFrame'
    BY <1>2, <1>9, <2>1, <2>3 DEF SameFrame
  <2>8. \A s \in Slots : Usable(requested[s])' => SameAt(requested[s])'
    <3> SUFFICES ASSUME NEW s \in Slots, Usable(requested[s]) PROVE SameAt(requested[s])'
      BY <1>2 DEF Usable
    <3> QED BY <1>0, <1>2, <2>6 DEF FramesInv, SameAt
  <2>9. ASSUME NEW k \in replies', k.update # NoUpdate, ~Outdated(outgoing_sequence, k.seq)
        PROVE  Leads(k)'
    <3>1. k \in replies /\ Slot(k.seq) \in Slots
      BY <1>0, <1>4, Numeric
    <3>2. Leads(k)
      BY <1>0, <2>9, <3>1 DEF FramesInv
    <3> QED BY <1>2, <2>6, <3>1, <3>2 DEF Leads, Usable
  <2>10. FramesInv'
    BY <1>2, <2>7, <2>8, <2>9 DEF FramesInv
  <2> QED BY <1>5, <1>6, <2>4, <2>5, <2>10 DEF DeltasInv, TypeOK
<1>10. CASE u = NoUpdate
  BY <1>7, <1>10 DEF CL_ReadPacket
<1>11. CASE u # NoUpdate
  <2>1. CL_ParsePacketEntities(n, u)
    BY <1>11 DEF CL_ReadPacket
  <2>2. u \in Updates
    BY <1>0, <1>11 DEF TypeOK, PacketsTypeOK
  <2>3. ~Outdated(outgoing_sequence, n) => Leads(m) /\ Asks(u.from, asked)
    <3>1. ~Outdated(outgoing_sequence, n) => InRing(outgoing_sequence, n)
      BY <1>0, <1>3, Numeric DEF InRing, Outdated
    <3> QED BY <1>0, <1>11, <3>1 DEF FramesInv, RequestsInv
  <2>4. CASE u.from = NoDelta
    <3>1. ParseFrame(n, Empty, u)
      BY <2>1, <2>4 DEF CL_ParsePacketEntities
    <3>2. ~Outdated(outgoing_sequence, n) => Matches(Merge(Empty, u), sv_entities[Slot(n)])
      BY <2>3, <2>4 DEF Leads
    <3> QED BY <1>9, <2>2, <3>1, <3>2, EmptyFrame
  <2>5. CASE /\ u.from # NoDelta
             /\ Outdated(outgoing_sequence, n) \/ Slot(u.from) # Slot(asked)
    <3>1. FlushEntityPacket(0)
      BY <2>1, <2>5 DEF CL_ParsePacketEntities
    <3> QED BY <1>8, <3>1
  <2>6. CASE /\ u.from # NoDelta
             /\ ~Outdated(outgoing_sequence, n) /\ Slot(u.from) = Slot(asked)
             /\ Outdated(outgoing_sequence, asked)
    <3>1. FlushEntityPacket(validsequence)
      BY <2>1, <2>6 DEF CL_ParsePacketEntities
    <3> QED BY <1>8, <3>1
  <2>7. CASE /\ u.from # NoDelta
             /\ ~Outdated(outgoing_sequence, n) /\ Slot(u.from) = Slot(asked)
             /\ ~Outdated(outgoing_sequence, asked)
    <3>1. ParseFrame(n, cl_entities[Slot(asked)], u)
      BY <2>1, <2>7 DEF CL_ParsePacketEntities
    <3>2. Usable(asked)
      BY <2>3, <2>7 DEF Asks, Usable
    <3>3. Matches(Merge(cl_entities[Slot(asked)], u), sv_entities[Slot(n)])
      BY <2>3, <2>7, <3>2 DEF Leads
    <3>4. cl_entities[Slot(asked)] \in Frames
      BY <1>0, <1>3, SlotRounds DEF TypeOK, ClientTypeOK
    <3> QED BY <1>9, <2>2, <3>1, <3>3, <3>4
  <2> QED BY <2>4, <2>5, <2>6, <2>7
<1> QED BY <1>10, <1>11

-----------------------------------------------------------------------------
(* Every step *)

(* Every step of the specification keeps the invariant.                    *)
LEMMA NextInv == DeltasInv /\ [Next]_vars => DeltasInv'
<1> SUFFICES ASSUME DeltasInv, [Next]_vars PROVE DeltasInv'
  OBVIOUS
<1>1. ASSUME NEW fire \in BOOLEAN, NEW nodelta \in BOOLEAN, NEW drop \in BOOLEAN,
             CL_SendCmd(fire, nodelta, drop)
      PROVE  DeltasInv'
  <2>1. TypeOK' /\ CopiesInv'
    BY <1>1, SendType DEF DeltasInv
  <2> QED BY <1>1, <2>1, SendInv DEF DeltasInv
<1>2. ASSUME NEW m \in commands, SV_ExecuteClientMessage(m) PROVE DeltasInv'
  BY <1>2, MessageInv
<1>3. ASSUME NEW visible \in Frames, NEW room \in Entities \cup {0}, NEW overflowed \in BOOLEAN,
             SV_SendClientDatagram(visible, room, overflowed)
      PROVE  DeltasInv'
  BY <1>3, DatagramInv
<1>4. CASE SV_ChokeClient
  BY <1>4, ChokeInv
<1>5. ASSUME NEW m \in replies, CL_ReadPacket(m) PROVE DeltasInv'
  BY <1>5, ReadInv
<1>6. CASE Lose
  BY <1>6, FewerInv DEF Lose
<1>7. CASE UNCHANGED vars
  BY <1>7, FewerInv DEF vars
<1> QED BY <1>1, <1>2, <1>3, <1>4, <1>5, <1>6, <1>7 DEF Next

(* The inductive invariant holds in every state.                           *)
THEOREM DeltasInvariant == Spec => []DeltasInv
<1> QED BY InitInv, NextInv, PTL DEF Spec

(* Every variable keeps its type, for any entities and any bounds.         *)
THEOREM TypeCorrect == Spec => []TypeOK
<1>1. DeltasInv => TypeOK
  BY DEF DeltasInv
<1> QED BY <1>1, DeltasInvariant, PTL

(* A delta that reaches the client in time starts from the frame the       *)
(* packet it answers has asked for, though the packet names that frame by  *)
(* its last byte only (SV_EmitPacketEntities, CL_ParsePacketEntities).     *)
THEOREM DeltasAnswerRequests == Spec => []DeltaInv
<1>1. DeltasInv => DeltaInv
  <2> SUFFICES ASSUME DeltasInv,
                      NEW m \in replies, m.update # NoUpdate, m.update.from # NoDelta,
                      ~Outdated(outgoing_sequence, m.seq)
               PROVE  Slot(m.update.from) = Slot(requested[Slot(m.seq)])
    BY DEF DeltaInv, AnswersWhatWasAsked, DeltasInv
  <2>0. TypeOK /\ RequestsInv
    BY DEF DeltasInv
  <2>1. InRing(outgoing_sequence, m.seq)
    BY <2>0, Numeric DEF InRing, Outdated
  <2>2. m.update.from = requested[Slot(m.seq)] % ByteRange
    BY <2>0, <2>1 DEF RequestsInv, Asks
  <2>3. requested[Slot(m.seq)] \in Int
    BY <2>0, Numeric
  <2> QED BY <2>2, <2>3, SlotOfByte
<1> QED BY <1>1, DeltasInvariant, PTL

(* Whatever packets are lost, left out or left unanswered, the frame the   *)
(* client shows is the one the server has under that number                *)
(* (SV_EmitPacketEntities, CL_ParsePacketEntities, CL_SendCmd).            *)
THEOREM FramesAgree == Spec => []SameFrame
<1>1. DeltasInv => SameFrame
  BY DEF DeltasInv, FramesInv
<1> QED BY <1>1, DeltasInvariant, PTL

-----------------------------------------------------------------------------
(* The commands *)

(* The command of packet k, which is none before the first packet.         *)
Command(k) == IF k >= 1 THEN k ELSE 0

(* The ring holds the last three commands, a packet its own and the two    *)
(* before it.                                                              *)
RepeatsInv ==
    /\ \A k \in outgoing_sequence - 3 .. outgoing_sequence - 1 : cmds[Slot(k)] = Command(k)
    /\ \A m \in commands : \A i \in 1 .. 3 : m.cmds[i] = Command(m.seq - 3 + i)

(* The command with the impulse leaves with its own packet and the second  *)
(* and the first after it, as cl_c2sImpulseBackup says, and the server     *)
(* passes over it only when it misses all three.                           *)
ImpulseInv ==
    IF impulse = 0 THEN copies = 0 /\ ~arrived
    ELSE /\ impulse < outgoing_sequence
         /\ ImpulseBackup >= 1 => copies >= 1
         /\ ImpulseBackup >= 2 /\ outgoing_sequence > impulse + 2 => copies >= 2
         /\ ImpulseBackup >= 3 /\ outgoing_sequence > impulse + 1 => copies >= 2
         /\ ImpulseBackup >= 3 /\ outgoing_sequence > impulse + 2 => copies >= 3
         /\ received >= impulse => arrived \/ received > impulse + 2

CommandsInv == RepeatsInv /\ ImpulseInv

(* A packet that is sent has the commands that are in the ring by then.    *)
LEMMA SendRepeats ==
    ASSUME DeltasInv, RepeatsInv, NEW fire \in BOOLEAN, NEW nodelta \in BOOLEAN,
           NEW drop \in BOOLEAN, CL_SendCmd(fire, nodelta, drop)
    PROVE  /\ RepeatsInv'
           /\ \A k \in outgoing_sequence - 2 .. outgoing_sequence : cmds'[Slot(k)] = Command(k)
<1> DEFINE n == outgoing_sequence
<1>0. TypeOK
  BY DEF DeltasInv
<1>1. n \in Int /\ n >= 1 /\ UPDATE_BACKUP \in Int /\ UPDATE_BACKUP >= 4 /\ Slot(n) \in Slots
  BY <1>0, Numeric
<1>2. cmds' = [cmds EXCEPT ![Slot(n)] = n] /\ outgoing_sequence' = n + 1
  BY DEF CL_SendCmd
<1>3. cmds \in [Slots -> Numbers]
  BY <1>0 DEF TypeOK, ClientTypeOK
<1>4. ASSUME NEW k \in n - 2 .. n PROVE cmds'[Slot(k)] = Command(k)
  <2>0. k \in Int /\ k <= n /\ n - k < UPDATE_BACKUP
    BY <1>1
  <2>1. CASE k = n
    BY <1>1, <1>2, <1>3, <2>1 DEF Command
  <2>2. CASE k # n
    <3>1. Slot(n) # Slot(k)
      BY <1>1, <2>0, <2>2, SlotsDiffer
    <3>2. cmds'[Slot(k)] = cmds[Slot(k)]
      BY <1>2, <1>3, <3>1
    <3>3. k \in n - 3 .. n - 1
      BY <1>1, <2>0, <2>2
    <3> QED BY <3>2, <3>3 DEF RepeatsInv
  <2> QED BY <2>1, <2>2
<1>5. \A k \in outgoing_sequence' - 3 .. outgoing_sequence' - 1 : cmds'[Slot(k)] = Command(k)
  <2>1. outgoing_sequence' - 3 = n - 2 /\ outgoing_sequence' - 1 = n
    BY <1>1, <1>2
  <2> QED BY <1>4, <2>1
<1>6. ASSUME NEW m \in commands', NEW i \in 1 .. 3 PROVE m.cmds[i] = Command(m.seq - 3 + i)
  <2>1. CASE m \in commands
    BY <2>1 DEF RepeatsInv
  <2>2. CASE m \notin commands
    <3>1. m.seq = n /\ m.cmds = [j \in 1 .. 3 |-> cmds'[Slot(n - 3 + j)]]
      BY <2>2 DEF CL_SendCmd
    <3>2. n - 3 + i \in n - 2 .. n
      BY <1>1
    <3> QED BY <1>4, <3>1, <3>2
  <2> QED BY <2>1, <2>2
<1> QED BY <1>4, <1>5, <1>6 DEF RepeatsInv

(* Thinning out the packets leaves enough of those with the impulse.       *)
LEMMA SendImpulse ==
    ASSUME DeltasInv, RepeatsInv, ImpulseInv, NEW fire \in BOOLEAN, NEW nodelta \in BOOLEAN,
           NEW drop \in BOOLEAN, CL_SendCmd(fire, nodelta, drop)
    PROVE  ImpulseInv'
<1> DEFINE n == outgoing_sequence
<1>0. TypeOK /\ NumbersInv
  BY DEF DeltasInv
<1>1. /\ n \in Int /\ n >= 1 /\ received \in Int /\ received >= 0 /\ received < n
      /\ impulse \in Nat /\ copies \in Nat /\ ImpulseBackup \in Nat /\ 0 \in Nat
  <2>1. impulse \in Nat /\ copies \in Nat
    BY <1>0, DeltaFramesAssumption DEF TypeOK, ClientTypeOK, Numbers
  <2> QED BY <1>0, <2>1, Numeric, DeltaFramesAssumption DEF NumbersInv
<1>2. /\ impulse' = (IF fire THEN n ELSE impulse)
      /\ fire => impulse = 0
      /\ outgoing_sequence' = n + 1 /\ received' = received /\ arrived' = arrived
      /\ ~drop => copies' = (IF impulse' # 0 /\ impulse' >= n - 2 THEN copies + 1 ELSE copies)
      /\ drop => copies' = copies /\ \A s \in Guarded(n) : cmds'[s] = 0 \/ cmds'[s] # impulse'
  BY DEF CL_SendCmd, server, executed
<1>3. ASSUME drop, NEW k \in n - 2 .. n, Slot(k) \in Guarded(n), impulse' # 0 PROVE impulse' # k
  <2>1. cmds'[Slot(k)] = Command(k)
    BY SendRepeats
  <2>2. cmds'[Slot(k)] = 0 \/ cmds'[Slot(k)] # impulse'
    BY <1>2, <1>3
  <2>3. impulse' \in Int /\ impulse' >= 0 /\ k \in Int
    BY <1>1, <1>2
  <2>4. SUFFICES ASSUME impulse' = k PROVE FALSE
    OBVIOUS
  <2>5. k >= 1
    BY <1>3, <2>3, <2>4
  <2>6. cmds'[Slot(k)] = k
    BY <2>1, <2>5 DEF Command
  <2> QED BY <2>2, <2>3, <2>4, <2>5, <2>6
<1>4. ASSUME drop, impulse' # 0
      PROVE  /\ ImpulseBackup >= 1 => impulse' # n
             /\ ImpulseBackup >= 2 => impulse' # n - 2
             /\ ImpulseBackup >= 3 => impulse' # n - 1
  BY <1>1, <1>3, <1>4 DEF Guarded
<1>5. CASE impulse' = 0
  <2>1. impulse = 0 /\ copies' = copies /\ arrived' = arrived
    <3>1. ~fire
      BY <1>1, <1>2, <1>5
    <3> QED BY <1>2, <1>5, <3>1
  <2> QED BY <1>5, <2>1 DEF ImpulseInv
<1>6. CASE impulse' # 0 /\ fire
  <2>1. ~drop => copies' = copies + 1
    BY <1>1, <1>2, <1>6
  <2>2. impulse' = n /\ outgoing_sequence' = n + 1 /\ received' < n /\ received' \in Int
    BY <1>1, <1>2, <1>6
  <2>3. copies = 0
    BY <1>2, <1>6 DEF ImpulseInv
  <2>4. ImpulseBackup >= 1 => copies' >= 1
    BY <1>4, <1>6, <2>1, <2>2, <2>3
  <2> QED BY <1>1, <1>6, <2>2, <2>4 DEF ImpulseInv
<1>7. CASE impulse' # 0 /\ ~fire
  <2>1. impulse' = impulse /\ impulse # 0
    BY <1>2, <1>7
  <2>2. /\ impulse < n
        /\ ImpulseBackup >= 1 => copies >= 1
        /\ ImpulseBackup >= 2 /\ n > impulse + 2 => copies >= 2
        /\ ImpulseBackup >= 3 /\ n > impulse + 1 => copies >= 2
        /\ ImpulseBackup >= 3 /\ n > impulse + 2 => copies >= 3
        /\ received >= impulse => arrived \/ received > impulse + 2
    BY <2>1 DEF ImpulseInv
  <2>3. CASE drop
    <3>1. copies' = copies /\ outgoing_sequence' = n + 1 /\ received' = received /\ arrived' = arrived
      BY <1>2, <2>3
    <3>2. /\ ImpulseBackup >= 2 => impulse # n - 2
          /\ ImpulseBackup >= 3 => impulse # n - 1
      BY <1>4, <1>7, <2>1, <2>3
    <3>3. /\ ImpulseBackup >= 2 /\ n + 1 > impulse + 2 => copies >= 2
          /\ ImpulseBackup >= 3 /\ n + 1 > impulse + 1 => copies >= 2
          /\ ImpulseBackup >= 3 /\ n + 1 > impulse + 2 => copies >= 3
          /\ impulse < n + 1
      BY <1>1, <2>2, <3>2
    <3> HIDE DEF n
    <3> QED BY <2>1, <2>2, <3>1, <3>3 DEF ImpulseInv
  <2>4. CASE ~drop
    <3>1. /\ copies' = (IF impulse >= n - 2 THEN copies + 1 ELSE copies)
          /\ outgoing_sequence' = n + 1 /\ received' = received /\ arrived' = arrived
      BY <1>2, <2>1, <2>4
    <3>2. /\ ImpulseBackup >= 1 => copies' >= 1
          /\ ImpulseBackup >= 2 /\ n + 1 > impulse + 2 => copies' >= 2
          /\ ImpulseBackup >= 3 /\ n + 1 > impulse + 1 => copies' >= 2
          /\ ImpulseBackup >= 3 /\ n + 1 > impulse + 2 => copies' >= 3
          /\ impulse < n + 1
      BY <1>1, <2>2, <3>1
    <3> HIDE DEF n
    <3> QED BY <2>1, <2>2, <3>1, <3>2 DEF ImpulseInv
  <2> QED BY <2>3, <2>4
<1> QED BY <1>5, <1>6, <1>7

(* Numbers up, the commands that a packet makes the server execute: its    *)
(* own and as many before it as are missing, but two at most.              *)
LEMMA OwnCommands ==
    ASSUME DeltasInv, RepeatsInv, NEW m \in commands
    PROVE  /\ Missing(m) \in Nat /\ m.seq = received + 1 + Missing(m)
           /\ LET own == SV_ExecuteClientMove(m, Missing(m)).own
                  c == IF Missing(m) > 1 THEN 3 ELSE Missing(m) + 1
              IN  /\ own \in Seq(Nat) /\ Len(own) = c
                  /\ \A i \in 1 .. c : own[i] = m.seq - c + i
<1>0. TypeOK /\ NumbersInv
  BY DEF DeltasInv
<1>1. /\ m.seq \in Nat /\ received \in Nat /\ received < m.seq
      /\ m.cmds \in [1 .. 3 -> Numbers] /\ Numbers \subseteq Nat
  <2>1. m \in CommandPackets /\ MaxSeq \in Nat
    BY <1>0, DeltaFramesAssumption DEF TypeOK, PacketsTypeOK
  <2>2. m.cmds \in [1 .. 3 -> Numbers] /\ m.seq \in 1 .. MaxSeq /\ received \in 0 .. MaxSeq
    BY <1>0, <2>1 DEF CommandPackets, TypeOK, ServerTypeOK, Numbers
  <2>3. received < m.seq
    BY <1>0 DEF NumbersInv
  <2> QED BY <2>1, <2>2, <2>3 DEF Numbers
<1>2. Missing(m) \in Nat /\ m.seq = received + 1 + Missing(m)
  BY <1>1 DEF Missing
<1> DEFINE x == Missing(m)
           a == IF x > 1 THEN 1 ELSE IF x > 0 THEN 2 ELSE 3
           c == IF x > 1 THEN 3 ELSE x + 1
           own == SubSeq(m.cmds, a, 3)
<1>3. a \in 1 .. 3 /\ c \in 1 .. 3 /\ a = 4 - c
  BY <1>2
<1>4. c <= m.seq
  BY <1>1, <1>2
<1> HIDE DEF x, a, c
<1>5. own \in Seq(Nat) /\ Len(own) = c /\ \A i \in 1 .. c : own[i] = m.cmds[a + i - 1]
  <2>1. a \in Int /\ 3 \in Int /\ \A i \in a .. 3 : m.cmds[i] \in Nat
    <3>1. a \in Int /\ \A i \in a .. 3 : i \in 1 .. 3
      BY <1>3
    <3>2. \A i \in 1 .. 3 : m.cmds[i] \in Nat
      BY <1>1
    <3> QED BY <3>1, <3>2
  <2>2. /\ own \in Seq(Nat) /\ Len(own) = (IF a <= 3 THEN 3 - a + 1 ELSE 0)
        /\ \A i \in 1 .. 3 - a + 1 : own[i] = m.cmds[a + i - 1]
    BY <2>1, SubSeqProperties
  <2>3. 3 - a + 1 = c /\ a <= 3
    BY <1>3
  <2> QED BY <2>2, <2>3
<1>6. ASSUME NEW i \in 1 .. c PROVE own[i] = m.seq - c + i
  <2>1. a + i - 1 \in 1 .. 3 /\ m.seq - 3 + (a + i - 1) = m.seq - c + i
    BY <1>1, <1>3
  <2>2. m.cmds[a + i - 1] = Command(m.seq - 3 + (a + i - 1))
    BY <2>1 DEF RepeatsInv
  <2>3. m.seq - c + i >= 1
    BY <1>1, <1>3, <1>4
  <2> QED BY <1>5, <2>1, <2>2, <2>3 DEF Command
<1>7. SV_ExecuteClientMove(m, x).own = own
  BY DEF SV_ExecuteClientMove, a
<1> QED BY <1>2, <1>5, <1>6, <1>7 DEF x, c

(* A packet that is read late enough to miss the impulse misses all three  *)
(* packets that could carry it.                                            *)
LEMMA MessageImpulse ==
    ASSUME DeltasInv, RepeatsInv, ImpulseInv, NEW m \in commands, SV_ExecuteClientMessage(m)
    PROVE  ImpulseInv'
<1> DEFINE own == SV_ExecuteClientMove(m, Missing(m)).own
           c == IF Missing(m) > 1 THEN 3 ELSE Missing(m) + 1
<1>1. /\ received' = m.seq /\ UNCHANGED <<impulse, copies, outgoing_sequence>>
      /\ arrived' = (arrived \/ \E k \in ToSet(own) : k = impulse /\ k # 0)
  BY DEF SV_ExecuteClientMessage, client, asks
<1>2. /\ Missing(m) \in Nat /\ m.seq = received + 1 + Missing(m)
      /\ own \in Seq(Nat) /\ Len(own) = c /\ \A i \in 1 .. c : own[i] = m.seq - c + i
  BY OwnCommands
<1>3. /\ received \in Int /\ received >= 0 /\ impulse \in Int /\ impulse >= 0
      /\ outgoing_sequence \in Int /\ arrived \in BOOLEAN
  BY Numeric, DeltaFramesAssumption DEF DeltasInv, TypeOK, ClientTypeOK, Numbers
<1>4. ToSet(own) = {own[i] : i \in 1 .. Len(own)}
  BY <1>2 DEF ToSet
<1>5. CASE impulse = 0
  BY <1>1, <1>3, <1>5 DEF ImpulseInv
<1>6. CASE impulse # 0
  <2>1. ASSUME m.seq >= impulse, ~arrived' PROVE m.seq > impulse + 2
    <3>1. ~arrived /\ impulse \notin ToSet(own)
      BY <1>1, <1>3, <1>6, <2>1
    <3>2. received >= impulse => received > impulse + 2
      BY <1>6, <3>1 DEF ImpulseInv
    <3>3. SUFFICES ASSUME m.seq <= impulse + 2 PROVE FALSE
      BY <1>2, <1>3
    <3> DEFINE j == impulse - m.seq + c
    <3>4. c \in 1 .. 3 /\ (c = 3 \/ m.seq = received + c)
      <4>1. c = 3 \/ (c = Missing(m) + 1 /\ c <= 2)
        BY <1>2
      <4> HIDE DEF c
      <4> QED BY <1>2, <1>3, <4>1
    <3>5. m.seq \in Int /\ received < impulse
      BY <1>2, <1>3, <3>2, <3>3
    <3> HIDE DEF c
    <3>6. j \in 1 .. c /\ m.seq - c + j = impulse
      BY <1>3, <2>1, <3>3, <3>4, <3>5
    <3> HIDE DEF j
    <3>7. own[j] = impulse
      BY <1>2, <3>6
    <3> QED BY <1>2, <1>4, <3>1, <3>6, <3>7
  <2> QED BY <1>1, <1>3, <1>6, <2>1 DEF ImpulseInv
<1> QED BY <1>5, <1>6

(* The commands are as they were, but that packets may be gone.            *)
LEMMA CommandsKept ==
    ASSUME CommandsInv, commands' \in SUBSET commands,
           UNCHANGED <<outgoing_sequence, cmds, impulse, copies, arrived, received>>
    PROVE  CommandsInv'
BY DEF CommandsInv, RepeatsInv, ImpulseInv

(* Every step of the specification keeps the invariant of the commands.    *)
LEMMA NextCommands == DeltasInv /\ CommandsInv /\ [Next]_vars => CommandsInv'
<1> SUFFICES ASSUME DeltasInv, CommandsInv, [Next]_vars PROVE CommandsInv'
  OBVIOUS
<1>0. RepeatsInv /\ ImpulseInv
  BY DEF CommandsInv
<1>1. ASSUME NEW fire \in BOOLEAN, NEW nodelta \in BOOLEAN, NEW drop \in BOOLEAN,
             CL_SendCmd(fire, nodelta, drop)
      PROVE  CommandsInv'
  <2>1. RepeatsInv'
    BY <1>0, <1>1, SendRepeats
  <2>2. ImpulseInv'
    BY <1>0, <1>1, SendImpulse
  <2> QED BY <2>1, <2>2 DEF CommandsInv
<1>2. ASSUME NEW m \in commands, SV_ExecuteClientMessage(m) PROVE CommandsInv'
  <2>1. ImpulseInv'
    BY <1>0, <1>2, MessageImpulse
  <2>2. RepeatsInv'
    BY <1>0, <1>2 DEF SV_ExecuteClientMessage, client, asks, RepeatsInv
  <2> QED BY <2>1, <2>2 DEF CommandsInv
<1>3. ASSUME NEW visible \in Frames, NEW room \in Entities \cup {0}, NEW overflowed \in BOOLEAN,
             SV_SendClientDatagram(visible, room, overflowed)
      PROVE  CommandsInv'
  BY <1>3, CommandsKept DEF SV_SendClientDatagram, client, asks, executed
<1>4. CASE SV_ChokeClient
  BY <1>4, CommandsKept DEF SV_ChokeClient, client, asks, executed
<1>5. ASSUME NEW m \in replies, CL_ReadPacket(m) PROVE CommandsInv'
  BY <1>5, CommandsKept DEF CL_ReadPacket, asks, server, executed
<1>6. CASE Lose
  BY <1>6, CommandsKept DEF Lose, client, asks, server, executed
<1>7. CASE UNCHANGED vars
  BY <1>7, CommandsKept DEF vars, client, asks, server, executed
<1> QED BY <1>1, <1>2, <1>3, <1>4, <1>5, <1>6, <1>7 DEF Next

(* The invariants of the frames and of the commands hold in every state.   *)
THEOREM CommandsInvariant == Spec => [](DeltasInv /\ CommandsInv)
<1>1. Init => CommandsInv
  <2> SUFFICES ASSUME Init PROVE CommandsInv
    OBVIOUS
  <2>1. \A k \in -2 .. 0 : Slot(k) \in Slots /\ Command(k) = 0
    BY SlotRounds DEF Slots, Command
  <2>2. RepeatsInv
    BY <2>1 DEF Init, RepeatsInv
  <2> QED BY <2>2 DEF Init, CommandsInv, ImpulseInv
<1> QED BY <1>1, NextCommands, DeltasInvariant, PTL DEF Spec

(* An impulse that the server passes over was lost with each of the        *)
(* packets that cl_c2sImpulseBackup keeps from being left out (CL_SendCmd, *)
(* SV_ExecuteClientMessage).                                               *)
THEOREM ImpulsesArrive == Spec => []ImpulseArrives
<1>1. DeltasInv /\ CommandsInv => ImpulseArrives
  <2> SUFFICES ASSUME DeltasInv, CommandsInv, impulse # 0, received >= impulse, ~arrived
               PROVE  copies >= (IF ImpulseBackup <= 3 THEN ImpulseBackup ELSE 3)
    BY DEF ImpulseArrives
  <2>1. /\ impulse \in Int /\ copies \in Nat /\ ImpulseBackup \in Nat
        /\ outgoing_sequence \in Int /\ received \in Int /\ received < outgoing_sequence
    BY Numeric, DeltaFramesAssumption DEF DeltasInv, NumbersInv, TypeOK, ClientTypeOK, Numbers
  <2>2. /\ ImpulseBackup >= 1 => copies >= 1
        /\ ImpulseBackup >= 2 /\ outgoing_sequence > impulse + 2 => copies >= 2
        /\ ImpulseBackup >= 3 /\ outgoing_sequence > impulse + 2 => copies >= 3
        /\ received > impulse + 2
    BY DEF CommandsInv, ImpulseInv
  <2> QED BY <2>1, <2>2
<1> QED BY <1>1, CommandsInvariant, PTL

(* A packet makes the server execute exactly the commands it has missed,   *)
(* in turn, its own last; the last one before makes up for those that no   *)
(* packet repeats (SV_ExecuteClientMove).                                  *)
LEMMA ExecuteOnce ==
    ASSUME DeltasInv, RepeatsInv, NEW m \in commands
    PROVE  LET moves == SV_ExecuteClientMove(m, Missing(m))
               own == moves.own
           IN  /\ own[Len(own)] = m.seq
               /\ \A i \in DOMAIN own : own[i] > received
               /\ \A i, j \in DOMAIN own : i < j => own[i] < own[j]
               /\ Missing(m) < MaxExtrapolated => moves.again + Len(own) = Missing(m) + 1
               /\ Missing(m) <= 2 => moves.again = 0
<1> DEFINE x == Missing(m)
           own == SV_ExecuteClientMove(m, x).own
           again == SV_ExecuteClientMove(m, x).again
           c == IF x > 1 THEN 3 ELSE x + 1
<1>1. /\ x \in Nat /\ m.seq = received + 1 + x
      /\ own \in Seq(Nat) /\ Len(own) = c /\ \A i \in 1 .. c : own[i] = m.seq - c + i
  BY OwnCommands
<1>2. received \in Int /\ m.seq \in Int /\ MaxExtrapolated \in Int
  BY Numeric, DeltaFramesAssumption DEF DeltasInv
<1>3. again = (IF x < MaxExtrapolated /\ x > 2 THEN x - 2 ELSE 0)
  BY DEF SV_ExecuteClientMove
<1>4. DOMAIN own = 1 .. c
  BY <1>1
<1> HIDE DEF own, again, x
<1>5. c \in 1 .. 3 /\ c <= x + 1 /\ (x > 1 => c = 3) /\ (x <= 1 => c = x + 1)
  BY <1>1
<1> HIDE DEF c
<1>6. own[c] = m.seq /\ \A i \in 1 .. c : own[i] > received
  BY <1>1, <1>2, <1>5
<1>7. \A i, j \in 1 .. c : i < j => own[i] < own[j]
  BY <1>1, <1>2, <1>5
<1>8. (x < MaxExtrapolated => again + c = x + 1) /\ (x <= 2 => again = 0)
  BY <1>1, <1>2, <1>3, <1>5
<1> QED BY <1>1, <1>4, <1>6, <1>7, <1>8 DEF own, again, x

(* ... in every step that reads one.                                       *)
THEOREM CommandsExecutedOnce == Spec => CommandsOnce
<1>1. DeltasInv /\ CommandsInv =>
         [\A m \in commands : received' = m.seq =>
            LET moves == SV_ExecuteClientMove(m, Missing(m))
                own == moves.own
            IN  /\ own[Len(own)] = m.seq
                /\ \A i \in DOMAIN own : own[i] > received
                /\ \A i, j \in DOMAIN own : i < j => own[i] < own[j]
                /\ Missing(m) < MaxExtrapolated => moves.again + Len(own) = Missing(m) + 1
                /\ Missing(m) <= 2 => moves.again = 0]_received
  BY ExecuteOnce DEF CommandsInv
<1> QED BY <1>1, CommandsInvariant, PTL DEF CommandsOnce
=============================================================================
