------------------------ MODULE DelayedPacketsProofs ------------------------
(***************************************************************************)
(* Theorems about DelayedPackets for any number of slots and of blocks:    *)
(* the types, that the lists stay apart, that packets are executed in the  *)
(* order of arrival, that blocks are lost only with a slot, and that the   *)
(* lists are the queues of DelayQueues (sv_main.c, SV_ReadPackets).        *)
(***************************************************************************)
EXTENDS DelayedPackets, TLAPS, FiniteSetTheorems, SequenceTheorems, WellFoundedInduction

-----------------------------------------------------------------------------
(* Chains of blocks *)

(* The bounds are numbers.                                                 *)
LEMMA Sizes == MAX_CLIENTS \in Nat \ {0} /\ MAX_DELAYED_PACKETS \in Nat \ {0}
               /\ MaxDelay \in Nat /\ MaxArrivals \in Nat /\ MaxSocket \in Nat
BY DelayedPacketsAssumption

(* Only the empty sequence has the length 0.                               *)
LEMMA NoLength ==
    ASSUME NEW S, NEW q \in Seq(S)
    PROVE  q = <<>> <=> Len(q) = 0
BY EmptySeq

(* A function on the first numbers is a sequence.                          *)
LEMMA AsSequence ==
    ASSUME NEW S, NEW n \in Nat, NEW f \in [1 .. n -> S]
    PROVE  f \in Seq(S) /\ Len(f) = n
OBVIOUS

(* A chain is a sequence of different blocks.                              *)
LEMMA ChainFacts ==
    ASSUME NEW q \in Chains
    PROVE  /\ q \in Seq(Blocks) /\ Len(q) \in 0 .. MAX_DELAYED_PACKETS
           /\ DOMAIN q = 1 .. Len(q) /\ Injective(q)
           /\ \A i \in DOMAIN q : q[i] \in Blocks /\ q[i] # NULL
<1>1. PICK n \in 0 .. MAX_DELAYED_PACKETS : q \in [1 .. n -> Blocks]
  BY DEF Chains
<1>2. q \in Seq(Blocks) /\ Len(q) = n /\ DOMAIN q = 1 .. n /\ n \in Nat
  BY <1>1, Sizes
<1>3. Injective(q)
  BY DEF Chains
<1>4. \A i \in DOMAIN q : q[i] \in Blocks /\ q[i] # NULL
  BY <1>1, Sizes DEF Blocks, NULL
<1> QED BY <1>1, <1>2, <1>3, <1>4

(* The converse: there are not more different blocks than there are.       *)
LEMMA ChainMade ==
    ASSUME NEW q \in Seq(Blocks), Injective(q)
    PROVE  q \in Chains
<1>1. DOMAIN q = 1 .. Len(q) /\ Len(q) \in Nat /\ q \in [1 .. Len(q) -> Blocks]
  OBVIOUS
<1>2. q \in Injection(1 .. Len(q), Blocks)
  BY <1>1 DEF Injective, Injection, IsInjective
<1>3. IsFiniteSet(Blocks) /\ Cardinality(Blocks) = MAX_DELAYED_PACKETS
  BY Sizes, FS_Interval DEF Blocks
<1>4. Cardinality(1 .. Len(q)) <= MAX_DELAYED_PACKETS
  BY <1>2, <1>3, FS_Injection
<1>5. Cardinality(1 .. Len(q)) = Len(q)
  BY <1>1, FS_Interval
<1>6. Len(q) \in 0 .. MAX_DELAYED_PACKETS
  BY <1>1, <1>4, <1>5, Sizes
<1> QED BY <1>1, <1>6 DEF Chains

(* What holds of 1 and of each successor holds up to n.                    *)
LEMMA UpTo ==
    ASSUME NEW n \in Nat, NEW S, 1 \in S, \A k \in 1 .. n : k # n /\ k \in S => k + 1 \in S
    PROVE  \A k \in 1 .. n : k \in S
<1> DEFINE T == {k \in 1 .. n : k \notin S}
<1>1. SUFFICES ASSUME T # {} PROVE FALSE
  OBVIOUS
<1>2. T \subseteq Nat
  OBVIOUS
<1>3. PICK k \in T : \A i \in T : ~(<<i, k>> \in OpToRel(<, Nat))
  <2> HIDE DEF T
  <2> QED BY <1>1, <1>2, NatLessThanWellFounded, WFMin
<1>4. k # 1 /\ k \in 1 .. n
  OBVIOUS
<1>5. k - 1 \in 1 .. n /\ k - 1 # n /\ (k - 1) + 1 = k /\ k - 1 \in Nat /\ k \in Nat /\ k - 1 < k
  BY <1>4
<1>6. k - 1 \in S
  <2>1. SUFFICES ASSUME k - 1 \notin S PROVE FALSE
    OBVIOUS
  <2>2. k - 1 \in T
    BY <1>5, <2>1
  <2>3. <<k - 1, k>> \in OpToRel(<, Nat)
    BY <1>5 DEF OpToRel
  <2> QED BY <1>3, <2>2, <2>3
<1> QED BY <1>5, <1>6

(* Of two chains from one pointer along the same links, the first is not   *)
(* longer, and the second begins with it.                                  *)
LEMMA OneWay ==
    ASSUME NEW nx, NEW p, NEW q \in Chains, NEW r \in Chains, Linked(nx, p, q), Linked(nx, p, r)
    PROVE  Len(q) <= Len(r) /\ \A i \in 1 .. Len(q) : q[i] = r[i]
<1>1. CASE q = <<>>
  BY <1>1, ChainFacts, Sizes
<1>2. CASE q # <<>>
  <2> DEFINE S == {i \in 1 .. Len(q) : i <= Len(r) /\ q[i] = r[i]}
  <2>1. PICK m \in Nat, n \in Nat : m = Len(q) /\ n = Len(r)
    BY ChainFacts, Sizes
  <2>2. DOMAIN q = 1 .. m /\ DOMAIN r = 1 .. n /\ m # 0
    BY <1>2, <2>1, ChainFacts
  <2>3. p = q[1] /\ p # NULL
    BY <1>2, <2>2, ChainFacts DEF Linked
  <2>4. r # <<>> /\ p = r[1]
    BY <2>3 DEF Linked
  <2>5. n # 0
    <3>1. r \in Seq(Blocks)
      BY ChainFacts
    <3> QED BY <2>1, <2>4, <3>1, NoLength
  <2>6. 1 \in S
    <3>1. 1 \in 1 .. m /\ 1 <= n
      BY <2>1, <2>2, <2>5
    <3> QED BY <2>1, <2>3, <2>4, <3>1
  <2>7. ASSUME NEW k \in 1 .. m, k # m, k \in S PROVE k + 1 \in S
    <3>1. k \in DOMAIN q /\ k \in DOMAIN r /\ q[k] = r[k] /\ k + 1 \in 1 .. m
      BY <2>1, <2>2, <2>7
    <3>2. nx[q[k]] = q[k + 1] /\ q[k + 1] # NULL
      BY <1>2, <2>1, <2>2, <2>7, <3>1, ChainFacts DEF Linked
    <3>3. nx[r[k]] = IF k = n THEN NULL ELSE r[k + 1]
      BY <2>1, <2>4, <3>1 DEF Linked
    <3>4. k # n /\ r[k + 1] = q[k + 1]
      BY <3>1, <3>2, <3>3
    <3> QED BY <2>1, <2>2, <3>1, <3>4
  <2>8. \A k \in 1 .. m : k \in S
    <3> HIDE DEF S
    <3> QED BY <2>6, <2>7, UpTo
  <2> QED BY <2>1, <2>2, <2>8
<1> QED BY <1>1, <1>2

(* So a pointer starts one list, and List is it.                           *)
LEMMA ListIs ==
    ASSUME NEW nx, NEW p, NEW q \in Chains, Linked(nx, p, q)
    PROVE  List(nx, p) = q
<1>1. ASSUME NEW r \in Chains, Linked(nx, p, r) PROVE r = q
  <2>1. Len(q) = Len(r) /\ \A i \in 1 .. Len(q) : q[i] = r[i]
    BY <1>1, OneWay, ChainFacts, Sizes
  <2>2. q \in [1 .. Len(q) -> Blocks] /\ r \in [1 .. Len(r) -> Blocks]
    BY ChainFacts
  <2> QED BY <2>1, <2>2
<1> QED BY <1>1 DEF List

(* The empty list.                                                         *)
LEMMA NoBlocks ==
    /\ <<>> \in Chains /\ Elements(<<>>) = {} /\ Len(<<>>) = 0
    /\ \A nx : Linked(nx, NULL, <<>>)
<1>1. <<>> \in Chains
  <2>1. <<>> \in Seq(Blocks) /\ Injective(<<>>)
    BY DEF Injective
  <2> QED BY <2>1, ChainMade
<1>2. Elements(<<>>) = {}
  BY DEF Elements
<1>3. \A nx : Linked(nx, NULL, <<>>)
  BY DEF Linked
<1> QED BY <1>1, <1>2, <1>3

(* The list of a pointer that is not null starts with its block.           *)
LEMMA Starts ==
    ASSUME NEW nx, NEW p, NEW q \in Chains, Linked(nx, p, q), p # NULL
    PROVE  /\ q # <<>> /\ Len(q) \in 1 .. MAX_DELAYED_PACKETS
           /\ p = q[1] /\ p \in Blocks /\ p \in Elements(q)
<1>1. q # <<>> /\ p = q[1]
  BY DEF Linked
<1>2. Len(q) # 0
  <2>1. q \in Seq(Blocks)
    BY ChainFacts
  <2> QED BY <1>1, <2>1, NoLength
<1>3. Len(q) \in 1 .. MAX_DELAYED_PACKETS /\ 1 \in DOMAIN q
  BY <1>2, ChainFacts, Sizes
<1> QED BY <1>1, <1>3, ChainFacts DEF Elements

(* A list depends on the links of its blocks only.                         *)
LEMMA SameLinks ==
    ASSUME NEW nx, NEW mx, NEW p, NEW q \in Chains, Linked(nx, p, q),
           \A b \in Elements(q) : mx[b] = nx[b]
    PROVE  Linked(mx, p, q)
BY DEF Linked, Elements

(* Without its head.                                                       *)
LEMMA TailFacts ==
    ASSUME NEW nx, NEW p, NEW q \in Chains, Linked(nx, p, q), p # NULL
    PROVE  /\ Tail(q) \in Chains /\ Linked(nx, nx[p], Tail(q))
           /\ Elements(q) = Elements(Tail(q)) \cup {p} /\ p \notin Elements(Tail(q))
           /\ Len(Tail(q)) = Len(q) - 1
           /\ \A i \in DOMAIN Tail(q) : i \in Nat /\ i + 1 \in DOMAIN q /\ Tail(q)[i] = q[i + 1]
<1>1. PICK n \in Nat : n = Len(q) /\ n # 0 /\ q # <<>> /\ p = q[1]
  BY Starts, Sizes
<1>2. q \in Seq(Blocks) /\ DOMAIN q = 1 .. n /\ Injective(q)
  BY <1>1, ChainFacts
<1>3. /\ Tail(q) \in Seq(Blocks) /\ Len(Tail(q)) = n - 1 /\ DOMAIN Tail(q) = 1 .. (n - 1)
      /\ \A i \in 1 .. (n - 1) : Tail(q)[i] = q[i + 1]
  BY <1>1, <1>2
<1>4. Tail(q) \in Chains
  <2>1. ASSUME NEW i \in 1 .. (n - 1), NEW j \in 1 .. (n - 1), i # j
        PROVE  q[i + 1] # q[j + 1]
    BY <1>2, <2>1 DEF Injective
  <2>2. Injective(Tail(q))
    BY <1>3, <2>1 DEF Injective
  <2> QED BY <1>3, <2>2, ChainMade
<1>5. Elements(q) = Elements(Tail(q)) \cup {p}
  <2>2. 1 \in 1 .. n /\ \A i \in 1 .. (n - 1) : i + 1 \in 1 .. n
    BY <1>1
  <2>3. Elements(Tail(q)) = {q[i + 1] : i \in 1 .. (n - 1)}
    BY <1>3 DEF Elements
  <2>4. Elements(q) = {q[i] : i \in 1 .. n}
    BY <1>2 DEF Elements
  <2>5. ASSUME NEW i \in 1 .. n PROVE q[i] \in Elements(Tail(q)) \cup {p}
    <3>1. i # 1 => i - 1 \in 1 .. (n - 1) /\ (i - 1) + 1 = i
      OBVIOUS
    <3> QED BY <1>1, <2>3, <3>1
  <2> QED BY <1>1, <2>2, <2>3, <2>4, <2>5
<1>6. p \notin Elements(Tail(q))
  <2>1. ASSUME NEW i \in 1 .. (n - 1) PROVE q[i + 1] # q[1]
    BY <1>2 DEF Injective
  <2> QED BY <1>1, <1>3, <2>1 DEF Elements
<1>7. Linked(nx, nx[p], Tail(q))
  <2>1. nx[p] = IF n = 1 THEN NULL ELSE q[2]
    BY <1>1, <1>2 DEF Linked
  <2>2. CASE n = 1
    <3>1. Tail(q) = <<>>
      BY <1>3, <2>2
    <3> QED BY <2>1, <2>2, <3>1 DEF Linked
  <2>3. CASE n # 1
    <3>1. Tail(q) # <<>> /\ Tail(q)[1] = nx[p]
      BY <1>1, <1>3, <2>1, <2>3
    <3>2. ASSUME NEW i \in 1 .. (n - 1)
          PROVE  nx[Tail(q)[i]] = IF i = n - 1 THEN NULL ELSE Tail(q)[i + 1]
      <4>1. i + 1 \in 1 .. n /\ (i # n - 1 => i + 1 \in 1 .. (n - 1) /\ i + 1 # n)
        BY <1>1
      <4>2. nx[q[i + 1]] = IF i + 1 = n THEN NULL ELSE q[(i + 1) + 1]
        BY <1>1, <1>2, <4>1 DEF Linked
      <4> QED BY <1>1, <1>3, <4>1, <4>2
    <3> QED BY <1>3, <3>1, <3>2 DEF Linked
  <2> QED BY <2>2, <2>3
<1> QED BY <1>1, <1>2, <1>3, <1>4, <1>5, <1>6, <1>7

(* With a new head.                                                        *)
LEMMA HeadFacts ==
    ASSUME NEW nx, NEW p, NEW q \in Chains, Linked(nx, p, q),
           NEW b \in Blocks, b \notin Elements(q), nx[b] = p
    PROVE  /\ <<b>> \o q \in Chains /\ Linked(nx, b, <<b>> \o q)
           /\ Elements(<<b>> \o q) = Elements(q) \cup {b}
           /\ Len(<<b>> \o q) = Len(q) + 1
<1> DEFINE r == <<b>> \o q
<1>1. PICK n \in Nat : n = Len(q)
  BY ChainFacts, Sizes
<1>2. q \in Seq(Blocks) /\ DOMAIN q = 1 .. n /\ Injective(q) /\ (q = <<>> <=> n = 0)
  <2>1. q \in Seq(Blocks) /\ DOMAIN q = 1 .. n /\ Injective(q)
    BY <1>1, ChainFacts
  <2> QED BY <1>1, <2>1, NoLength
<1>3. /\ r \in Seq(Blocks) /\ Len(r) = n + 1 /\ DOMAIN r = 1 .. (n + 1) /\ r[1] = b /\ r # <<>>
      /\ \A i \in 1 .. n : r[i + 1] = q[i]
  BY <1>1, <1>2
<1>4. \A i \in 1 .. (n + 1) : i = 1 \/ (i - 1 \in 1 .. n /\ r[i] = q[i - 1])
  <2>1. ASSUME NEW i \in 1 .. (n + 1), i # 1 PROVE i - 1 \in 1 .. n /\ (i - 1) + 1 = i
    BY <2>1
  <2> QED BY <1>3, <2>1
<1> HIDE DEF r
<1>5. \A i \in 1 .. n : q[i] # b
  BY <1>2 DEF Elements
<1>6. r \in Chains
  <2>1. ASSUME NEW i \in 1 .. (n + 1), NEW j \in 1 .. (n + 1), i # j PROVE r[i] # r[j]
    <3>1. i # 1 /\ j # 1 => q[i - 1] # q[j - 1]
      BY <1>2, <1>4, <2>1 DEF Injective
    <3> QED BY <1>3, <1>4, <1>5, <2>1, <3>1
  <2> QED BY <1>3, <2>1, ChainMade DEF Injective
<1>7. Linked(nx, b, r)
  <2>1. ASSUME NEW i \in 1 .. (n + 1)
        PROVE  nx[r[i]] = IF i = n + 1 THEN NULL ELSE r[i + 1]
    <3>1. CASE i = 1 /\ n = 0
      BY <1>2, <1>3, <3>1 DEF Linked
    <3>2. CASE i = 1 /\ n # 0
      <4>1. p = q[1] /\ 1 \in 1 .. n /\ r[1 + 1] = q[1]
        BY <1>2, <1>3, <3>2 DEF Linked
      <4> QED BY <1>3, <3>2, <4>1
    <3>3. CASE i # 1
      <4>1. i - 1 \in 1 .. n /\ r[i] = q[i - 1] /\ n # 0
        BY <1>4, <3>3
      <4>2. nx[q[i - 1]] = IF i - 1 = n THEN NULL ELSE q[(i - 1) + 1]
        BY <1>1, <1>2, <4>1 DEF Linked
      <4>3. i # n + 1 => i \in 1 .. n /\ i - 1 # n /\ (i - 1) + 1 = i
        BY <4>1
      <4> QED BY <1>3, <4>1, <4>2, <4>3
    <3> QED BY <3>1, <3>2, <3>3
  <2> QED BY <1>3, <2>1 DEF Linked
<1>8. Elements(r) = Elements(q) \cup {b}
  <2>1. 1 \in 1 .. (n + 1) /\ \A i \in 1 .. n : i + 1 \in 1 .. (n + 1)
    OBVIOUS
  <2>2. Elements(q) = {q[i] : i \in 1 .. n} /\ Elements(r) = {r[i] : i \in 1 .. (n + 1)}
    BY <1>2, <1>3 DEF Elements
  <2>3. \A i \in 1 .. (n + 1) : r[i] \in Elements(q) \cup {b}
    BY <1>3, <1>4, <2>2
  <2>4. \A i \in 1 .. n : q[i] \in Elements(r)
    BY <1>3, <2>1, <2>2
  <2>5. b \in Elements(r)
    BY <1>3, <2>1, <2>2
  <2> QED BY <2>2, <2>3, <2>4, <2>5
<1> QED BY <1>1, <1>3, <1>6, <1>7, <1>8 DEF r

(* With one more block at the end.                                         *)
LEMMA EndFacts ==
    ASSUME NEW nx, NEW mx, NEW p, NEW q \in Chains, Linked(nx, p, q), p # NULL,
           NEW b \in Blocks, b \notin Elements(q),
           mx[b] = NULL, mx[q[Len(q)]] = b,
           \A x \in Elements(q) : x # q[Len(q)] => mx[x] = nx[x]
    PROVE  /\ Append(q, b) \in Chains /\ Linked(mx, p, Append(q, b))
           /\ Elements(Append(q, b)) = Elements(q) \cup {b}
           /\ Len(Append(q, b)) = Len(q) + 1
<1> DEFINE r == Append(q, b)
<1>1. PICK n \in Nat : n = Len(q) /\ n # 0 /\ q # <<>> /\ p = q[1]
  BY Starts, Sizes
<1>2. q \in Seq(Blocks) /\ DOMAIN q = 1 .. n /\ Injective(q)
  BY <1>1, ChainFacts
<1>3. /\ r \in Seq(Blocks) /\ Len(r) = n + 1 /\ DOMAIN r = 1 .. (n + 1) /\ r[n + 1] = b
      /\ r # <<>> /\ \A i \in 1 .. n : r[i] = q[i]
  BY <1>1, <1>2
<1>4. \A i \in 1 .. (n + 1) : i = n + 1 \/ i \in 1 .. n
  OBVIOUS
<1> HIDE DEF r
<1>5. \A i \in 1 .. n : q[i] # b
  BY <1>2 DEF Elements
<1>6. r \in Chains
  <2>1. ASSUME NEW i \in 1 .. (n + 1), NEW j \in 1 .. (n + 1), i # j PROVE r[i] # r[j]
    BY <1>2, <1>3, <1>4, <1>5, <2>1 DEF Injective
  <2> QED BY <1>3, <2>1, ChainMade DEF Injective
<1>7. Linked(mx, p, r)
  <2>1. ASSUME NEW i \in 1 .. (n + 1)
        PROVE  mx[r[i]] = IF i = n + 1 THEN NULL ELSE r[i + 1]
    <3>1. CASE i = n + 1
      BY <1>3, <3>1
    <3>2. CASE i = n
      BY <1>1, <1>3, <3>2
    <3>3. CASE i # n /\ i # n + 1
      <4>1. i \in 1 .. n /\ n \in 1 .. n /\ i + 1 \in 1 .. n
        BY <1>1, <3>3
      <4>2. q[i] # q[n] /\ q[i] \in Elements(q)
        BY <1>2, <3>3, <4>1 DEF Injective, Elements
      <4>3. mx[q[i]] = q[i + 1]
        BY <1>1, <1>2, <3>3, <4>1, <4>2 DEF Linked
      <4> QED BY <1>3, <3>3, <4>1, <4>3
    <3> QED BY <3>1, <3>2, <3>3
  <2>2. r[1] = p
    BY <1>1, <1>3
  <2> QED BY <1>3, <2>1, <2>2 DEF Linked
<1>8. Elements(r) = Elements(q) \cup {b}
  <2>1. n + 1 \in 1 .. (n + 1) /\ \A i \in 1 .. n : i \in 1 .. (n + 1)
    OBVIOUS
  <2>2. Elements(q) = {q[i] : i \in 1 .. n} /\ Elements(r) = {r[i] : i \in 1 .. (n + 1)}
    BY <1>2, <1>3 DEF Elements
  <2>3. \A i \in 1 .. (n + 1) : r[i] \in Elements(q) \cup {b}
    BY <1>3, <1>4, <2>2
  <2>4. \A i \in 1 .. n : q[i] \in Elements(r)
    BY <1>3, <2>1, <2>2
  <2>5. b \in Elements(r)
    BY <1>3, <2>1, <2>2
  <2> QED BY <2>2, <2>3, <2>4, <2>5
<1> QED BY <1>1, <1>3, <1>6, <1>7, <1>8 DEF r

-----------------------------------------------------------------------------
(* The types *)

(* The initial state has the types.                                        *)
LEMMA TypeInit == Init => TypeOK
<1> SUFFICES ASSUME Init PROVE TypeOK
  OBVIOUS
<1> USE Sizes DEF Init
<1>1. /\ state \in [Slots -> States] /\ remote_address \in [Slots -> Addresses \cup {Nobody}]
      /\ delay \in [Slots -> 0 .. MaxDelay] /\ executed \in [Slots -> 0 .. MaxArrivals]
  BY DEF States
<1>2. /\ packets \in [Slots -> Pointers] /\ last_packet \in [Slots -> Pointers]
      /\ free_packets \in Pointers /\ next \in [Blocks -> Pointers]
  BY DEF Pointers, Blocks, NULL
<1>3. /\ msg \in [Blocks -> 0 .. MaxArrivals] /\ age \in [Blocks -> 0 .. MaxDelay]
      /\ socket \in Seq(Datagrams) /\ Len(socket) <= MaxSocket
  OBVIOUS
<1>4. paused \in BOOLEAN
  <2>1. paused = FALSE
    BY DEF Init
  <2> QED BY <2>1
<1>5. arrived \in 0 .. MaxArrivals /\ pc = "idle" /\ cl \in Slots
  BY DEF Slots
<1> QED BY <1>1, <1>2, <1>3, <1>4, <1>5 DEF TypeOK

(* An execution keeps the types.                                           *)
LEMMA TypeExecute ==
    ASSUME TypeOK, NEW s, NEW n \in 0 .. MaxArrivals, SV_ExecuteClientMessage(s, n)
    PROVE  /\ state' \in [Slots -> States] /\ delay' \in [Slots -> 0 .. MaxDelay]
           /\ executed' \in [Slots -> 0 .. MaxArrivals] /\ paused' \in BOOLEAN
           /\ remote_address' \in [Slots -> Addresses \cup {Nobody}]
BY DEF TypeOK, SV_ExecuteClientMessage

(* So do the release of a block ...                                        *)
LEMMA TypeRelease ==
    ASSUME TypeOK, NEW s \in Slots, packets[s] # NULL, SV_FreeHeadDelayedPacket(s)
    PROVE  /\ packets' \in [Slots -> Pointers] /\ last_packet' \in [Slots -> Pointers]
           /\ free_packets' \in Pointers /\ next' \in [Blocks -> Pointers]
           /\ msg' \in [Blocks -> 0 .. MaxArrivals] /\ age' \in [Blocks -> 0 .. MaxDelay]
<1>1. packets[s] \in Blocks
  BY DEF TypeOK, Pointers
<1>2. 0 \in 0 .. MaxArrivals /\ 0 \in 0 .. MaxDelay
  BY Sizes
<1> QED BY <1>1, <1>2 DEF TypeOK, SV_FreeHeadDelayedPacket, Pointers

(* ... and the addition of one.                                            *)
LEMMA TypeHold ==
    ASSUME TypeOK, NEW s, NEW n \in 0 .. MaxArrivals, free_packets # NULL, HoldPacket(s, n)
    PROVE  /\ packets' \in [Slots -> Pointers] /\ last_packet' \in [Slots -> Pointers]
           /\ free_packets' \in Pointers /\ next' \in [Blocks -> Pointers]
           /\ msg' \in [Blocks -> 0 .. MaxArrivals] /\ age' \in [Blocks -> 0 .. MaxDelay]
<1>1. free_packets \in Blocks /\ NULL \in Pointers /\ free_packets \in Pointers
  BY DEF TypeOK, Pointers
<1>2. 0 \in 0 .. MaxDelay
  BY Sizes
<1> QED BY <1>1, <1>2 DEF TypeOK, HoldPacket

(* The first slot of a set is in it.                                       *)
LEMMA FirstFacts ==
    ASSUME NEW S \in SUBSET Slots, S # {}
    PROVE  First(S) \in S
<1>1. S \subseteq Nat
  BY Sizes DEF Slots
<1>2. PICK s \in S : \A t \in S : ~(<<t, s>> \in OpToRel(<, Nat))
  BY <1>1, NatLessThanWellFounded, WFMin
<1>3. ASSUME NEW t \in S PROVE s <= t
  <2>1. s \in Nat /\ t \in Nat
    BY <1>1
  <2>2. ~(t < s)
    BY <1>2, <2>1 DEF OpToRel
  <2> QED BY <2>1, <2>2
<1> QED BY <1>3 DEF First

(* A connect changes nothing, or it clears a slot that is free or the      *)
(* address's own, and frees no other one than that.                        *)
LEMMA ConnectCases ==
    ASSUME NEW a, NEW n, SVC_DirectConnect(a, n)
    PROVE  \/ UNCHANGED <<slots, lists>>
           \/ \E new \in Slots, own \in SUBSET Matching(a) :
                 /\ new \in own \/ state[new] = "cs_free"
                 /\ state' = [s \in Slots |-> IF s = new THEN "cs_connected"
                                              ELSE IF s \in own THEN "cs_free" ELSE state[s]]
                 /\ remote_address' = [remote_address EXCEPT ![new] = a]
                 /\ delay' = [delay EXCEPT ![new] = 0]
                 /\ executed' = [executed EXCEPT ![new] = n]
                 /\ packets' = [packets EXCEPT ![new] = NULL]
                 /\ last_packet' = [last_packet EXCEPT ![new] = NULL]
                 /\ UNCHANGED <<free_packets, next, msg, age>>
<1> DEFINE own == IF Matching(a) = {} THEN {} ELSE {First(Matching(a))}
           free == {s \in Slots : state[s] = "cs_free"} \cup own
           new == First(free)
<1>1. CASE UNCHANGED <<slots, lists>>
  BY <1>1
<1>2. CASE free # {} /\ ~UNCHANGED <<slots, lists>>
  <2>1. own \in SUBSET Matching(a) /\ Matching(a) \in SUBSET Slots
    BY FirstFacts DEF Matching
  <2>2. new \in free
    BY <1>2, <2>1, FirstFacts
  <2>3. new \in Slots /\ (new \in own \/ state[new] = "cs_free")
    BY <2>1, <2>2
  <2>4. /\ state' = [[s \in Slots |-> IF s \in own THEN "cs_free" ELSE state[s]]
                        EXCEPT ![new] = "cs_connected"]
        /\ remote_address' = [remote_address EXCEPT ![new] = a]
        /\ delay' = [delay EXCEPT ![new] = 0]
        /\ executed' = [executed EXCEPT ![new] = n]
        /\ packets' = [packets EXCEPT ![new] = NULL]
        /\ last_packet' = [last_packet EXCEPT ![new] = NULL]
        /\ UNCHANGED <<free_packets, next, msg, age>>
    BY <1>2 DEF SVC_DirectConnect
  <2> HIDE DEF new, free, own
  <2> QED BY <2>1, <2>3, <2>4
<1>3. free # {} \/ UNCHANGED <<slots, lists>>
  BY DEF SVC_DirectConnect
<1> QED BY <1>1, <1>2, <1>3

(* What is left in the socket.                                             *)
LEMMA TypeRead ==
    ASSUME TypeOK, socket # <<>>
    PROVE  /\ Head(socket) \in Datagrams /\ Head(socket) = socket[1] /\ Len(socket) \in Nat \ {0}
           /\ Head(socket).from \in Addresses /\ Head(socket).n \in 1 .. MaxArrivals
           /\ Tail(socket) \in Seq(Datagrams) /\ Len(Tail(socket)) = Len(socket) - 1
           /\ \A i \in DOMAIN Tail(socket) : i \in Nat /\ i + 1 \in DOMAIN socket
                                           /\ Tail(socket)[i] = socket[i + 1]
<1>1. socket \in Seq(Datagrams)
  BY DEF TypeOK
<1>2. Len(socket) \in Nat \ {0}
  BY <1>1, NoLength
<1>3. Head(socket) \in Datagrams /\ Head(socket) = socket[1]
  BY <1>1, <1>2
<1>4. /\ Tail(socket) \in Seq(Datagrams) /\ Len(Tail(socket)) = Len(socket) - 1
      /\ \A i \in DOMAIN Tail(socket) : i \in Nat /\ i + 1 \in DOMAIN socket
                                           /\ Tail(socket)[i] = socket[i + 1]
  BY <1>1, <1>2
<1>5. Head(socket).from \in Addresses /\ Head(socket).n \in 1 .. MaxArrivals
  BY <1>3 DEF Datagrams
<1> QED BY <1>2, <1>3, <1>4, <1>5

(* Every step keeps the types.                                             *)
LEMMA TypeStep == TypeOK /\ [Next]_vars => TypeOK'
<1> SUFFICES ASSUME TypeOK, [Next]_vars PROVE TypeOK'
  OBVIOUS
<1> USE Sizes
<1>1. ASSUME NEW k \in Kinds, NEW a \in Addresses, Arrive(k, a) PROVE TypeOK'
  <2>1. arrived + 1 \in 1 .. MaxArrivals
    BY <1>1 DEF TypeOK, Arrive
  <2>2. [kind |-> k, from |-> a, n |-> arrived + 1] \in Datagrams
    BY <2>1 DEF Datagrams
  <2>3. socket' \in Seq(Datagrams) /\ Len(socket') <= MaxSocket
    BY <1>1, <2>2 DEF TypeOK, Arrive
  <2> QED BY <1>1, <2>1, <2>3 DEF TypeOK, Arrive, lists, slots
<1>2. ASSUME NEW freed \in SUBSET Slots, SV_Frame(freed) PROVE TypeOK'
  <2>1. state' \in [Slots -> States]
    BY <1>2 DEF TypeOK, SV_Frame, SV_CheckTimeouts, States
  <2>2. paused' \in BOOLEAN
    BY <1>2, Zenon DEF TypeOK, SV_Frame, SV_CheckTimeouts
  <2>3. age' \in [Blocks -> 0 .. MaxDelay]
    <3>1. ASSUME NEW x \in 0 .. MaxDelay PROVE x # MaxDelay => x + 1 \in 0 .. MaxDelay
      OBVIOUS
    <3> QED BY <1>2, <3>1 DEF TypeOK, SV_Frame
  <2>4. pc' \in {"idle", "delayed", "new"} /\ cl' \in Slots
    BY <1>2 DEF SV_Frame, Slots
  <2> QED BY <1>2, <2>1, <2>2, <2>3, <2>4 DEF TypeOK, SV_Frame
<1>3. CASE SV_Shutdown
  <2>1. /\ state' \in [Slots -> States] /\ remote_address' \in [Slots -> Addresses \cup {Nobody}]
        /\ delay' \in [Slots -> 0 .. MaxDelay] /\ executed' \in [Slots -> 0 .. MaxArrivals]
        /\ packets' \in [Slots -> Pointers] /\ last_packet' \in [Slots -> Pointers]
        /\ socket' \in Seq(Datagrams) /\ Len(socket') <= MaxSocket
    BY <1>3 DEF SV_Shutdown, States, Pointers
  <2>2. paused' \in BOOLEAN
    BY <1>3, Zenon DEF SV_Shutdown
  <2> QED BY <1>3, <2>1, <2>2 DEF TypeOK, SV_Shutdown
<1>4. CASE ReleaseDelayed
  <2>1. cl \in Slots /\ packets[cl] # NULL
    BY <1>4 DEF TypeOK, ReleaseDelayed, Ripe
  <2>2. msg[packets[cl]] \in 0 .. MaxArrivals
    BY <2>1 DEF TypeOK, Pointers
  <2>3. SV_ExecuteClientMessage(cl, msg[packets[cl]]) /\ SV_FreeHeadDelayedPacket(cl)
    BY <1>4 DEF ReleaseDelayed
  <2>4. /\ state' \in [Slots -> States] /\ delay' \in [Slots -> 0 .. MaxDelay]
        /\ executed' \in [Slots -> 0 .. MaxArrivals] /\ paused' \in BOOLEAN
        /\ remote_address' \in [Slots -> Addresses \cup {Nobody}]
    BY <2>2, <2>3, TypeExecute
  <2>5. /\ packets' \in [Slots -> Pointers] /\ last_packet' \in [Slots -> Pointers]
        /\ free_packets' \in Pointers /\ next' \in [Blocks -> Pointers]
        /\ msg' \in [Blocks -> 0 .. MaxArrivals] /\ age' \in [Blocks -> 0 .. MaxDelay]
    BY <2>1, <2>3, TypeRelease
  <2> QED BY <1>4, <2>4, <2>5 DEF TypeOK, ReleaseDelayed
<1>5. CASE NextDelayed
  <2>1. cl' \in Slots
    BY <1>5 DEF NextDelayed, TypeOK, Slots
  <2> QED BY <1>5, <2>1 DEF NextDelayed, TypeOK, lists, slots
<1>6. CASE ReadConnect
  <2>1. /\ Head(socket).from \in Addresses /\ Head(socket).n \in 0 .. MaxArrivals
        /\ Tail(socket) \in Seq(Datagrams) /\ Len(Tail(socket)) <= MaxSocket
    BY <1>6, TypeRead DEF ReadConnect, TypeOK
  <2>2. /\ state' \in [Slots -> States] /\ remote_address' \in [Slots -> Addresses \cup {Nobody}]
        /\ delay' \in [Slots -> 0 .. MaxDelay] /\ executed' \in [Slots -> 0 .. MaxArrivals]
        /\ packets' \in [Slots -> Pointers] /\ last_packet' \in [Slots -> Pointers]
        /\ UNCHANGED <<free_packets, next, msg, age>>
    <3>1. PICK a, n : a = Head(socket).from /\ n = Head(socket).n
      OBVIOUS
    <3>2. SVC_DirectConnect(a, n)
      BY <1>6, <3>1 DEF ReadConnect
    <3>3. CASE UNCHANGED <<slots, lists>>
      BY <3>3 DEF TypeOK, lists, slots
    <3>4. CASE ~UNCHANGED <<slots, lists>>
      <4>1. 0 \in 0 .. MaxDelay /\ NULL \in Pointers /\ "cs_connected" \in States /\ "cs_free" \in States
        BY DEF Pointers, States
      <4>2. PICK new \in Slots, own \in SUBSET Matching(a) :
              /\ state' = [s \in Slots |-> IF s = new THEN "cs_connected"
                                           ELSE IF s \in own THEN "cs_free" ELSE state[s]]
              /\ remote_address' = [remote_address EXCEPT ![new] = a]
              /\ delay' = [delay EXCEPT ![new] = 0]
              /\ executed' = [executed EXCEPT ![new] = n]
              /\ packets' = [packets EXCEPT ![new] = NULL]
              /\ last_packet' = [last_packet EXCEPT ![new] = NULL]
              /\ UNCHANGED <<free_packets, next, msg, age>>
        BY <3>2, <3>4, ConnectCases
      <4> QED BY <2>1, <3>1, <4>1, <4>2 DEF TypeOK
    <3> QED BY <3>3, <3>4
  <2> QED BY <1>6, <2>1, <2>2 DEF ReadConnect, TypeOK
<1>7. CASE ReadData
  <2>1. /\ Head(socket).n \in 0 .. MaxArrivals
        /\ Tail(socket) \in Seq(Datagrams) /\ Len(Tail(socket)) <= MaxSocket
    BY <1>7, TypeRead DEF ReadData, TypeOK
  <2>2. pc' \in {"idle", "delayed", "new"} /\ socket' = Tail(socket)
    BY <1>7 DEF ReadData, TypeOK
  <2> DEFINE of == Matching(Head(socket).from)
             s == First(of)
             n == Head(socket).n
  <2>3. CASE of = {} \/ (delay[s] > 0 /\ free_packets = NULL)
    BY <1>7, <2>1, <2>2, <2>3 DEF ReadData, TypeOK, lists, slots
  <2>4. CASE of # {} /\ delay[s] > 0 /\ free_packets # NULL
    <3>1. HoldPacket(s, n) /\ UNCHANGED <<slots, paused, arrived, cl>>
      BY <1>7, <2>4 DEF ReadData
    <3>2. /\ packets' \in [Slots -> Pointers] /\ last_packet' \in [Slots -> Pointers]
          /\ free_packets' \in Pointers /\ next' \in [Blocks -> Pointers]
          /\ msg' \in [Blocks -> 0 .. MaxArrivals] /\ age' \in [Blocks -> 0 .. MaxDelay]
      BY <2>1, <2>4, <3>1, TypeHold
    <3> QED BY <2>1, <2>2, <3>1, <3>2 DEF TypeOK, slots
  <2>5. CASE of # {} /\ ~(delay[s] > 0)
    <3>1. SV_ExecuteClientMessage(s, n) /\ UNCHANGED <<lists, arrived, cl>>
      BY <1>7, <2>5 DEF ReadData
    <3>2. /\ state' \in [Slots -> States] /\ delay' \in [Slots -> 0 .. MaxDelay]
          /\ executed' \in [Slots -> 0 .. MaxArrivals] /\ paused' \in BOOLEAN
          /\ remote_address' \in [Slots -> Addresses \cup {Nobody}]
      BY <2>1, <3>1, TypeExecute
    <3> QED BY <2>1, <2>2, <3>1, <3>2 DEF TypeOK, lists
  <2> QED BY <2>3, <2>4, <2>5
<1>8. CASE SocketEmpty
  BY <1>8 DEF SocketEmpty, TypeOK, lists, slots
<1>9. CASE UNCHANGED vars
  BY <1>9 DEF vars, TypeOK, lists, slots
<1> QED BY <1>1, <1>2, <1>3, <1>4, <1>5, <1>6, <1>7, <1>8, <1>9 DEF Next

(* The variables always have their types.                                  *)
THEOREM TypeCorrect == Spec => []TypeOK
BY TypeInit, TypeStep, PTL DEF Spec

-----------------------------------------------------------------------------
(* What the operations do to the lists *)

(* Pool and Held are the lists of the code.                                *)
LEMMA ListsAre ==
    ASSUME ListsEnd
    PROVE  /\ Pool \in Chains /\ Linked(next, free_packets, Pool)
           /\ \A s \in Slots : Held(s) \in Chains /\ Linked(next, packets[s], Held(s))
<1>1. ASSUME NEW p, \E q \in Chains : Linked(next, p, q)
      PROVE  List(next, p) \in Chains /\ Linked(next, p, List(next, p))
  BY <1>1 DEF List
<1> QED BY <1>1 DEF ListsEnd, Pool, Held

(* The same in the next state, of lists found there.                       *)
LEMMA ListsBecome ==
    ASSUME NEW pool \in Chains, NEW held \in [Slots -> Chains],
           Linked(next', free_packets', pool),
           \A s \in Slots : Linked(next', packets'[s], held[s])
    PROVE  /\ ListsEnd' /\ Pool' = pool
           /\ \A s \in Slots : Held(s)' = held[s]
<1>1. Pool' = pool
  BY ListIs DEF Pool
<1>2. ASSUME NEW s \in Slots PROVE Held(s)' = held[s]
  <2>1. held[s] \in Chains /\ Linked(next', packets'[s], held[s])
    OBVIOUS
  <2>2. List(next', packets'[s]) = held[s]
    BY <2>1, ListIs
  <2> QED BY <2>2 DEF Held
<1>3. ListsEnd'
  BY DEF ListsEnd
<1> QED BY <1>1, <1>2, <1>3

(* A slot whose list is empty, or not.                                     *)
LEMMA HeldFacts ==
    ASSUME TypeOK, ListsEnd, NEW s \in Slots
    PROVE  /\ packets[s] = NULL <=> Held(s) = <<>>
           /\ packets[s] # NULL =>
                 /\ Len(Held(s)) \in 1 .. MAX_DELAYED_PACKETS /\ packets[s] = Held(s)[1]
                 /\ packets[s] \in Blocks /\ packets[s] \in Elements(Held(s))
<1>1. Held(s) \in Chains /\ Linked(next, packets[s], Held(s))
  BY ListsAre
<1>2. CASE packets[s] = NULL
  <2>1. Linked(next, NULL, <<>>) /\ <<>> \in Chains
    BY NoBlocks
  <2>2. List(next, NULL) = <<>>
    BY <2>1, ListIs
  <2> QED BY <1>2, <2>2 DEF Held
<1>3. CASE packets[s] # NULL
  BY <1>1, <1>3, Starts
<1> QED BY <1>2, <1>3

(* The pool, likewise.                                                     *)
LEMMA PoolFacts ==
    ASSUME TypeOK, ListsEnd
    PROVE  /\ free_packets = NULL <=> Pool = <<>>
           /\ free_packets # NULL =>
                 /\ Len(Pool) \in 1 .. MAX_DELAYED_PACKETS /\ free_packets = Pool[1]
                 /\ free_packets \in Blocks /\ free_packets \in Elements(Pool)
<1>1. Pool \in Chains /\ Linked(next, free_packets, Pool)
  BY ListsAre
<1>2. CASE free_packets = NULL
  <2>1. Linked(next, NULL, <<>>) /\ <<>> \in Chains
    BY NoBlocks
  <2>2. List(next, NULL) = <<>>
    BY <2>1, ListIs
  <2> QED BY <1>2, <2>2 DEF Pool
<1>3. CASE free_packets # NULL
  BY <1>1, <1>3, Starts
<1> QED BY <1>2, <1>3

(* A release moves the head of a list to the head of the pool.             *)
LEMMA ReleaseLists ==
    ASSUME TypeOK, ListsApart, NEW s \in Slots, packets[s] # NULL, SV_FreeHeadDelayedPacket(s)
    PROVE  /\ ListsEnd'
           /\ Pool' = <<packets[s]>> \o Pool
           /\ Held(s)' = Tail(Held(s))
           /\ \A t \in Slots : t # s => Held(t)' = Held(t)
<1> DEFINE b == packets[s]
           pool == <<b>> \o Pool
           held == [t \in Slots |-> IF t = s THEN Tail(Held(s)) ELSE Held(t)]
<1>1. /\ Pool \in Chains /\ Linked(next, free_packets, Pool)
      /\ \A t \in Slots : Held(t) \in Chains /\ Linked(next, packets[t], Held(t))
  BY ListsAre DEF ListsApart
<1>2. b \in Blocks /\ b \in Elements(Held(s)) /\ b # NULL
  BY HeldFacts DEF ListsApart
<1>3. b \notin Elements(Pool) /\ \A t \in Slots : t # s => b \notin Elements(Held(t))
  BY <1>2 DEF ListsApart
<1>4. /\ next' = [next EXCEPT ![b] = free_packets] /\ free_packets' = b
      /\ packets' = [packets EXCEPT ![s] = next[b]]
  BY DEF SV_FreeHeadDelayedPacket
<1>5. next'[b] = free_packets /\ \A x \in Blocks : x # b => next'[x] = next[x]
  BY <1>2, <1>4 DEF TypeOK
<1>6. \A q \in Chains : Elements(q) \subseteq Blocks
  BY ChainFacts DEF Elements
<1>7. pool \in Chains /\ Linked(next', free_packets', pool)
  <2>1. Linked(next', free_packets, Pool)
    BY <1>1, <1>3, <1>5, <1>6, SameLinks
  <2> QED BY <1>1, <1>2, <1>3, <1>4, <1>5, <2>1, HeadFacts
<1>8. ASSUME NEW t \in Slots PROVE held[t] \in Chains /\ Linked(next', packets'[t], held[t])
  <2>1. CASE t = s
    <3>1. /\ Tail(Held(s)) \in Chains /\ Linked(next, next[b], Tail(Held(s)))
          /\ b \notin Elements(Tail(Held(s)))
      BY <1>1, <1>2, TailFacts
    <3>2. Linked(next', next[b], Tail(Held(s)))
      BY <1>5, <1>6, <3>1, SameLinks
    <3> QED BY <1>4, <2>1, <3>1, <3>2 DEF TypeOK
  <2>2. CASE t # s
    <3>1. Linked(next', packets[t], Held(t))
      BY <1>1, <1>3, <1>5, <1>6, <2>2, SameLinks
    <3> QED BY <1>1, <1>4, <2>2, <3>1 DEF TypeOK
  <2> QED BY <2>1, <2>2
<1>9. held \in [Slots -> Chains]
  BY <1>8
<1> HIDE DEF pool, held
<1>10. ListsEnd' /\ Pool' = pool /\ \A t \in Slots : Held(t)' = held[t]
  BY <1>7, <1>8, <1>9, ListsBecome
<1> QED BY <1>10 DEF pool, held

(* A packet that is held takes the first block of the pool to the end of   *)
(* the list of its slot.                                                   *)
LEMMA HoldLists ==
    ASSUME TypeOK, ListsApart, NEW s \in Slots, NEW n, free_packets # NULL, HoldPacket(s, n)
    PROVE  /\ ListsEnd'
           /\ Pool' = Tail(Pool)
           /\ Held(s)' = Append(Held(s), free_packets)
           /\ \A t \in Slots : t # s => Held(t)' = Held(t)
<1> DEFINE b == free_packets
           pool == Tail(Pool)
           held == [t \in Slots |-> IF t = s THEN Append(Held(s), b) ELSE Held(t)]
<1>1. /\ Pool \in Chains /\ Linked(next, free_packets, Pool)
      /\ \A t \in Slots : Held(t) \in Chains /\ Linked(next, packets[t], Held(t))
  BY ListsAre DEF ListsApart
<1>2. b \in Blocks /\ b \in Elements(Pool) /\ b # NULL
  BY PoolFacts DEF ListsApart
<1>3. \A t \in Slots : b \notin Elements(Held(t))
  BY <1>2 DEF ListsApart
<1>4. /\ next' = [p \in Blocks |-> IF p = b THEN NULL
                                  ELSE IF packets[s] # NULL /\ p = last_packet[s] THEN b
                                  ELSE next[p]]
      /\ free_packets' = next[b]
      /\ packets' = [packets EXCEPT ![s] = IF packets[s] = NULL THEN b ELSE packets[s]]
  BY DEF HoldPacket
<1>5. packets[s] # NULL => last_packet[s] \in Elements(Held(s))
  <2>1. packets[s] # NULL => /\ last_packet[s] = Held(s)[Len(Held(s))]
                             /\ Len(Held(s)) \in 1 .. MAX_DELAYED_PACKETS
    BY HeldFacts DEF ListsApart
  <2>2. DOMAIN Held(s) = 1 .. Len(Held(s))
    BY <1>1, ChainFacts
  <2> QED BY <2>1, <2>2, Sizes DEF Elements
<1>6. \A q \in Chains : Elements(q) \subseteq Blocks
  BY ChainFacts DEF Elements
<1>7. pool \in Chains /\ Linked(next', free_packets', pool)
  <2>1. /\ pool \in Chains /\ Linked(next, next[b], pool) /\ b \notin Elements(pool)
        /\ Elements(pool) \subseteq Elements(Pool)
    BY <1>1, <1>2, TailFacts
  <2>2. \A x \in Elements(pool) : next'[x] = next[x]
    BY <1>4, <1>5, <1>6, <2>1 DEF ListsApart
  <2> QED BY <1>4, <2>1, <2>2, SameLinks
<1>8. ASSUME NEW t \in Slots PROVE held[t] \in Chains /\ Linked(next', packets'[t], held[t])
  <2>1. CASE t = s /\ packets[s] = NULL
    <3>1. Held(s) = <<>> /\ packets'[t] = b /\ next'[b] = NULL
      BY <1>2, <1>4, <2>1, HeldFacts DEF TypeOK, ListsApart
    <3>2. /\ <<>> \in Chains /\ Linked(next', NULL, <<>>) /\ b \notin Elements(<<>>)
      BY NoBlocks
    <3>3. <<b>> \o <<>> \in Chains /\ Linked(next', b, <<b>> \o <<>>)
      BY <1>2, <3>1, <3>2, HeadFacts
    <3>4. Append(<<>>, b) = <<b>> \o <<>>
      OBVIOUS
    <3> QED BY <2>1, <3>1, <3>3, <3>4
  <2>2. CASE t = s /\ packets[s] # NULL
    <3>1. /\ last_packet[s] = Held(s)[Len(Held(s))] /\ packets'[t] = packets[s]
          /\ last_packet[s] \in Blocks /\ last_packet[s] # b
      BY <1>1, <1>3, <1>4, <1>5, <1>6, <2>2 DEF ListsApart, TypeOK
    <3>2. /\ next'[b] = NULL /\ next'[last_packet[s]] = b
          /\ \A x \in Elements(Held(s)) : x # last_packet[s] => next'[x] = next[x]
      BY <1>1, <1>2, <1>3, <1>4, <1>6, <2>2, <3>1
    <3>3. Append(Held(s), b) \in Chains /\ Linked(next', packets[s], Append(Held(s), b))
      BY <1>1, <1>2, <1>3, <2>2, <3>1, <3>2, EndFacts
    <3> QED BY <2>2, <3>1, <3>3
  <2>3. CASE t # s
    <3>1. packets[s] # NULL => last_packet[s] \notin Elements(Held(t))
      BY <1>5, <2>3 DEF ListsApart
    <3>2. Linked(next', packets[t], Held(t))
      BY <1>1, <1>3, <1>4, <1>6, <3>1, SameLinks
    <3> QED BY <1>1, <1>4, <2>3, <3>2 DEF TypeOK
  <2> QED BY <2>1, <2>2, <2>3
<1>9. held \in [Slots -> Chains]
  BY <1>8
<1> HIDE DEF pool, held
<1>10. ListsEnd' /\ Pool' = pool /\ \A t \in Slots : Held(t)' = held[t]
  BY <1>7, <1>8, <1>9, ListsBecome
<1> QED BY <1>10 DEF pool, held

(* A cleared slot has an empty list, and the others keep theirs.           *)
LEMMA ClearLists ==
    ASSUME TypeOK, ListsEnd, NEW C \in SUBSET Slots,
           packets' = [t \in Slots |-> IF t \in C THEN NULL ELSE packets[t]],
           next' = next, free_packets' = free_packets
    PROVE  /\ ListsEnd' /\ Pool' = Pool
           /\ \A t \in Slots : Held(t)' = IF t \in C THEN <<>> ELSE Held(t)
<1> DEFINE held == [t \in Slots |-> IF t \in C THEN <<>> ELSE Held(t)]
<1>1. /\ Pool \in Chains /\ Linked(next, free_packets, Pool)
      /\ \A t \in Slots : Held(t) \in Chains /\ Linked(next, packets[t], Held(t))
  BY ListsAre
<1>2. ASSUME NEW t \in Slots PROVE held[t] \in Chains /\ Linked(next', packets'[t], held[t])
  BY <1>1, NoBlocks
<1>3. held \in [Slots -> Chains]
  BY <1>2
<1> HIDE DEF held
<1>4. ListsEnd' /\ Pool' = Pool /\ \A t \in Slots : Held(t)' = held[t]
  BY <1>1, <1>2, <1>3, ListsBecome
<1> QED BY <1>4 DEF held

-----------------------------------------------------------------------------
(* The lists stay apart *)

(* The blocks of a list that has got one more.                             *)
LEMMA MoreElements ==
    ASSUME NEW q \in Seq(Blocks), NEW b \in Blocks
    PROVE  /\ Elements(Append(q, b)) = Elements(q) \cup {b}
           /\ Elements(<<b>> \o q) = Elements(q) \cup {b}
<1>1. PICK n \in Nat : n = Len(q)
  OBVIOUS
<1>2. Elements(q) = {q[i] : i \in 1 .. n}
  BY <1>1 DEF Elements
<1>3. Elements(Append(q, b)) = Elements(q) \cup {b}
  <2> DEFINE r == Append(q, b)
  <2>1. DOMAIN r = 1 .. (n + 1) /\ r[n + 1] = b /\ \A i \in 1 .. n : r[i] = q[i]
    BY <1>1
  <2>2. n + 1 \in 1 .. (n + 1) /\ \A i \in 1 .. (n + 1) : i = n + 1 \/ i \in 1 .. n
    OBVIOUS
  <2>3. Elements(r) = {r[i] : i \in 1 .. (n + 1)}
    BY <2>1 DEF Elements
  <2> HIDE DEF r
  <2>4. \A i \in 1 .. n : q[i] \in Elements(r)
    BY <2>1, <2>3
  <2>5. b \in Elements(r) /\ \A i \in 1 .. (n + 1) : r[i] \in Elements(q) \cup {b}
    BY <1>2, <2>1, <2>2, <2>3
  <2>6. Elements(r) = Elements(q) \cup {b}
    BY <1>2, <2>3, <2>4, <2>5
  <2> QED BY <2>6 DEF r
<1>4. Elements(<<b>> \o q) = Elements(q) \cup {b}
  <2> DEFINE r == <<b>> \o q
  <2>1. DOMAIN r = 1 .. (n + 1) /\ r[1] = b /\ \A i \in 1 .. n : r[i + 1] = q[i]
    BY <1>1
  <2>2. 1 \in 1 .. (n + 1) /\ \A i \in 1 .. n : i + 1 \in 1 .. (n + 1)
    OBVIOUS
  <2>3. \A i \in 1 .. (n + 1) : i = 1 \/ (i - 1 \in 1 .. n /\ (i - 1) + 1 = i)
    OBVIOUS
  <2>4. Elements(r) = {r[i] : i \in 1 .. (n + 1)}
    BY <2>1 DEF Elements
  <2> HIDE DEF r
  <2>5. \A i \in 1 .. n : q[i] \in Elements(r)
    BY <2>1, <2>2, <2>4
  <2>6. b \in Elements(r) /\ \A i \in 1 .. (n + 1) : r[i] \in Elements(q) \cup {b}
    <3>1. b \in Elements(r)
      BY <2>1, <2>2, <2>4
    <3>2. ASSUME NEW i \in 1 .. (n + 1) PROVE r[i] \in Elements(q) \cup {b}
      <4>1. i # 1 => q[i - 1] \in Elements(q)
        BY <1>2, <2>3
      <4> QED BY <2>1, <2>3, <4>1
    <3> QED BY <3>1, <3>2
  <2>7. Elements(r) = Elements(q) \cup {b}
    BY <1>2, <2>4, <2>5, <2>6
  <2> QED BY <2>7 DEF r
<1> QED BY <1>3, <1>4

(* What a release does to the blocks of the lists.                         *)
LEMMA ReleaseElements ==
    ASSUME TypeOK, ListsApart, NEW s \in Slots, packets[s] # NULL, SV_FreeHeadDelayedPacket(s)
    PROVE  /\ Elements(Pool)' = Elements(Pool) \cup {packets[s]}
           /\ Elements(Held(s)) = Elements(Held(s))' \cup {packets[s]}
           /\ packets[s] \notin Elements(Held(s))'
           /\ \A t \in Slots : t # s => Elements(Held(t))' = Elements(Held(t))
<1>1. /\ Pool' = <<packets[s]>> \o Pool /\ Held(s)' = Tail(Held(s))
      /\ \A t \in Slots : t # s => Held(t)' = Held(t)
  BY ReleaseLists
<1>2. /\ Pool \in Seq(Blocks) /\ packets[s] \in Blocks
      /\ Held(s) \in Chains /\ Linked(next, packets[s], Held(s))
  BY ListsAre, HeldFacts, ChainFacts DEF ListsApart
<1>3. Elements(<<packets[s]>> \o Pool) = Elements(Pool) \cup {packets[s]}
  BY <1>2, MoreElements
<1>4. /\ Elements(Held(s)) = Elements(Tail(Held(s))) \cup {packets[s]}
      /\ packets[s] \notin Elements(Tail(Held(s)))
  BY <1>2, TailFacts
<1>5. Elements(Pool)' = Elements(Pool') /\ \A t \in Slots : Elements(Held(t))' = Elements(Held(t)')
  BY DEF Elements
<1> QED BY <1>1, <1>3, <1>4, <1>5

(* And a packet that is held.                                              *)
LEMMA HoldElements ==
    ASSUME TypeOK, ListsApart, NEW s \in Slots, NEW n, free_packets # NULL, HoldPacket(s, n)
    PROVE  /\ Elements(Pool) = Elements(Pool)' \cup {free_packets}
           /\ free_packets \notin Elements(Pool)'
           /\ Elements(Held(s))' = Elements(Held(s)) \cup {free_packets}
           /\ \A t \in Slots : t # s => Elements(Held(t))' = Elements(Held(t))
<1>1. /\ Pool' = Tail(Pool) /\ Held(s)' = Append(Held(s), free_packets)
      /\ \A t \in Slots : t # s => Held(t)' = Held(t)
  BY HoldLists
<1>2. /\ Held(s) \in Seq(Blocks) /\ free_packets \in Blocks
      /\ Pool \in Chains /\ Linked(next, free_packets, Pool)
  BY ListsAre, PoolFacts, ChainFacts DEF ListsApart
<1>3. Elements(Append(Held(s), free_packets)) = Elements(Held(s)) \cup {free_packets}
  BY <1>2, MoreElements, Zenon
<1>4. /\ Elements(Pool) = Elements(Tail(Pool)) \cup {free_packets}
      /\ free_packets \notin Elements(Tail(Pool))
  BY <1>2, TailFacts
<1>5. Elements(Pool)' = Elements(Pool') /\ \A t \in Slots : Elements(Held(t))' = Elements(Held(t)')
  BY DEF Elements
<1> QED BY <1>1, <1>3, <1>4, <1>5

(* A release keeps the lists apart.                                        *)
LEMMA ReleaseApart ==
    ASSUME TypeOK, ListsApart, NEW s \in Slots, packets[s] # NULL, SV_FreeHeadDelayedPacket(s)
    PROVE  ListsApart'
<1> DEFINE b == packets[s]
<1>1. /\ ListsEnd' /\ Held(s)' = Tail(Held(s))
      /\ \A t \in Slots : t # s => Held(t)' = Held(t)
  BY ReleaseLists
<1>2. /\ Elements(Pool)' = Elements(Pool) \cup {b}
      /\ Elements(Held(s)) = Elements(Held(s))' \cup {b} /\ b \notin Elements(Held(s))'
      /\ \A t \in Slots : t # s => Elements(Held(t))' = Elements(Held(t))
  BY ReleaseElements
<1>3. /\ Held(s) \in Chains /\ Linked(next, b, Held(s)) /\ b \in Blocks
      /\ Len(Held(s)) \in 1 .. MAX_DELAYED_PACKETS
  BY ListsAre, HeldFacts DEF ListsApart
<1>4. /\ msg' = [msg EXCEPT ![b] = 0] /\ last_packet' = last_packet
      /\ packets' = [packets EXCEPT ![s] = next[b]]
  BY DEF SV_FreeHeadDelayedPacket
<1>5. /\ \A t \in Slots : \A x \in Elements(Held(t)) : msg[x] # 0
      /\ \A t \in Slots : packets[t] # NULL => last_packet[t] = Held(t)[Len(Held(t))]
      /\ \A t \in Slots : Elements(Held(t)) \cap Elements(Pool) = {}
      /\ \A t, u \in Slots : t # u => Elements(Held(t)) \cap Elements(Held(u)) = {}
  BY DEF ListsApart
<1>6. ASSUME NEW t \in Slots PROVE Elements(Held(t))' \cap Elements(Pool)' = {}
  BY <1>2, <1>5
<1>7. ASSUME NEW t \in Slots, NEW u \in Slots, t # u
      PROVE  Elements(Held(t))' \cap Elements(Held(u))' = {}
  BY <1>2, <1>5, <1>7
<1>8. ASSUME NEW t \in Slots, NEW x \in Elements(Held(t))' PROVE msg'[x] # 0
  <2>1. x # b /\ x \in Elements(Held(t))
    BY <1>2, <1>5, <1>8
  <2>2. msg[x] # 0 /\ x \in Blocks
    BY <1>5, <2>1, ListsAre, ChainFacts DEF ListsApart, Elements
  <2> QED BY <1>4, <2>1, <2>2 DEF TypeOK
<1>9. ASSUME NEW t \in Slots, packets'[t] # NULL
      PROVE  last_packet'[t] = (Held(t)')[Len(Held(t)')]
  <2>1. CASE t = s
    <3>1. /\ Tail(Held(s)) \in Chains /\ Linked(next, next[b], Tail(Held(s))) /\ next[b] # NULL
          /\ Len(Tail(Held(s))) = Len(Held(s)) - 1
          /\ \A i \in DOMAIN Tail(Held(s)) : Tail(Held(s))[i] = Held(s)[i + 1]
      BY <1>3, <1>4, <1>9, <2>1, TailFacts DEF TypeOK
    <3>2. Len(Tail(Held(s))) \in DOMAIN Tail(Held(s))
      <4>1. Len(Tail(Held(s))) \in 1 .. MAX_DELAYED_PACKETS
        BY <3>1, Starts
      <4>2. DOMAIN Tail(Held(s)) = 1 .. Len(Tail(Held(s)))
        BY <3>1, ChainFacts
      <4> QED BY <4>1, <4>2, Sizes
    <3>3. Tail(Held(s))[Len(Tail(Held(s)))] = Held(s)[(Len(Held(s)) - 1) + 1]
      BY <3>1, <3>2
    <3>4. (Len(Held(s)) - 1) + 1 = Len(Held(s))
      BY <1>3, Sizes
    <3> QED BY <1>1, <1>4, <1>5, <2>1, <3>3, <3>4
  <2>2. CASE t # s
    BY <1>1, <1>4, <1>5, <1>9, <2>2 DEF TypeOK
  <2> QED BY <2>1, <2>2
<1> QED BY <1>1, <1>6, <1>7, <1>8, <1>9 DEF ListsApart

(* So does a packet that is held, ...                                      *)
LEMMA HoldApart ==
    ASSUME TypeOK, ListsApart, NEW s \in Slots, NEW n, n # 0, free_packets # NULL,
           HoldPacket(s, n)
    PROVE  ListsApart'
<1> DEFINE b == free_packets
<1>1. /\ ListsEnd' /\ Held(s)' = Append(Held(s), b)
      /\ \A t \in Slots : t # s => Held(t)' = Held(t)
  BY HoldLists
<1>2. /\ Elements(Pool) = Elements(Pool)' \cup {b} /\ b \notin Elements(Pool)'
      /\ Elements(Held(s))' = Elements(Held(s)) \cup {b}
      /\ \A t \in Slots : t # s => Elements(Held(t))' = Elements(Held(t))
  BY HoldElements
<1>3. Held(s) \in Seq(Blocks) /\ b \in Blocks
  BY ListsAre, PoolFacts, ChainFacts DEF ListsApart
<1>4. /\ msg' = [msg EXCEPT ![b] = n] /\ last_packet' = [last_packet EXCEPT ![s] = b]
      /\ packets' = [packets EXCEPT ![s] = IF packets[s] = NULL THEN b ELSE packets[s]]
  BY DEF HoldPacket
<1>5. /\ \A t \in Slots : \A x \in Elements(Held(t)) : msg[x] # 0
      /\ \A t \in Slots : packets[t] # NULL => last_packet[t] = Held(t)[Len(Held(t))]
      /\ \A t \in Slots : Elements(Held(t)) \cap Elements(Pool) = {}
      /\ \A t, u \in Slots : t # u => Elements(Held(t)) \cap Elements(Held(u)) = {}
  BY DEF ListsApart
<1>6. ASSUME NEW t \in Slots PROVE Elements(Held(t))' \cap Elements(Pool)' = {}
  BY <1>2, <1>5
<1>7. ASSUME NEW t \in Slots, NEW u \in Slots, t # u
      PROVE  Elements(Held(t))' \cap Elements(Held(u))' = {}
  BY <1>2, <1>5, <1>7
<1>8. ASSUME NEW t \in Slots, NEW x \in Elements(Held(t))' PROVE msg'[x] # 0
  <2>1. CASE x = b
    BY <1>3, <1>4, <2>1 DEF TypeOK
  <2>2. CASE x # b
    <3>1. x \in Elements(Held(t))
      BY <1>2, <1>8, <2>2
    <3>2. msg[x] # 0 /\ x \in Blocks
      BY <1>5, <3>1, ListsAre, ChainFacts DEF ListsApart, Elements
    <3> QED BY <1>4, <2>2, <3>2 DEF TypeOK
  <2> QED BY <2>1, <2>2
<1>9. ASSUME NEW t \in Slots, packets'[t] # NULL
      PROVE  last_packet'[t] = (Held(t)')[Len(Held(t)')]
  <2>1. CASE t = s
    <3>1. Append(Held(s), b)[Len(Append(Held(s), b))] = b
      BY <1>3
    <3> QED BY <1>1, <1>4, <2>1, <3>1 DEF TypeOK
  <2>2. CASE t # s
    BY <1>1, <1>4, <1>5, <1>9, <2>2 DEF TypeOK
  <2> QED BY <2>1, <2>2
<1> QED BY <1>1, <1>6, <1>7, <1>8, <1>9 DEF ListsApart

(* ... and the clearing of slots.                                          *)
LEMMA ClearApart ==
    ASSUME TypeOK, ListsApart, NEW C \in SUBSET Slots,
           packets' = [t \in Slots |-> IF t \in C THEN NULL ELSE packets[t]],
           \A t \in Slots \ C : last_packet'[t] = last_packet[t],
           next' = next, free_packets' = free_packets, msg' = msg
    PROVE  ListsApart'
<1>1. /\ ListsEnd' /\ Pool' = Pool
      /\ \A t \in Slots : Held(t)' = IF t \in C THEN <<>> ELSE Held(t)
  BY ClearLists DEF ListsApart
<1>2. /\ Elements(Pool)' = Elements(Pool)
      /\ \A t \in Slots : Elements(Held(t))' = IF t \in C THEN {} ELSE Elements(Held(t))
  <2>1. Elements(Pool)' = Elements(Pool') /\ \A t \in Slots : Elements(Held(t))' = Elements(Held(t)')
    BY DEF Elements
  <2> QED BY <1>1, <2>1, NoBlocks
<1>3. ASSUME NEW t \in Slots, packets'[t] # NULL
      PROVE  last_packet'[t] = (Held(t)')[Len(Held(t)')]
  <2>1. t \notin C /\ packets[t] # NULL
    BY <1>3
  <2> QED BY <1>1, <2>1 DEF ListsApart
<1> QED BY <1>1, <1>2, <1>3 DEF ListsApart

(* At first all blocks are in the pool, in their order.                    *)
LEMMA ListsInit == Init => ListsApart /\ Len(Pool) = MAX_DELAYED_PACKETS /\ \A s \in Slots : Held(s) = <<>>
<1> SUFFICES ASSUME Init PROVE ListsApart /\ Len(Pool) = MAX_DELAYED_PACKETS /\ \A s \in Slots : Held(s) = <<>>
  OBVIOUS
<1> DEFINE q == [i \in 1 .. MAX_DELAYED_PACKETS |-> i]
<1>1. q \in Seq(Blocks) /\ Injective(q) /\ Len(q) = MAX_DELAYED_PACKETS /\ DOMAIN q = 1 .. Len(q)
  BY Sizes DEF Blocks, Injective
<1>2. q \in Chains
  BY <1>1, ChainMade
<1>3. Linked(next, free_packets, q)
  <2>1. q # <<>> /\ q[1] = 1
    BY <1>1, Sizes, NoLength
  <2>2. ASSUME NEW i \in 1 .. MAX_DELAYED_PACKETS
        PROVE  next[q[i]] = IF i = MAX_DELAYED_PACKETS THEN NULL ELSE q[i + 1]
    <3>1. q[i] = i /\ (i # MAX_DELAYED_PACKETS => i + 1 \in 1 .. MAX_DELAYED_PACKETS)
      BY Sizes
    <3>2. next[i] = IF i = MAX_DELAYED_PACKETS THEN NULL ELSE i + 1
      BY DEF Init, Blocks
    <3> QED BY <3>1, <3>2
  <2> HIDE DEF q
  <2>3. free_packets = 1
    BY DEF Init
  <2> QED BY <1>1, <2>1, <2>2, <2>3 DEF Linked
<1> HIDE DEF q
<1>4. \A s \in Slots : packets[s] = NULL
  BY DEF Init
<1>5. <<>> \in Chains /\ Linked(next, NULL, <<>>)
  BY NoBlocks
<1>6. ListsEnd
  BY <1>2, <1>3, <1>4, <1>5 DEF ListsEnd
<1>7. Pool = q
  BY <1>2, <1>3, ListIs DEF Pool
<1>8. \A s \in Slots : Held(s) = <<>>
  BY <1>4, <1>6, TypeInit, HeldFacts
<1>9. \A s \in Slots : Elements(Held(s)) = {}
  BY <1>8, NoBlocks
<1> QED BY <1>1, <1>4, <1>6, <1>7, <1>8, <1>9 DEF ListsApart

(* The steps that touch no list.                                           *)
LEMMA SameLists ==
    ASSUME TypeOK, ListsApart, UNCHANGED <<packets, last_packet, free_packets, next, msg>>
    PROVE  ListsApart' /\ Pool' = Pool /\ \A s \in Slots : Held(s)' = Held(s)
<1>1. PICK C \in SUBSET Slots : C = {}
  OBVIOUS
<1>2. /\ packets' = [t \in Slots |-> IF t \in C THEN NULL ELSE packets[t]]
      /\ \A t \in Slots \ C : last_packet'[t] = last_packet[t]
      /\ next' = next /\ free_packets' = free_packets /\ msg' = msg
  BY <1>1 DEF TypeOK
<1>3. ListsApart'
  BY <1>2, ClearApart
<1> QED BY <1>3 DEF Pool, Held

(* A shutdown clears every slot, ...                                       *)
LEMMA ShutdownClears ==
    ASSUME TypeOK, ListsApart, SV_Shutdown
    PROVE  ListsApart' /\ Pool' = Pool /\ \A s \in Slots : Held(s)' = <<>>
<1>1. /\ packets' = [t \in Slots |-> IF t \in Slots THEN NULL ELSE packets[t]]
      /\ next' = next /\ free_packets' = free_packets /\ msg' = msg
  BY DEF SV_Shutdown
<1>2. ListsApart'
  BY <1>1, ClearApart
<1>3. Pool' = Pool /\ \A s \in Slots : Held(s)' = IF s \in Slots THEN <<>> ELSE Held(s)
  BY <1>1, ClearLists DEF ListsApart
<1> QED BY <1>2, <1>3

(* ... and a connect the slot it takes.                                    *)
LEMMA ConnectClears ==
    ASSUME TypeOK, ListsApart, NEW new \in Slots,
           packets' = [packets EXCEPT ![new] = NULL],
           last_packet' = [last_packet EXCEPT ![new] = NULL],
           UNCHANGED <<free_packets, next, msg, age>>
    PROVE  ListsApart' /\ Pool' = Pool /\ \A s \in Slots : Held(s)' = IF s = new THEN <<>> ELSE Held(s)
<1>1. /\ packets' = [t \in Slots |-> IF t \in {new} THEN NULL ELSE packets[t]]
      /\ \A t \in Slots \ {new} : last_packet'[t] = last_packet[t]
      /\ next' = next /\ free_packets' = free_packets /\ msg' = msg
  BY DEF TypeOK
<1>2. ListsApart'
  BY <1>1, ClearApart
<1>3. Pool' = Pool /\ \A s \in Slots : Held(s)' = IF s \in {new} THEN <<>> ELSE Held(s)
  BY <1>1, ClearLists DEF ListsApart
<1> QED BY <1>2, <1>3

(* Every step keeps the lists apart.                                       *)
LEMMA ListsStep == ListsInv /\ [Next]_vars => ListsApart'
<1> SUFFICES ASSUME ListsInv, [Next]_vars PROVE ListsApart'
  OBVIOUS
<1> USE DEF ListsInv
<1>1. ASSUME NEW k \in Kinds, NEW a \in Addresses, Arrive(k, a) PROVE ListsApart'
  BY <1>1, SameLists DEF Arrive, lists
<1>2. ASSUME NEW freed \in SUBSET Slots, SV_Frame(freed) PROVE ListsApart'
  BY <1>2, SameLists DEF SV_Frame
<1>3. CASE SV_Shutdown
  BY <1>3, ShutdownClears
<1>4. CASE ReleaseDelayed
  BY <1>4, ReleaseApart DEF ReleaseDelayed, Ripe, TypeOK
<1>5. CASE NextDelayed
  BY <1>5, SameLists DEF NextDelayed, lists
<1>6. CASE ReadConnect
  <2>1. PICK a, n : SVC_DirectConnect(a, n)
    BY <1>6 DEF ReadConnect
  <2>2. CASE UNCHANGED <<slots, lists>>
    BY <2>2, SameLists DEF lists
  <2>3. CASE ~UNCHANGED <<slots, lists>>
    BY <2>1, <2>3, ConnectCases, ConnectClears
  <2> QED BY <2>2, <2>3
<1>7. CASE ReadData
  <2> DEFINE of == Matching(Head(socket).from)
             s == First(of)
             n == Head(socket).n
  <2>1. CASE UNCHANGED lists
    BY <2>1, SameLists DEF lists
  <2>2. CASE ~UNCHANGED lists
    <3>1. of # {} /\ free_packets # NULL /\ HoldPacket(s, n)
      BY <1>7, <2>2 DEF ReadData
    <3>2. s \in Slots
      BY <3>1, FirstFacts DEF Matching
    <3>3. n # 0
      BY <1>7, TypeRead DEF ReadData
    <3> QED BY <3>1, <3>2, <3>3, HoldApart
  <2> QED BY <2>1, <2>2
<1>8. CASE SocketEmpty
  BY <1>8, SameLists DEF SocketEmpty, lists
<1>9. CASE UNCHANGED vars
  BY <1>9, SameLists DEF vars, lists
<1> QED BY <1>1, <1>2, <1>3, <1>4, <1>5, <1>6, <1>7, <1>8, <1>9 DEF Next

(* The lists always end and stay apart: whatever the clients, the frames   *)
(* and the shutdowns do, no block is ever in two lists or twice in one,    *)
(* and last_packet is the end of its list.                                 *)
THEOREM ListsCorrect == Spec => []ListsInv
<1>1. Init => ListsInv
  BY TypeInit, ListsInit DEF ListsInv
<1>2. ListsInv /\ [Next]_vars => ListsInv'
  BY TypeStep, ListsStep DEF ListsInv
<1> QED BY <1>1, <1>2, PTL DEF Spec

-----------------------------------------------------------------------------
(* What waits for a slot *)

(* It is a sequence of numbers of packets.                                 *)
LEMMA WaitingFacts ==
    ASSUME TypeOK, ListsApart, NEW s \in Slots
    PROVE  /\ Waiting(s) \in Seq(1 .. MaxArrivals)
           /\ Len(Waiting(s)) = Len(Held(s)) /\ Len(Waiting(s)) \in Nat
           /\ DOMAIN Waiting(s) = 1 .. Len(Waiting(s))
           /\ packets[s] = NULL <=> Waiting(s) = <<>>
           /\ packets[s] # NULL => msg[packets[s]] = Head(Waiting(s))
<1>1. /\ Held(s) \in Seq(Blocks) /\ DOMAIN Held(s) = 1 .. Len(Held(s)) /\ Len(Held(s)) \in Nat
  BY ListsAre, ChainFacts, Sizes DEF ListsApart
<1>2. ASSUME NEW i \in DOMAIN Held(s) PROVE msg[Held(s)[i]] \in 1 .. MaxArrivals
  <2>1. Held(s)[i] \in Blocks /\ msg[Held(s)[i]] # 0
    BY <1>1 DEF ListsApart, Elements
  <2> QED BY <2>1, Sizes DEF TypeOK
<1>3. Waiting(s) \in [1 .. Len(Held(s)) -> 1 .. MaxArrivals]
  BY <1>1, <1>2 DEF Waiting
<1>4. Waiting(s) \in Seq(1 .. MaxArrivals) /\ Len(Waiting(s)) = Len(Held(s))
  BY <1>1, <1>3, AsSequence
<1>5. packets[s] = NULL <=> Waiting(s) = <<>>
  BY <1>1, <1>4, HeldFacts, NoLength DEF ListsApart
<1>6. packets[s] # NULL => msg[packets[s]] = Head(Waiting(s))
  <2>1. packets[s] # NULL => 1 \in DOMAIN Held(s) /\ packets[s] = Held(s)[1]
    BY <1>1, HeldFacts DEF ListsApart
  <2>2. packets[s] # NULL => Waiting(s)[1] = msg[packets[s]]
    BY <2>1 DEF Waiting
  <2> QED BY <1>4, <1>5, <2>2
<1> QED BY <1>1, <1>3, <1>4, <1>5, <1>6

(* A list that is the same, of packets that are the same.                  *)
LEMMA WaitingSame ==
    ASSUME NEW s \in Slots, Held(s)' = Held(s), \A b \in Elements(Held(s)) : msg'[b] = msg[b]
    PROVE  Waiting(s)' = Waiting(s)
<1>1. Waiting(s)' = [i \in DOMAIN Held(s) |-> msg'[Held(s)[i]]]
  BY DEF Waiting
<1>2. \A i \in DOMAIN Held(s) : msg'[Held(s)[i]] = msg[Held(s)[i]]
  BY DEF Elements
<1> QED BY <1>1, <1>2 DEF Waiting

(* A release takes the oldest, ...                                         *)
LEMMA ReleaseWaiting ==
    ASSUME TypeOK, ListsApart, NEW s \in Slots, packets[s] # NULL, SV_FreeHeadDelayedPacket(s)
    PROVE  /\ Waiting(s) # <<>> /\ msg[packets[s]] = Head(Waiting(s))
           /\ Waiting(s)' = Tail(Waiting(s))
           /\ \A t \in Slots : t # s => Waiting(t)' = Waiting(t)
           /\ Len(Pool') = Len(Pool) + 1
<1> DEFINE b == packets[s]
<1>1. /\ Held(s)' = Tail(Held(s)) /\ Pool' = <<b>> \o Pool
      /\ \A t \in Slots : t # s => Held(t)' = Held(t)
  BY ReleaseLists
<1>2. /\ Pool \in Seq(Blocks) /\ b \in Blocks /\ b \in Elements(Held(s))
      /\ Held(s) \in Seq(Blocks) /\ Held(s) \in Chains /\ Linked(next, b, Held(s))
      /\ \A t \in Slots : Elements(Held(t)) \subseteq Blocks
  BY ListsAre, HeldFacts, ChainFacts DEF ListsApart, Elements
<1>3. \A x \in Blocks : x # b => msg'[x] = msg[x]
  BY <1>2 DEF SV_FreeHeadDelayedPacket, TypeOK
<1>4. ASSUME NEW t \in Slots, t # s PROVE Waiting(t)' = Waiting(t)
  <2>1. b \notin Elements(Held(t))
    BY <1>2, <1>4 DEF ListsApart
  <2> QED BY <1>1, <1>2, <1>3, <1>4, <2>1, WaitingSame
<1>5. Waiting(s)' = Tail(Waiting(s))
  <2>1. PICK n \in Nat : n = Len(Held(s)) /\ n # 0 /\ Len(Waiting(s)) = n
    BY HeldFacts, WaitingFacts, Sizes DEF ListsApart
  <2>2. /\ Tail(Held(s)) \in Seq(Blocks) /\ Len(Tail(Held(s))) = n - 1
        /\ DOMAIN Tail(Held(s)) = 1 .. (n - 1) /\ b \notin Elements(Tail(Held(s)))
        /\ \A i \in 1 .. (n - 1) : i + 1 \in DOMAIN Held(s) /\ Tail(Held(s))[i] = Held(s)[i + 1]
    BY <1>2, <2>1, TailFacts, ChainFacts
  <2>3. Waiting(s)' = [i \in 1 .. (n - 1) |-> msg'[Tail(Held(s))[i]]]
    BY <1>1, <2>2 DEF Waiting
  <2>4. ASSUME NEW i \in 1 .. (n - 1) PROVE msg'[Tail(Held(s))[i]] = Waiting(s)[i + 1]
    <3>1. Tail(Held(s))[i] # b /\ Tail(Held(s))[i] \in Blocks
      <4>1. Tail(Held(s))[i] \in Elements(Tail(Held(s)))
        BY <2>2 DEF Elements
      <4> QED BY <1>2, <2>2, <4>1 DEF Elements
    <3>2. msg'[Tail(Held(s))[i]] = msg[Held(s)[i + 1]]
      BY <1>3, <2>2, <3>1
    <3> QED BY <2>2, <3>2 DEF Waiting
  <2>5. /\ Waiting(s)' \in Seq(1 .. MaxArrivals) /\ Len(Waiting(s)') = n - 1
        /\ \A i \in 1 .. (n - 1) : (Waiting(s)')[i] = Waiting(s)[i + 1]
    <3>1. Waiting(s) \in [1 .. n -> 1 .. MaxArrivals]
      BY <2>1, WaitingFacts, LenProperties
    <3>2. Waiting(s)' = [i \in 1 .. (n - 1) |-> Waiting(s)[i + 1]]
      BY <2>3, <2>4
    <3>3. Waiting(s)' \in [1 .. (n - 1) -> 1 .. MaxArrivals] /\ n - 1 \in Nat
      BY <2>1, <3>1, <3>2
    <3> QED BY <3>2, <3>3, AsSequence
  <2>6. /\ Tail(Waiting(s)) \in Seq(1 .. MaxArrivals) /\ Len(Tail(Waiting(s))) = n - 1
        /\ \A i \in 1 .. (n - 1) : Tail(Waiting(s))[i] = Waiting(s)[i + 1]
    BY <2>1, WaitingFacts, HeadTailProperties
  <2> QED BY <2>5, <2>6, SeqEqual
<1>6. Len(Pool') = Len(Pool) + 1
  BY <1>1, <1>2
<1> QED BY <1>4, <1>5, <1>6, WaitingFacts

(* ... and a packet that is held is the last.                              *)
LEMMA HoldWaiting ==
    ASSUME TypeOK, ListsApart, NEW s \in Slots, NEW n \in 1 .. MaxArrivals,
           free_packets # NULL, HoldPacket(s, n)
    PROVE  /\ Waiting(s)' = Append(Waiting(s), n)
           /\ \A t \in Slots : t # s => Waiting(t)' = Waiting(t)
           /\ Len(Pool) \in Nat \ {0} /\ Len(Pool') = Len(Pool) - 1
<1> DEFINE b == free_packets
<1>1. /\ Held(s)' = Append(Held(s), b) /\ Pool' = Tail(Pool)
      /\ \A t \in Slots : t # s => Held(t)' = Held(t)
  BY HoldLists
<1>2. /\ Pool \in Chains /\ Linked(next, b, Pool) /\ b \in Blocks /\ b \in Elements(Pool)
      /\ Held(s) \in Seq(Blocks) /\ Len(Pool) \in 1 .. MAX_DELAYED_PACKETS
      /\ \A t \in Slots : Elements(Held(t)) \subseteq Blocks
  BY ListsAre, PoolFacts, ChainFacts DEF ListsApart, Elements
<1>3. msg'[b] = n /\ \A x \in Blocks : x # b => msg'[x] = msg[x]
  BY <1>2 DEF HoldPacket, TypeOK
<1>4. \A t \in Slots : b \notin Elements(Held(t))
  BY <1>2 DEF ListsApart
<1>5. ASSUME NEW t \in Slots, t # s PROVE Waiting(t)' = Waiting(t)
  BY <1>1, <1>2, <1>3, <1>4, <1>5, WaitingSame
<1>6. Waiting(s)' = Append(Waiting(s), n)
  <2>1. PICK m \in Nat : m = Len(Held(s)) /\ Len(Waiting(s)) = m /\ DOMAIN Held(s) = 1 .. m
    BY <1>2, WaitingFacts
  <2>2. /\ DOMAIN Append(Held(s), b) = 1 .. (m + 1) /\ Append(Held(s), b)[m + 1] = b
        /\ \A i \in 1 .. m : Append(Held(s), b)[i] = Held(s)[i]
    BY <1>2, <2>1
  <2>3. Waiting(s)' = [i \in 1 .. (m + 1) |-> msg'[Append(Held(s), b)[i]]]
    BY <1>1, <2>2 DEF Waiting
  <2>4. ASSUME NEW i \in 1 .. (m + 1)
        PROVE  msg'[Append(Held(s), b)[i]] = IF i = m + 1 THEN n ELSE Waiting(s)[i]
    <3>1. CASE i = m + 1
      BY <1>3, <2>2, <3>1
    <3>2. CASE i # m + 1
      <4>1. i \in 1 .. m
        BY <3>2
      <4>2. Held(s)[i] \in Blocks /\ Held(s)[i] # b
        BY <1>2, <1>4, <2>1, <4>1 DEF Elements
      <4>3. msg'[Held(s)[i]] = msg[Held(s)[i]]
        BY <1>3, <4>2
      <4> QED BY <2>1, <2>2, <3>2, <4>1, <4>3 DEF Waiting
    <3> QED BY <3>1, <3>2
  <2>5. /\ Waiting(s) \in [1 .. m -> 1 .. MaxArrivals] /\ Waiting(s) \in Seq(1 .. MaxArrivals)
    BY <2>1, WaitingFacts, LenProperties
  <2>6. /\ Waiting(s)' \in Seq(1 .. MaxArrivals) /\ Len(Waiting(s)') = m + 1
        /\ \A i \in 1 .. (m + 1) : (Waiting(s)')[i] = IF i = m + 1 THEN n ELSE Waiting(s)[i]
    <3>1. Waiting(s)' = [i \in 1 .. (m + 1) |-> IF i = m + 1 THEN n ELSE Waiting(s)[i]]
      BY <2>3, <2>4
    <3>2. Waiting(s)' \in [1 .. (m + 1) -> 1 .. MaxArrivals] /\ m + 1 \in Nat
      BY <2>5, <3>1
    <3> QED BY <3>1, <3>2, AsSequence
  <2>7. /\ Append(Waiting(s), n) \in Seq(1 .. MaxArrivals) /\ Len(Append(Waiting(s), n)) = m + 1
        /\ \A i \in 1 .. m : Append(Waiting(s), n)[i] = Waiting(s)[i]
        /\ Append(Waiting(s), n)[m + 1] = n
    BY <2>1, <2>5, AppendProperties
  <2>8. \A i \in 1 .. (m + 1) : i = m + 1 \/ (i \in 1 .. m /\ i # m + 1)
    OBVIOUS
  <2> QED BY <2>6, <2>7, <2>8, SeqEqual
<1>7. Len(Pool') = Len(Pool) - 1
  BY <1>1, <1>2, TailFacts DEF NULL
<1> QED BY <1>2, <1>5, <1>6, <1>7

-----------------------------------------------------------------------------
(* Packets in order *)

(* The datagrams of a socket come in the order of their numbers.           *)
Increasing(r) == \A i, j \in DOMAIN r : i < j => r[i].n < r[j].n

(* A datagram has a number.                                                *)
LEMMA DatagramNumber == \A d \in Datagrams : d.n \in 1 .. MaxArrivals /\ d.n \in Nat
BY Sizes DEF Datagrams

(* Reading a datagram leaves the others in order.                          *)
LEMMA OrderedRead ==
    ASSUME NEW e \in Nat, NEW q \in Seq(Nat), NEW r \in Seq(Datagrams), r # <<>>, Increasing(r)
    PROVE  /\ Increasing(Tail(r))
           /\ Ordered(e, q, r) => Ordered(e, q, Tail(r))
           /\ Ordered(Head(r).n, <<>>, Tail(r))
           /\ Ordered(e, q, r) => Ordered(e, Append(q, Head(r).n), Tail(r))
<1>1. PICK n \in Nat : n = Len(r) /\ n # 0 /\ DOMAIN r = 1 .. n
  BY LenProperties, NoLength
<1>2. PICK m \in Nat : m = Len(q) /\ DOMAIN q = 1 .. m
  BY LenProperties
<1> DEFINE x == Head(r).n
           rest == Tail(r)
           longer == Append(q, x)
<1>3. /\ DOMAIN rest = 1 .. (n - 1)
      /\ \A i \in 1 .. (n - 1) : rest[i] = r[i + 1] /\ i + 1 \in 1 .. n
  <2>1. /\ rest \in Seq(Datagrams) /\ Len(rest) = n - 1
        /\ \A i \in 1 .. Len(rest) : rest[i] = r[i + 1]
    BY <1>1, HeadTailProperties
  <2> QED BY <2>1, <1>1, LenProperties
<1>4. x = r[1].n /\ x \in Nat /\ 1 \in 1 .. n
  BY <1>1, DatagramNumber
<1>5. \A i \in 1 .. n : r[i].n \in Nat
  BY <1>1, DatagramNumber
<1>6. \A i \in 1 .. m : q[i] \in Nat
  BY <1>2
<1>7. /\ DOMAIN longer = 1 .. (m + 1) /\ longer[m + 1] = x /\ \A i \in 1 .. m : longer[i] = q[i]
  <2>1. /\ longer \in Seq(Nat) /\ Len(longer) = m + 1 /\ longer[m + 1] = x
        /\ \A i \in 1 .. m : longer[i] = q[i]
    BY <1>2, <1>4, AppendProperties
  <2> QED BY <2>1, LenProperties
<1>8. \A i, j \in 1 .. n : i < j => r[i].n < r[j].n
  BY <1>1 DEF Increasing
<1> HIDE DEF x, rest, longer
<1>9. \A k \in 1 .. (n - 1) : rest[k].n = r[k + 1].n /\ x < rest[k].n /\ rest[k].n \in Nat
  <2> TAKE k \in 1 .. (n - 1)
  <2>1. k + 1 \in 1 .. n /\ 1 < k + 1
    BY <1>3
  <2> QED BY <1>3, <1>4, <1>5, <1>8, <2>1
<1>10. Increasing(rest)
  <2>1. ASSUME NEW i \in 1 .. (n - 1), NEW j \in 1 .. (n - 1), i < j PROVE rest[i].n < rest[j].n
    <3>1. i + 1 \in 1 .. n /\ j + 1 \in 1 .. n /\ i + 1 < j + 1
      BY <2>1
    <3> QED BY <1>3, <1>8, <3>1
  <2> QED BY <1>3, <2>1 DEF Increasing
<1>11. ASSUME Ordered(e, q, r) PROVE Ordered(e, q, rest)
  <2>1. \A k \in 1 .. (n - 1) : e < rest[k].n /\ \A i \in 1 .. m : q[i] < rest[k].n
    BY <1>1, <1>2, <1>3, <1>11 DEF Ordered
  <2> QED BY <1>2, <1>3, <1>11, <2>1 DEF Ordered
<1>12. Ordered(x, <<>>, rest)
  BY <1>3, <1>9 DEF Ordered
<1>13. ASSUME Ordered(e, q, r) PROVE Ordered(e, longer, rest)
  <2>1. e < x /\ \A i \in 1 .. m : e < q[i] /\ q[i] < x
    BY <1>1, <1>2, <1>4, <1>13 DEF Ordered
  <2>2. \A i, j \in 1 .. m : i < j => q[i] < q[j]
    BY <1>2, <1>13 DEF Ordered
  <2>3. \A k \in 1 .. (n - 1) : e < rest[k].n /\ \A i \in 1 .. m : q[i] < rest[k].n
    BY <1>1, <1>2, <1>3, <1>13 DEF Ordered
  <2>4. \A i \in 1 .. (m + 1) : i = m + 1 \/ i \in 1 .. m
    OBVIOUS
  <2>5. \A i \in 1 .. (m + 1) : e < longer[i]
    BY <1>7, <2>1, <2>4
  <2>6. ASSUME NEW i \in 1 .. (m + 1), NEW j \in 1 .. (m + 1), i < j PROVE longer[i] < longer[j]
    <3>1. i \in 1 .. m
      BY <2>6
    <3>2. CASE j = m + 1
      BY <1>7, <2>1, <3>1, <3>2
    <3>3. CASE j \in 1 .. m
      BY <1>7, <2>2, <2>6, <3>1, <3>3
    <3> QED BY <2>4, <3>2, <3>3
  <2>7. \A k \in 1 .. (n - 1) : e < rest[k].n /\ \A i \in 1 .. (m + 1) : longer[i] < rest[k].n
    BY <1>7, <1>9, <2>3, <2>4
  <2> QED BY <1>3, <1>7, <2>5, <2>6, <2>7 DEF Ordered
<1> QED BY <1>10, <1>11, <1>12, <1>13 DEF x, rest, longer

(* Executing the oldest packet that waits leaves the rest in order.        *)
LEMMA OrderedRelease ==
    ASSUME NEW e \in Nat, NEW q \in Seq(Nat), q # <<>>, NEW r \in Seq(Datagrams), Ordered(e, q, r)
    PROVE  Ordered(Head(q), Tail(q), r) /\ e < Head(q)
<1>1. PICK n \in Nat : n = Len(q) /\ n # 0 /\ DOMAIN q = 1 .. n
  BY LenProperties, NoLength
<1>2. /\ DOMAIN Tail(q) = 1 .. (n - 1)
      /\ \A i \in 1 .. (n - 1) : Tail(q)[i] = q[i + 1] /\ i + 1 \in 1 .. n /\ 1 < i + 1
  <2>1. /\ Tail(q) \in Seq(Nat) /\ Len(Tail(q)) = n - 1
        /\ \A i \in 1 .. Len(Tail(q)) : Tail(q)[i] = q[i + 1]
    BY <1>1, HeadTailProperties
  <2> QED BY <2>1, <1>1, LenProperties
<1>3. Head(q) = q[1] /\ 1 \in 1 .. n
  BY <1>1
<1>4. \A i, j \in 1 .. n : i < j => q[i] < q[j]
  BY <1>1 DEF Ordered
<1>5. \A i \in 1 .. (n - 1) : Head(q) < Tail(q)[i]
  BY <1>2, <1>3, <1>4
<1>6. ASSUME NEW i \in 1 .. (n - 1), NEW j \in 1 .. (n - 1), i < j PROVE Tail(q)[i] < Tail(q)[j]
  <2>1. i + 1 \in 1 .. n /\ j + 1 \in 1 .. n /\ i + 1 < j + 1
    BY <1>6
  <2> QED BY <1>2, <1>4, <2>1
<1>7. \A k \in DOMAIN r : Head(q) < r[k].n /\ \A i \in 1 .. (n - 1) : Tail(q)[i] < r[k].n
  BY <1>1, <1>2, <1>3 DEF Ordered
<1>8. e < Head(q)
  BY <1>1, <1>3 DEF Ordered
<1> QED BY <1>2, <1>5, <1>6, <1>7, <1>8 DEF Ordered

(* A datagram with a number of its own comes behind all others.            *)
LEMMA OrderedArrive ==
    ASSUME NEW e \in Nat, NEW q \in Seq(Nat), NEW r \in Seq(Datagrams), NEW d \in Datagrams,
           NEW N \in Nat, d.n = N + 1, \A k \in DOMAIN r : r[k].n <= N
    PROVE  /\ Increasing(r) => Increasing(Append(r, d))
           /\ \A k \in DOMAIN Append(r, d) : Append(r, d)[k].n <= N + 1
           /\ Ordered(e, q, r) /\ e <= N /\ (\A i \in DOMAIN q : q[i] <= N)
                 => Ordered(e, q, Append(r, d))
<1> DEFINE longer == Append(r, d)
<1>1. PICK n \in Nat : n = Len(r) /\ DOMAIN r = 1 .. n
  BY LenProperties
<1>2. DOMAIN longer = 1 .. (n + 1) /\ longer[n + 1] = d /\ \A i \in 1 .. n : longer[i] = r[i]
  <2>1. /\ longer \in Seq(Datagrams) /\ Len(longer) = n + 1 /\ longer[n + 1] = d
        /\ \A i \in 1 .. n : longer[i] = r[i]
    BY <1>1, AppendProperties
  <2> QED BY <2>1, LenProperties
<1> HIDE DEF longer
<1>3. \A i \in 1 .. (n + 1) : i = n + 1 \/ i \in 1 .. n
  OBVIOUS
<1>4. \A i \in 1 .. n : r[i].n \in Nat /\ r[i].n < N + 1
  BY <1>1, DatagramNumber
<1>5. ASSUME Increasing(r) PROVE Increasing(longer)
  <2>1. \A i, j \in 1 .. n : i < j => r[i].n < r[j].n
    BY <1>1, <1>5 DEF Increasing
  <2>2. ASSUME NEW i \in 1 .. (n + 1), NEW j \in 1 .. (n + 1), i < j PROVE longer[i].n < longer[j].n
    <3>1. i \in 1 .. n
      BY <2>2
    <3> QED BY <1>2, <1>3, <1>4, <2>1, <2>2, <3>1
  <2> QED BY <1>2, <2>2 DEF Increasing
<1>6. \A k \in 1 .. (n + 1) : longer[k].n <= N + 1
  BY <1>2, <1>3, <1>4
<1>7. ASSUME Ordered(e, q, r), e <= N, \A i \in DOMAIN q : q[i] <= N PROVE Ordered(e, q, longer)
  <2>1. \A i \in DOMAIN q : q[i] \in Nat
    OBVIOUS
  <2>2. e < N + 1 /\ \A i \in DOMAIN q : q[i] < N + 1
    BY <1>7, <2>1
  <2>3. \A k \in 1 .. (n + 1) : e < longer[k].n /\ \A i \in DOMAIN q : q[i] < longer[k].n
    BY <1>1, <1>2, <1>3, <1>7, <2>2 DEF Ordered
  <2> QED BY <1>2, <1>7, <2>3 DEF Ordered
<1> QED BY <1>2, <1>5, <1>6, <1>7 DEF longer

(* No packet has a number yet that is not given out, ...                   *)
Numbered ==
    /\ Increasing(socket)
    /\ \A k \in DOMAIN socket : socket[k].n <= arrived
    /\ \A s \in Slots : state[s] # "cs_free" =>
          executed[s] <= arrived /\ \A i \in DOMAIN Waiting(s) : Waiting(s)[i] <= arrived

(* ... and a slot the first loop has passed by has a delay if packets      *)
(* still wait for it: none from the socket is executed before them.        *)
OnlyDelayedWait ==
    \A s \in Slots : (pc = "new" \/ (pc = "delayed" /\ s < cl)) /\ Holding(s) => delay[s] > 0

OrderInv == ListsInv /\ InArrivalOrder /\ Numbered /\ OnlyDelayedWait

(* The numbers a slot knows.                                               *)
LEMMA OrderFacts ==
    ASSUME ListsInv
    PROVE  /\ socket \in Seq(Datagrams) /\ arrived \in Nat
           /\ \A s \in Slots : executed[s] \in Nat /\ Waiting(s) \in Seq(Nat)
<1>1. ASSUME NEW s \in Slots PROVE Waiting(s) \in Seq(Nat)
  <2>1. Waiting(s) \in Seq(1 .. MaxArrivals)
    BY WaitingFacts DEF ListsInv
  <2>2. Len(Waiting(s)) \in Nat /\ Waiting(s) \in [1 .. Len(Waiting(s)) -> Nat]
    BY <2>1, Sizes, LenProperties
  <2> QED BY <2>2, AsSequence
<1> QED BY <1>1, Sizes DEF ListsInv, TypeOK

(* A slot whose packets, state, delay and last packet are the same keeps   *)
(* what it had.                                                            *)
LEMMA OrderSame ==
    ASSUME OrderInv, ListsApart',
           socket' = socket, arrived' = arrived,
           \A s \in Slots : state'[s] # "cs_free" =>
              /\ state[s] # "cs_free" /\ executed'[s] = executed[s]
              /\ Waiting(s)' = Waiting(s)
    PROVE  InArrivalOrder' /\ Numbered'
<1>1. InArrivalOrder'
  BY DEF OrderInv, InArrivalOrder, Ordered
<1>2. Increasing(socket)' /\ \A k \in DOMAIN socket' : socket'[k].n <= arrived'
  BY DEF OrderInv, Numbered, Increasing
<1>3. ASSUME NEW s \in Slots, state'[s] # "cs_free"
      PROVE  executed'[s] <= arrived' /\ \A i \in DOMAIN Waiting(s)' : (Waiting(s)')[i] <= arrived'
  BY <1>3 DEF OrderInv, Numbered
<1> QED BY <1>1, <1>2, <1>3 DEF Numbered

(* The slots of a step that touches no list.                               *)
LEMMA WaitingKept ==
    ASSUME TypeOK, ListsApart, UNCHANGED <<packets, last_packet, free_packets, next, msg>>
    PROVE  ListsApart' /\ Len(Pool') = Len(Pool) /\ \A s \in Slots : Waiting(s)' = Waiting(s)
BY SameLists, WaitingSame

(* The slots of a connect: the new one waits for nothing.                  *)
LEMMA ConnectWaiting ==
    ASSUME TypeOK, ListsApart, NEW new \in Slots,
           packets' = [packets EXCEPT ![new] = NULL],
           last_packet' = [last_packet EXCEPT ![new] = NULL],
           UNCHANGED <<free_packets, next, msg, age>>
    PROVE  /\ Waiting(new)' = <<>> /\ Len(Pool') = Len(Pool)
           /\ \A s \in Slots : s # new => Waiting(s)' = Waiting(s)
<1>1. Pool' = Pool /\ \A s \in Slots : Held(s)' = IF s = new THEN <<>> ELSE Held(s)
  BY ConnectClears
<1>2. Waiting(new)' = <<>>
  <2>1. Held(new)' = <<>>
    BY <1>1
  <2>2. Waiting(new)' = [i \in DOMAIN (Held(new)') |-> msg'[(Held(new)')[i]]]
    BY DEF Waiting
  <2>3. DOMAIN Waiting(new)' = {}
    BY <2>1, <2>2
  <2> QED BY <2>1, <2>2
<1>3. ASSUME NEW s \in Slots, s # new PROVE Waiting(s)' = Waiting(s)
  BY <1>1, <1>3, WaitingSame
<1> QED BY <1>1, <1>2, <1>3

(* The packets stay in order when one is read, whatever comes of it.       *)
LEMMA OrderRead ==
    ASSUME OrderInv, socket # <<>>, socket' = Tail(socket), arrived' = arrived,
           \A s \in Slots : state'[s] # "cs_free" =>
              \/ /\ state[s] # "cs_free" /\ executed'[s] = executed[s]
                 /\ \/ Waiting(s)' = Waiting(s)
                    \/ Waiting(s)' = Append(Waiting(s), Head(socket).n)
              \/ executed'[s] = Head(socket).n /\ Waiting(s)' = <<>>
    PROVE  InArrivalOrder' /\ Numbered'
<1> DEFINE n == Head(socket).n
<1>1. /\ socket \in Seq(Datagrams) /\ arrived \in Nat
      /\ \A s \in Slots : executed[s] \in Nat /\ Waiting(s) \in Seq(Nat)
  BY OrderFacts DEF OrderInv
<1>2. /\ Increasing(socket) /\ n \in Nat /\ n <= arrived
      /\ \A k \in DOMAIN socket' : socket'[k].n <= arrived'
  <2>1. Head(socket) = socket[1] /\ 1 \in DOMAIN socket
    BY <1>1, TypeRead DEF OrderInv, ListsInv
  <2> QED BY <1>1, <2>1, TypeRead, DatagramNumber DEF OrderInv, ListsInv, Numbered
<1>3. Increasing(socket)'
  <2>1. Increasing(Tail(socket))
    BY <1>1, <1>2, EmptySeq, OrderedRead
  <2> QED BY <2>1 DEF Increasing
<1>4. ASSUME NEW s \in Slots, state'[s] # "cs_free"
      PROVE  /\ Ordered(executed'[s], Waiting(s)', socket')
             /\ executed'[s] <= arrived /\ \A i \in DOMAIN Waiting(s)' : (Waiting(s)')[i] <= arrived
  <2>1. CASE executed'[s] = n /\ Waiting(s)' = <<>>
    BY <1>1, <1>2, <2>1, OrderedRead
  <2>2. CASE /\ state[s] # "cs_free" /\ executed'[s] = executed[s]
             /\ Waiting(s)' = Waiting(s)
    BY <1>1, <1>2, <2>2, OrderedRead DEF OrderInv, InArrivalOrder, Numbered
  <2>3. CASE /\ state[s] # "cs_free" /\ executed'[s] = executed[s]
             /\ Waiting(s)' = Append(Waiting(s), n)
    <3>1. Ordered(executed[s], Append(Waiting(s), n), Tail(socket))
      BY <1>1, <1>2, <2>3, OrderedRead DEF OrderInv, InArrivalOrder
    <3>2. executed[s] <= arrived /\ \A i \in DOMAIN Waiting(s) : Waiting(s)[i] <= arrived
      BY <2>3 DEF OrderInv, Numbered
    <3>3. ASSUME NEW i \in DOMAIN Append(Waiting(s), n) PROVE Append(Waiting(s), n)[i] <= arrived
      <4>1. PICK m \in Nat : m = Len(Waiting(s)) /\ DOMAIN Waiting(s) = 1 .. m
        BY <1>1, LenProperties
      <4>2. i \in 1 .. (m + 1) /\ (i = m + 1 \/ i \in 1 .. m)
        BY <1>1, <1>2, <3>3, <4>1, AppendProperties, LenProperties
      <4> QED BY <1>1, <1>2, <3>2, <4>1, <4>2, AppendProperties
    <3> QED BY <2>3, <3>1, <3>2, <3>3
  <2> QED BY <1>4, <2>1, <2>2, <2>3
<1> QED BY <1>2, <1>3, <1>4 DEF InArrivalOrder, Numbered

(* Where a datagram of a client goes.                                      *)
LEMMA DataCases ==
    ASSUME ListsInv, ReadData
    PROVE  \/ UNCHANGED <<lists, slots, paused>>
           \/ \E s \in Slots :
                 /\ state[s] # "cs_free" /\ pc' = pc
                 /\ \/ /\ delay[s] > 0 /\ free_packets # NULL
                       /\ HoldPacket(s, Head(socket).n) /\ UNCHANGED <<slots, paused>>
                    \/ /\ ~(delay[s] > 0)
                       /\ SV_ExecuteClientMessage(s, Head(socket).n) /\ UNCHANGED lists
<1> DEFINE of == Matching(Head(socket).from)
           s == First(of)
<1>1. of # {} => s \in Slots /\ state[s] # "cs_free"
  BY FirstFacts DEF Matching
<1>2. CASE of = {} \/ (delay[s] > 0 /\ free_packets = NULL)
  BY <1>2 DEF ReadData
<1>3. CASE of # {} /\ delay[s] > 0 /\ free_packets # NULL
  BY <1>1, <1>3 DEF ReadData
<1>4. CASE of # {} /\ ~(delay[s] > 0)
  BY <1>1, <1>4 DEF ReadData
<1> QED BY <1>2, <1>3, <1>4

(* Every step keeps the packets in order.                                  *)
LEMMA OrderStep == OrderInv /\ [Next]_vars => InArrivalOrder' /\ Numbered'
<1> SUFFICES ASSUME OrderInv, [Next]_vars PROVE InArrivalOrder' /\ Numbered'
  OBVIOUS
<1>a. TypeOK /\ ListsApart /\ ListsInv /\ ListsApart'
  BY ListsStep DEF OrderInv, ListsInv
<1>b. /\ socket \in Seq(Datagrams) /\ arrived \in Nat
      /\ \A s \in Slots : executed[s] \in Nat /\ Waiting(s) \in Seq(Nat)
  BY <1>a, OrderFacts
<1>1. ASSUME NEW k \in Kinds, NEW a \in Addresses, Arrive(k, a)
      PROVE  InArrivalOrder' /\ Numbered'
  <2> DEFINE d == [kind |-> k, from |-> a, n |-> arrived + 1]
  <2>1. d \in Datagrams /\ d.n = arrived + 1
    BY <1>1, <1>a, Sizes DEF Arrive, Datagrams, TypeOK
  <2>2. /\ socket' = Append(socket, d) /\ arrived' = arrived + 1
        /\ UNCHANGED <<lists, slots>>
    BY <1>1 DEF Arrive
  <2> HIDE DEF d
  <2>3. \A s \in Slots : Waiting(s)' = Waiting(s)
    BY <1>a, <2>2, WaitingKept DEF lists
  <2>4. Increasing(socket) /\ \A i \in DOMAIN socket : socket[i].n <= arrived
    BY DEF OrderInv, Numbered
  <2>5. Increasing(socket)' /\ \A i \in DOMAIN socket' : socket'[i].n <= arrived'
    <3>1. 0 \in Nat /\ <<>> \in Seq(Nat)
      OBVIOUS
    <3>2. /\ Increasing(Append(socket, d))
          /\ \A i \in DOMAIN Append(socket, d) : Append(socket, d)[i].n <= arrived + 1
      BY <1>b, <2>1, <2>4, <3>1, OrderedArrive
    <3> QED BY <2>2, <3>2 DEF Increasing
  <2>6. ASSUME NEW s \in Slots, state'[s] # "cs_free"
        PROVE  /\ Ordered(executed'[s], Waiting(s)', socket')
               /\ executed'[s] <= arrived'
               /\ \A i \in DOMAIN Waiting(s)' : (Waiting(s)')[i] <= arrived'
    <3>1. /\ Ordered(executed[s], Waiting(s), socket)
          /\ executed[s] <= arrived /\ \A i \in DOMAIN Waiting(s) : Waiting(s)[i] <= arrived
      BY <2>2, <2>6 DEF OrderInv, InArrivalOrder, Numbered, slots
    <3>2. Ordered(executed[s], Waiting(s), Append(socket, d))
      BY <1>b, <2>1, <2>4, <3>1, OrderedArrive
    <3>3. executed[s] <= arrived + 1
      BY <1>b, <3>1
    <3>4. \A i \in DOMAIN Waiting(s) : Waiting(s)[i] <= arrived + 1
      BY <1>b, <3>1
    <3> QED BY <2>2, <2>3, <3>2, <3>3, <3>4 DEF slots
  <2> QED BY <2>5, <2>6 DEF InArrivalOrder, Numbered
<1>2. ASSUME NEW freed \in SUBSET Slots, SV_Frame(freed) PROVE InArrivalOrder' /\ Numbered'
  <2>1. \A s \in Slots : Waiting(s)' = Waiting(s)
    BY <1>2, <1>a, WaitingKept DEF SV_Frame
  <2> QED BY <1>2, <1>a, <2>1, OrderSame DEF SV_Frame, SV_CheckTimeouts
<1>3. CASE SV_Shutdown
  <2>1. Increasing(<<>>) /\ DOMAIN <<>> = {}
    BY DEF Increasing
  <2> QED BY <1>3, <2>1 DEF SV_Shutdown, InArrivalOrder, Numbered, Increasing
<1>4. CASE ReleaseDelayed
  <2>0. PICK c \in Slots : c = cl
    BY <1>a DEF TypeOK
  <2>1. /\ packets[c] # NULL /\ state[c] # "cs_free"
        /\ SV_ExecuteClientMessage(c, msg[packets[c]]) /\ SV_FreeHeadDelayedPacket(c)
        /\ socket' = socket /\ arrived' = arrived
    BY <1>4, <2>0 DEF ReleaseDelayed, Ripe
  <2>2. /\ Waiting(c) # <<>> /\ msg[packets[c]] = Head(Waiting(c))
        /\ Waiting(c)' = Tail(Waiting(c))
        /\ \A t \in Slots : t # c => Waiting(t)' = Waiting(t)
    BY <1>a, <2>1, ReleaseWaiting
  <2>3. ASSUME NEW s \in Slots, state'[s] # "cs_free"
        PROVE  /\ Ordered(executed'[s], Waiting(s)', socket')
               /\ executed'[s] <= arrived'
               /\ \A i \in DOMAIN Waiting(s)' : (Waiting(s)')[i] <= arrived'
    <3>1. CASE s = c
      <4>1. executed'[s] = Head(Waiting(s))
        BY <1>a, <2>1, <2>2, <3>1 DEF SV_ExecuteClientMessage, TypeOK
      <4>2. Ordered(executed[s], Waiting(s), socket) /\ \A i \in DOMAIN Waiting(s) : Waiting(s)[i] <= arrived
        BY <2>1, <3>1 DEF OrderInv, InArrivalOrder, Numbered
      <4>3. Ordered(Head(Waiting(s)), Tail(Waiting(s)), socket)
        BY <1>b, <2>2, <3>1, <4>2, OrderedRelease
      <4>4. /\ Head(Waiting(s)) <= arrived
            /\ \A i \in DOMAIN Tail(Waiting(s)) : Tail(Waiting(s))[i] <= arrived
        <5>1. PICK m \in Nat : m = Len(Waiting(s)) /\ m # 0 /\ DOMAIN Waiting(s) = 1 .. m
          BY <1>b, <2>2, <3>1, LenProperties, EmptySeq
        <5>2. /\ Tail(Waiting(s)) \in Seq(Nat) /\ Len(Tail(Waiting(s))) = m - 1
              /\ \A i \in 1 .. (m - 1) : Tail(Waiting(s))[i] = Waiting(s)[i + 1]
          BY <1>b, <2>2, <3>1, <5>1, HeadTailProperties
        <5>3. DOMAIN Tail(Waiting(s)) = 1 .. (m - 1)
          BY <5>2, LenProperties
        <5>4. \A i \in 1 .. (m - 1) : i + 1 \in 1 .. m
          OBVIOUS
        <5>5. Head(Waiting(s)) = Waiting(s)[1] /\ 1 \in 1 .. m
          BY <1>b, <5>1
        <5> QED BY <4>2, <5>1, <5>2, <5>3, <5>4, <5>5
      <4> QED BY <2>1, <2>2, <3>1, <4>1, <4>3, <4>4
    <3>2. CASE s # c
      <4>1. executed'[s] = executed[s] /\ state'[s] = state[s]
        BY <1>a, <2>1, <3>2 DEF SV_ExecuteClientMessage, TypeOK
      <4> QED BY <2>1, <2>2, <2>3, <3>2, <4>1 DEF OrderInv, InArrivalOrder, Numbered
    <3> QED BY <3>1, <3>2
  <2>4. Increasing(socket)' /\ \A k \in DOMAIN socket' : socket'[k].n <= arrived'
    BY <2>1 DEF OrderInv, Numbered, Increasing
  <2> QED BY <2>3, <2>4 DEF InArrivalOrder, Numbered
<1>5. CASE NextDelayed
  <2>1. \A s \in Slots : Waiting(s)' = Waiting(s)
    BY <1>5, <1>a, WaitingKept DEF NextDelayed, lists
  <2> QED BY <1>5, <1>a, <2>1, OrderSame DEF NextDelayed, slots
<1>6. CASE ReadConnect
  <2>1. /\ socket # <<>> /\ socket' = Tail(socket) /\ arrived' = arrived
        /\ \E a : SVC_DirectConnect(a, Head(socket).n)
    BY <1>6 DEF ReadConnect
  <2>2. CASE UNCHANGED <<slots, lists>>
    <3>1. \A s \in Slots : Waiting(s)' = Waiting(s)
      BY <1>a, <2>2, WaitingKept DEF lists
    <3> QED BY <2>1, <2>2, <3>1, OrderRead DEF slots
  <2>3. CASE ~UNCHANGED <<slots, lists>>
    <3>0. PICK a : SVC_DirectConnect(a, Head(socket).n)
      BY <2>1
    <3>1. PICK new \in Slots, own \in SUBSET Matching(a) :
            /\ state' = [s \in Slots |-> IF s = new THEN "cs_connected"
                                         ELSE IF s \in own THEN "cs_free" ELSE state[s]]
            /\ executed' = [executed EXCEPT ![new] = Head(socket).n]
            /\ packets' = [packets EXCEPT ![new] = NULL]
            /\ last_packet' = [last_packet EXCEPT ![new] = NULL]
            /\ UNCHANGED <<free_packets, next, msg, age>>
      BY <2>3, <3>0, ConnectCases
    <3>2. Waiting(new)' = <<>> /\ \A s \in Slots : s # new => Waiting(s)' = Waiting(s)
      BY <1>a, <3>1, ConnectWaiting
    <3>3. ASSUME NEW s \in Slots, state'[s] # "cs_free"
          PROVE  \/ /\ state[s] # "cs_free" /\ executed'[s] = executed[s]
                    /\ Waiting(s)' = Waiting(s)
                 \/ executed'[s] = Head(socket).n /\ Waiting(s)' = <<>>
      BY <1>a, <3>1, <3>2, <3>3 DEF TypeOK
    <3> QED BY <2>1, <3>3, OrderRead
  <2> QED BY <2>2, <2>3
<1>7. CASE ReadData
  <2>1. socket # <<>> /\ socket' = Tail(socket) /\ arrived' = arrived
    BY <1>7 DEF ReadData
  <2>2. CASE UNCHANGED <<lists, slots, paused>>
    <3>1. \A s \in Slots : Waiting(s)' = Waiting(s)
      BY <1>a, <2>2, WaitingKept DEF lists
    <3> QED BY <2>1, <2>2, <3>1, OrderRead DEF slots
  <2>3. ASSUME NEW s \in Slots, free_packets # NULL, HoldPacket(s, Head(socket).n), UNCHANGED slots
        PROVE  InArrivalOrder' /\ Numbered'
    <3>1. Head(socket).n \in 1 .. MaxArrivals
      BY <1>a, <2>1, TypeRead
    <3>2. /\ Waiting(s)' = Append(Waiting(s), Head(socket).n)
          /\ \A t \in Slots : t # s => Waiting(t)' = Waiting(t)
      BY <1>a, <2>3, <3>1, HoldWaiting
    <3> QED BY <2>1, <2>3, <3>2, OrderRead DEF slots
  <2>4. ASSUME NEW s \in Slots, state[s] # "cs_free", ~(delay[s] > 0),
               SV_ExecuteClientMessage(s, Head(socket).n), UNCHANGED lists
        PROVE  InArrivalOrder' /\ Numbered'
    <3>1. \A t \in Slots : Waiting(t)' = Waiting(t)
      BY <1>a, <2>4, WaitingKept DEF lists
    <3>2. Waiting(s) = <<>>
      <4>1. pc = "new"
        BY <1>7 DEF ReadData
      <4> QED BY <1>a, <2>4, <4>1, WaitingFacts DEF OrderInv, OnlyDelayedWait, Holding
    <3>3. ASSUME NEW t \in Slots, state'[t] # "cs_free"
          PROVE  \/ state[t] # "cs_free" /\ executed'[t] = executed[t] /\ Waiting(t)' = Waiting(t)
                 \/ executed'[t] = Head(socket).n /\ Waiting(t)' = <<>>
      BY <1>a, <2>4, <3>1, <3>2, <3>3 DEF SV_ExecuteClientMessage, TypeOK
    <3> QED BY <2>1, <3>3, OrderRead
  <2> QED BY <1>7, <1>a, <2>2, <2>3, <2>4, DataCases
<1>8. CASE SocketEmpty
  <2>1. \A s \in Slots : Waiting(s)' = Waiting(s)
    BY <1>8, <1>a, WaitingKept DEF SocketEmpty, lists
  <2> QED BY <1>8, <1>a, <2>1, OrderSame DEF SocketEmpty, slots
<1>9. CASE UNCHANGED vars
  <2>1. \A s \in Slots : Waiting(s)' = Waiting(s)
    BY <1>9, <1>a, WaitingKept DEF vars, lists
  <2> QED BY <1>9, <1>a, <2>1, OrderSame DEF vars, slots
<1> QED BY <1>1, <1>2, <1>3, <1>4, <1>5, <1>6, <1>7, <1>8, <1>9 DEF Next

(* Every step leaves a delay where the first loop has passed by packets.   *)
LEMMA DelayStep == OrderInv /\ [Next]_vars => OnlyDelayedWait'
<1> SUFFICES ASSUME OrderInv, [Next]_vars PROVE OnlyDelayedWait'
  OBVIOUS
<1>a. TypeOK /\ ListsApart /\ ListsInv
  BY DEF OrderInv, ListsInv
<1>b. Slots \subseteq Nat /\ cl \in Nat /\ \A s \in Slots : 1 <= s /\ s <= MAX_CLIENTS
  BY <1>a, Sizes DEF Slots, TypeOK
<1>1. CASE pc' = "idle"
  BY <1>1 DEF OnlyDelayedWait
<1>2. ASSUME NEW freed \in SUBSET Slots, SV_Frame(freed) PROVE OnlyDelayedWait'
  <2>1. pc' = "delayed" /\ cl' = 1
    BY <1>2 DEF SV_Frame
  <2>2. \A s \in Slots : ~(s < cl')
    BY <1>b, <2>1
  <2> QED BY <2>1, <2>2 DEF OnlyDelayedWait
<1>3. CASE ReleaseDelayed
  <2>1. /\ pc = "delayed" /\ pc' = pc /\ cl' = cl
        /\ \A s \in Slots : s # cl => state'[s] = state[s] /\ delay'[s] = delay[s] /\ packets'[s] = packets[s]
    BY <1>3, <1>a DEF ReleaseDelayed, SV_ExecuteClientMessage, SV_FreeHeadDelayedPacket, TypeOK
  <2>2. \A s \in Slots : s < cl => s # cl
    BY <1>b
  <2> QED BY <2>1, <2>2 DEF OrderInv, OnlyDelayedWait, Holding
<1>4. CASE NextDelayed
  <2>1. pc = "delayed" /\ ~Ripe(cl) /\ UNCHANGED <<lists, slots>>
    BY <1>4 DEF NextDelayed
  <2>2. Holding(cl) => delay[cl] > 0
    <3>1. Holding(cl) => ~(age[packets[cl]] >= delay[cl])
      BY <2>1 DEF Ripe, Holding
    <3>2. delay[cl] \in Nat /\ (Holding(cl) => age[packets[cl]] \in Nat)
      BY <1>a, Sizes DEF TypeOK, Holding, Pointers
    <3> QED BY <3>1, <3>2
  <2>3. ASSUME NEW s \in Slots, pc' = "new" \/ (pc' = "delayed" /\ s < cl') PROVE s < cl \/ s = cl
    BY <1>4, <1>b, <2>3, Sizes DEF NextDelayed
  <2> QED BY <2>1, <2>2, <2>3 DEF OrderInv, OnlyDelayedWait, Holding, lists, slots
<1>5. CASE ReadConnect
  <2>1. pc = "new" /\ pc' = pc /\ \E a : SVC_DirectConnect(a, Head(socket).n)
    BY <1>5 DEF ReadConnect
  <2>2. CASE UNCHANGED <<slots, lists>>
    BY <2>1, <2>2 DEF OrderInv, OnlyDelayedWait, Holding, lists, slots
  <2>3. CASE ~UNCHANGED <<slots, lists>>
    <3>0. PICK a : SVC_DirectConnect(a, Head(socket).n)
      BY <2>1
    <3>1. PICK new \in Slots, own \in SUBSET Matching(a) :
            /\ state' = [s \in Slots |-> IF s = new THEN "cs_connected"
                                         ELSE IF s \in own THEN "cs_free" ELSE state[s]]
            /\ delay' = [delay EXCEPT ![new] = 0]
            /\ packets' = [packets EXCEPT ![new] = NULL]
      BY <2>3, <3>0, ConnectCases
    <3>2. ASSUME NEW s \in Slots, Holding(s)' PROVE Holding(s) /\ delay'[s] = delay[s]
      BY <1>a, <3>1, <3>2 DEF Holding, TypeOK
    <3> QED BY <2>1, <3>2, <1>a DEF OrderInv, OnlyDelayedWait
  <2> QED BY <2>2, <2>3
<1>6. CASE ReadData
  <2>1. pc = "new"
    BY <1>6 DEF ReadData
  <2>2. CASE UNCHANGED <<lists, slots, paused>>
    BY <2>1, <2>2 DEF OrderInv, OnlyDelayedWait, Holding, lists, slots
  <2>3. ASSUME NEW s \in Slots, delay[s] > 0, HoldPacket(s, Head(socket).n), UNCHANGED slots
        PROVE  OnlyDelayedWait'
    <3>1. /\ delay' = delay /\ state' = state
          /\ \A t \in Slots : t # s => packets'[t] = packets[t]
      BY <1>a, <2>3 DEF HoldPacket, slots, TypeOK
    <3> QED BY <2>1, <2>3, <3>1 DEF OrderInv, OnlyDelayedWait, Holding
  <2>4. ASSUME NEW s \in Slots, state[s] # "cs_free", ~(delay[s] > 0),
               SV_ExecuteClientMessage(s, Head(socket).n), UNCHANGED lists
        PROVE  OnlyDelayedWait'
    <3>1. packets[s] = NULL
      BY <2>1, <2>4 DEF OrderInv, OnlyDelayedWait, Holding
    <3>2. /\ packets' = packets
          /\ \A t \in Slots : t # s => state'[t] = state[t] /\ delay'[t] = delay[t]
      BY <1>a, <2>4 DEF SV_ExecuteClientMessage, TypeOK, lists
    <3> QED BY <2>1, <3>1, <3>2 DEF OrderInv, OnlyDelayedWait, Holding
  <2> QED BY <1>6, <1>a, <2>2, <2>3, <2>4, DataCases
<1>7. CASE UNCHANGED vars
  BY <1>7 DEF OrderInv, OnlyDelayedWait, Holding, vars, lists, slots
<1> QED BY <1>1, <1>2, <1>3, <1>4, <1>5, <1>6, <1>7 DEF Next, Arrive, SV_Shutdown, SocketEmpty

(* The inductive invariant.                                                *)
LEMMA OrderCorrect == Spec => []OrderInv
<1>1. Init => OrderInv
  <2> SUFFICES ASSUME Init PROVE OrderInv
    OBVIOUS
  <2>1. ListsInv
    BY TypeInit, ListsInit DEF ListsInv
  <2>2. /\ \A s \in Slots : state[s] = "cs_free" /\ packets[s] = NULL
        /\ socket = <<>> /\ DOMAIN <<>> = {}
    BY DEF Init
  <2> QED BY <2>1, <2>2 DEF OrderInv, InArrivalOrder, Numbered, Increasing, OnlyDelayedWait, Holding
<1>2. OrderInv /\ [Next]_vars => OrderInv'
  BY TypeStep, ListsStep, OrderStep, DelayStep DEF OrderInv, ListsInv
<1> QED BY <1>1, <1>2, PTL DEF Spec

(* The packets of a connection are executed in the order of their arrival, *)
(* each at most once and none of another connection, however the delay     *)
(* moves between them.                                                     *)
THEOREM ArrivalOrderKept == Spec => []InArrivalOrder
<1>1. OrderInv => InArrivalOrder
  BY DEF OrderInv
<1> QED BY <1>1, OrderCorrect, PTL

-----------------------------------------------------------------------------
(* Blocks that are lost *)

(* A block that lies in no list any more was in that of a slot that has    *)
(* been cleared.                                                           *)
Loses ==
    \A b \in InUse \ InUse' :
       \E s \in Slots :
          /\ b \in Elements(Held(s))
          /\ packets'[s] = NULL
          /\ \/ state'[s] = "cs_free" /\ remote_address'[s] = Nobody
             \/ pc = "new" /\ Head(socket).kind = "connect"

(* Lists that are the same have the same blocks.                           *)
LEMMA SameInUse ==
    ASSUME TypeOK, ListsApart, UNCHANGED <<packets, last_packet, free_packets, next, msg>>
    PROVE  InUse' = InUse
BY SameLists DEF InUse, Elements

(* Each step loses blocks in no other way.                                 *)
LEMMA LosesStep == ListsInv /\ [Next]_vars => [Loses]_lists
<1> SUFFICES ASSUME ListsInv, [Next]_vars PROVE [Loses]_lists
  OBVIOUS
<1>a. TypeOK /\ ListsApart
  BY DEF ListsInv
<1>1. ASSUME NEW freed \in SUBSET Slots, SV_Frame(freed) PROVE Loses
  BY <1>a, <1>1, SameInUse DEF SV_Frame, Loses
<1>2. CASE SV_Shutdown
  <2>1. Elements(Pool)' = Elements(Pool)
    BY <1>a, <1>2, ShutdownClears DEF Elements
  <2>2. \A s \in Slots : packets'[s] = NULL /\ state'[s] = "cs_free" /\ remote_address'[s] = Nobody
    BY <1>2 DEF SV_Shutdown
  <2> QED BY <2>1, <2>2 DEF Loses, InUse
<1>3. CASE ReleaseDelayed
  <2>1. PICK c \in Slots : c = cl
    BY <1>a DEF TypeOK
  <2>2. packets[c] # NULL /\ SV_FreeHeadDelayedPacket(c)
    BY <1>3, <2>1 DEF ReleaseDelayed, Ripe
  <2>3. /\ Elements(Pool)' = Elements(Pool) \cup {packets[c]}
        /\ Elements(Held(c)) = Elements(Held(c))' \cup {packets[c]}
        /\ \A t \in Slots : t # c => Elements(Held(t))' = Elements(Held(t))
    BY <1>a, <2>2, ReleaseElements
  <2>4. InUse \subseteq InUse'
    BY <2>3 DEF InUse
  <2> QED BY <2>4 DEF Loses
<1>4. CASE ReadConnect
  <2>1. PICK a, n : SVC_DirectConnect(a, n)
    BY <1>4 DEF ReadConnect
  <2>2. CASE UNCHANGED <<slots, lists>>
    BY <2>2
  <2>3. CASE ~UNCHANGED <<slots, lists>>
    <3>1. PICK new \in Slots, own \in SUBSET Matching(a) :
            /\ packets' = [packets EXCEPT ![new] = NULL]
            /\ last_packet' = [last_packet EXCEPT ![new] = NULL]
            /\ UNCHANGED <<free_packets, next, msg, age>>
      BY <2>1, <2>3, ConnectCases
    <3>2. Pool' = Pool /\ \A s \in Slots : s # new => Held(s)' = Held(s)
      BY <1>a, <3>1, ConnectClears
    <3>3. /\ Elements(Pool)' = Elements(Pool)
          /\ \A s \in Slots : s # new => Elements(Held(s))' = Elements(Held(s))
      BY <3>2 DEF Elements
    <3>4. \A b \in InUse \ InUse' : b \in Elements(Held(new))
      BY <3>3 DEF InUse
    <3>5. packets'[new] = NULL /\ pc = "new" /\ Head(socket).kind = "connect"
      BY <1>a, <1>4, <3>1 DEF ReadConnect, TypeOK
    <3> QED BY <3>4, <3>5 DEF Loses
  <2> QED BY <2>2, <2>3
<1>5. CASE ReadData
  <2>1. CASE UNCHANGED lists
    BY <2>1
  <2>2. ASSUME NEW s \in Slots, free_packets # NULL, HoldPacket(s, Head(socket).n) PROVE Loses
    <3>1. /\ Elements(Pool) = Elements(Pool)' \cup {free_packets}
          /\ Elements(Held(s))' = Elements(Held(s)) \cup {free_packets}
          /\ \A t \in Slots : t # s => Elements(Held(t))' = Elements(Held(t))
      BY <1>a, <2>2, HoldElements
    <3>2. InUse \subseteq InUse'
      BY <3>1 DEF InUse
    <3> QED BY <3>2 DEF Loses
  <2> QED BY <1>5, <2>1, <2>2, DataCases
<1>6. CASE UNCHANGED lists
  BY <1>6
<1> QED BY <1>1, <1>2, <1>3, <1>4, <1>5, <1>6 DEF Next, Arrive, NextDelayed, SocketEmpty, vars

(* A block is lost only when its slot is cleared around it, by a connect   *)
(* or by SV_Shutdown.                                                      *)
THEOREM BlocksLostOnlyWithSlot == Spec => LostOnlyWithSlot
<1>1. ListsInv /\ [Next]_vars => [Loses]_lists
  BY LosesStep
<1> QED BY <1>1, ListsCorrect, PTL DEF Spec, LostOnlyWithSlot, Loses

-----------------------------------------------------------------------------
(* The lists are queues *)

(* What Queues takes for the packets that wait.                            *)
queues == [s \in Slots |-> Waiting(s)]

(* At first nothing waits and every place is free.                         *)
LEMMA QueuesInit == Init => Queues!Init
<1> SUFFICES ASSUME Init PROVE Queues!Init
  OBVIOUS
<1>1. Len(Pool) = MAX_DELAYED_PACKETS /\ \A s \in Slots : packets[s] = NULL
  BY ListsInit DEF Init
<1>2. \A s \in Slots : Waiting(s) = <<>>
  BY <1>1, TypeInit, ListsInit, WaitingFacts
<1>3. executed = [s \in Slots |-> 0]
  BY DEF Init
<1> QED BY <1>1, <1>2, <1>3 DEF Queues!Init

(* Nothing happens to the queues.                                          *)
LEMMA QueuesSame ==
    ASSUME TypeOK, ListsApart, UNCHANGED <<packets, last_packet, free_packets, next, msg, executed>>
    PROVE  UNCHANGED Queues!vars
<1>1. Len(Pool') = Len(Pool) /\ \A s \in Slots : Waiting(s)' = Waiting(s)
  BY WaitingKept
<1>2. queues' = queues
  BY <1>1 DEF queues
<1> QED BY <1>1, <1>2 DEF Queues!vars, queues

(* The first loop releases the oldest packet of a slot.                     *)
LEMMA QueuesRelease ==
    ASSUME OrderInv, ReleaseDelayed
    PROVE  Queues!Next
<1>a. TypeOK /\ ListsApart
  BY DEF OrderInv, ListsInv
<1>1. PICK c \in Slots : c = cl
  BY <1>a DEF TypeOK
<1>2. /\ packets[c] # NULL /\ SV_FreeHeadDelayedPacket(c)
      /\ SV_ExecuteClientMessage(c, msg[packets[c]])
  BY <1>1 DEF ReleaseDelayed, Ripe
<1>3. /\ Waiting(c) # <<>> /\ msg[packets[c]] = Head(Waiting(c))
      /\ Waiting(c)' = Tail(Waiting(c))
      /\ \A t \in Slots : t # c => Waiting(t)' = Waiting(t)
      /\ Len(Pool') = Len(Pool) + 1
  BY <1>a, <1>2, ReleaseWaiting
<1>4. queues' = [queues EXCEPT ![c] = Tail(queues[c])] /\ queues[c] = Waiting(c)
  BY <1>3 DEF queues
<1>5. executed' = [executed EXCEPT ![c] = Head(queues[c])]
  BY <1>2, <1>3, <1>4 DEF SV_ExecuteClientMessage
<1>6. Queues!Release(c)
  BY <1>3, <1>4, <1>5 DEF Queues!Release, queues
<1> QED BY <1>6 DEF Queues!Next

(* A datagram that is read comes behind all that waits.                    *)
LEMMA QueuesLatest ==
    ASSUME OrderInv, socket # <<>>, NEW s \in Slots, state[s] # "cs_free"
    PROVE  /\ Head(socket).n \in 1 .. MaxArrivals
           /\ Head(socket).n > Queues!Latest(s) /\ Head(socket).n > executed[s]
<1>a. TypeOK /\ ListsApart /\ ListsInv
  BY DEF OrderInv, ListsInv
<1>1. /\ socket[1] = Head(socket) /\ 1 \in DOMAIN socket
      /\ Head(socket).n \in 1 .. MaxArrivals /\ Head(socket).n \in Nat
  BY <1>a, TypeRead DEF TypeOK
<1>2. Ordered(executed[s], Waiting(s), socket) /\ executed[s] \in Nat /\ Waiting(s) \in Seq(Nat)
  BY <1>a, OrderFacts DEF OrderInv, InArrivalOrder
<1>3. executed[s] < Head(socket).n /\ \A i \in DOMAIN Waiting(s) : Waiting(s)[i] < Head(socket).n
  BY <1>1, <1>2 DEF Ordered
<1>4. Waiting(s) # <<>> => Len(Waiting(s)) \in DOMAIN Waiting(s) /\ Waiting(s)[Len(Waiting(s))] \in Nat
  BY <1>2, EmptySeq, LenProperties
<1>5. Queues!Latest(s) = IF Waiting(s) = <<>> THEN executed[s] ELSE Waiting(s)[Len(Waiting(s))]
  BY DEF Queues!Latest
<1> QED BY <1>1, <1>2, <1>3, <1>4, <1>5

(* It is held back or executed.                                            *)
LEMMA QueuesData ==
    ASSUME OrderInv, ReadData
    PROVE  Queues!Next \/ UNCHANGED Queues!vars
<1>a. TypeOK /\ ListsApart /\ ListsInv /\ socket # <<>> /\ pc = "new"
  BY DEF OrderInv, ListsInv, ReadData
<1> DEFINE n == Head(socket).n
<1>1. CASE UNCHANGED <<lists, slots, paused>>
  BY <1>a, <1>1, QueuesSame DEF lists, slots
<1>2. ASSUME NEW s \in Slots, state[s] # "cs_free", free_packets # NULL, HoldPacket(s, n),
             UNCHANGED slots
      PROVE  Queues!Next
  <2>1. n \in 1 .. MaxArrivals /\ n > Queues!Latest(s)
    BY <1>a, <1>2, QueuesLatest
  <2>2. /\ Waiting(s)' = Append(Waiting(s), n)
        /\ \A t \in Slots : t # s => Waiting(t)' = Waiting(t)
        /\ Len(Pool) \in Nat \ {0} /\ Len(Pool') = Len(Pool) - 1
    BY <1>a, <1>2, <2>1, HoldWaiting
  <2>3. queues' = [queues EXCEPT ![s] = Append(queues[s], n)]
    BY <2>2 DEF queues
  <2>4. Len(Pool) > 0
    BY <2>2
  <2>5. executed' = executed
    BY <1>2 DEF slots
  <2> HIDE DEF n
  <2>6. Queues!Hold(s, n)
    BY <2>1, <2>2, <2>3, <2>4, <2>5 DEF Queues!Hold, queues
  <2> QED BY <2>1, <2>6 DEF Queues!Next
<1>3. ASSUME NEW s \in Slots, state[s] # "cs_free", ~(delay[s] > 0),
             SV_ExecuteClientMessage(s, n), UNCHANGED lists
      PROVE  Queues!Next
  <2>1. n \in 1 .. MaxArrivals /\ n > executed[s]
    BY <1>a, <1>3, QueuesLatest
  <2>2. Waiting(s) = <<>>
    BY <1>a, <1>3, WaitingFacts DEF OrderInv, OnlyDelayedWait, Holding
  <2>3. Len(Pool') = Len(Pool) /\ \A t \in Slots : Waiting(t)' = Waiting(t)
    BY <1>a, <1>3, WaitingKept DEF lists
  <2>4. queues' = queues /\ queues[s] = <<>>
    BY <2>2, <2>3 DEF queues
  <2>5. executed' = [executed EXCEPT ![s] = n]
    BY <1>3 DEF SV_ExecuteClientMessage
  <2> HIDE DEF n
  <2>6. Queues!Execute(s, n)
    BY <2>1, <2>3, <2>4, <2>5 DEF Queues!Execute, queues
  <2> QED BY <2>1, <2>6 DEF Queues!Next
<1> QED BY <1>a, <1>1, <1>2, <1>3, DataCases

(* A connect clears the queue of the slot it takes, ...                    *)
LEMMA QueuesConnect ==
    ASSUME OrderInv, TypeOK', ReadConnect
    PROVE  Queues!Next \/ UNCHANGED Queues!vars
<1>a. TypeOK /\ ListsApart
  BY DEF OrderInv, ListsInv
<1>1. PICK a, n : SVC_DirectConnect(a, n)
  BY DEF ReadConnect
<1>2. CASE UNCHANGED <<slots, lists>>
  BY <1>a, <1>2, QueuesSame DEF lists, slots
<1>3. CASE ~UNCHANGED <<slots, lists>>
  <2>1. PICK new \in Slots, own \in SUBSET Matching(a) :
          /\ executed' = [executed EXCEPT ![new] = n]
          /\ packets' = [packets EXCEPT ![new] = NULL]
          /\ last_packet' = [last_packet EXCEPT ![new] = NULL]
          /\ UNCHANGED <<free_packets, next, msg, age>>
    BY <1>1, <1>3, ConnectCases
  <2>2. /\ Waiting(new)' = <<>> /\ Len(Pool') = Len(Pool)
        /\ \A s \in Slots : s # new => Waiting(s)' = Waiting(s)
    BY <1>a, <2>1, ConnectWaiting
  <2>3. queues' = [s \in Slots |-> IF s \in {new} THEN <<>> ELSE queues[s]]
    BY <2>2 DEF queues
  <2>4. /\ executed' \in [Slots -> (1 .. MaxArrivals) \cup {0}]
        /\ \A s \in Slots \ {new} : executed'[s] = executed[s]
    <3>1. (1 .. MaxArrivals) \cup {0} = 0 .. MaxArrivals
      BY Sizes
    <3>2. executed' \in [Slots -> 0 .. MaxArrivals]
      BY Zenon DEF TypeOK
    <3>3. executed \in [Slots -> 0 .. MaxArrivals]
      BY <1>a, Zenon DEF TypeOK
    <3>4. \A s \in Slots \ {new} : executed'[s] = executed[s]
      BY <2>1, <3>3
    <3> QED BY <3>1, <3>2, <3>4
  <2>5. Queues!Clear({new})
    BY <2>2, <2>3, <2>4 DEF Queues!Clear, queues
  <2> QED BY <2>5 DEF Queues!Next
<1> QED BY <1>2, <1>3

(* ... and a shutdown all of them.                                         *)
LEMMA QueuesShutdown ==
    ASSUME OrderInv, ListsInv', SV_Shutdown
    PROVE  Queues!Next
<1>a. TypeOK /\ ListsApart
  BY DEF OrderInv, ListsInv
<1>1. Pool' = Pool
  BY <1>a, ShutdownClears
<1>2. \A s \in Slots : Waiting(s)' = <<>>
  <2> TAKE s \in Slots
  <2>1. Held(s)' = <<>>
    BY <1>a, ShutdownClears
  <2>2. Waiting(s)' = [i \in DOMAIN (Held(s)') |-> msg'[(Held(s)')[i]]]
    BY DEF Waiting
  <2> QED BY <2>1, <2>2
<1>3. queues' = [s \in Slots |-> IF s \in Slots THEN <<>> ELSE queues[s]]
  BY <1>2 DEF queues
<1>4. executed' \in [Slots -> (1 .. MaxArrivals) \cup {0}]
  BY DEF SV_Shutdown
<1>5. Queues!Clear(Slots)
  BY <1>1, <1>3, <1>4 DEF Queues!Clear, queues
<1> QED BY <1>5 DEF Queues!Next

(* Every step is one of the queues, or none.                               *)
LEMMA QueuesStep == OrderInv /\ OrderInv' /\ [Next]_vars => [Queues!Next]_(Queues!vars)
<1> SUFFICES ASSUME OrderInv, OrderInv', [Next]_vars
             PROVE  Queues!Next \/ UNCHANGED Queues!vars
  OBVIOUS
<1>a. TypeOK /\ ListsApart /\ ListsInv' /\ TypeOK'
  BY DEF OrderInv, ListsInv
<1>1. ASSUME NEW freed \in SUBSET Slots, SV_Frame(freed) PROVE UNCHANGED Queues!vars
  BY <1>a, <1>1, QueuesSame DEF SV_Frame
<1>2. CASE UNCHANGED <<lists, slots>>
  BY <1>a, <1>2, QueuesSame DEF lists, slots
<1> QED BY <1>a, <1>1, <1>2, QueuesRelease, QueuesData, QueuesConnect, QueuesShutdown
        DEF Next, Arrive, NextDelayed, SocketEmpty, vars

(* The blocks and their links implement the queues of DelayQueues: every   *)
(* connection sees its own packets, first come, first executed.            *)
THEOREM PacketsAreQueued == Spec => ImplementsQueues
<1>1. Init => Queues!Init
  BY QueuesInit
<1>2. OrderInv /\ OrderInv' /\ [Next]_vars => [Queues!Next]_(Queues!vars)
  BY QueuesStep
<1> QED BY <1>1, <1>2, OrderCorrect, PTL DEF Spec, ImplementsQueues, Queues!Spec
=============================================================================
