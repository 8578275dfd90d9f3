------------------------ MODULE ClientReliableProofs ------------------------
(***************************************************************************)
(* Theorems about ClientReliable for any size of the client's buffers, any *)
(* number of them and any sizes of what is written: no overflow meets a    *)
(* back buffer that may not, a client that has lost bytes is dropped, and  *)
(* the back buffers keep the order of the stream (sv_nchan.c,              *)
(* SV_SendClientMessages and the signon commands).                         *)
(***************************************************************************)
EXTENDS ClientReliable, TLAPS, SequenceTheorems, WellFoundedInduction

-----------------------------------------------------------------------------
(* The stream as a record                                                  *)

StreamFields ==
    {"message", "overflowed", "num", "size", "data", "cur", "lost", "forgiven", "error"}

(* The last buffer of a full row may overflow: it is as the row grew to it.*)
LastMayOverflow(num, cur) == num = MAX_BACK_BUFFERS => cur.allowoverflow

(* Nor has it stopped for one that may not.                                *)
GoesOn(error) == error \in SysErrors /\ error # "no allowoverflow"

(* The sizes of the stream keep.                                           *)
Sound(s) ==
    /\ DOMAIN s = StreamFields
    /\ s.message \in Seq(Bytes) /\ Len(s.message) <= MaxSize
    /\ s.num \in 0 .. MAX_BACK_BUFFERS
    /\ s.size \in [Buffers -> 0 .. MaxSize]
    /\ s.data \in [Buffers -> [1 .. MaxSize -> Bytes]]
    /\ DOMAIN s.cur = {"data", "cursize", "allowoverflow", "overflowed"}
    /\ s.cur = [f \in DOMAIN s.cur |-> s.cur[f]]
    /\ s.cur.data \in Buffers /\ s.cur.cursize \in 0 .. MaxSize
    /\ s.cur.allowoverflow \in BOOLEAN /\ s.cur.overflowed \in BOOLEAN
    /\ LastMayOverflow(s.num, s.cur)
    /\ s.overflowed \in BOOLEAN /\ s.lost \in BOOLEAN /\ s.forgiven \in BOOLEAN
    /\ GoesOn(s.error)

(* The bytes in the back buffers are those of q: buffer i has the ones     *)
(* from off[i - 1] to off[i].                                              *)
Laid(s, off, q) ==
    /\ off \in [0 .. s.num -> Nat] /\ off[0] = 0
    /\ \A i \in 1 .. s.num : off[i] = off[i - 1] + s.size[i]
    /\ \A i, j \in 0 .. s.num : i <= j => off[i] <= off[j]
    /\ q \in Seq(Bytes) /\ Len(q) = off[s.num]
    /\ \A i \in 1 .. s.num, j \in 1 .. MaxSize : j <= s.size[i] => q[off[i - 1] + j] = s.data[i][j]

Holds(s, q) ==
    /\ \E off : Laid(s, off, q)
    /\ s.num # 0 => s.cur.data = s.num /\ s.cur.cursize = s.size[s.num]

(* The bounds are numbers.                                                 *)
LEMMA Sizes ==
    /\ MaxSize \in Nat /\ MAX_BACK_BUFFERS \in Nat /\ MAX_BACK_BUFFERS >= 1 /\ MaxWritten \in Nat
    /\ \A n \in BlockSizes \cup ReplySizes : n \in Nat
    /\ \A n \in Lines : n \in Nat /\ 1 <= n /\ n <= MaxSize
    /\ svc_disconnect \in Bytes /\ svc_print \in Bytes /\ 1 \in Buffers /\ MaxSize >= 1
<1>1. /\ MaxSize \in Nat \ {0} /\ MAX_BACK_BUFFERS \in Nat \ {0} /\ MaxWritten \in Nat
      /\ BlockSizes \subseteq Nat /\ ReplySizes \subseteq Nat \ {0}
  BY ClientReliableAssumption
<1>2. \A n \in Lines : n \in Nat /\ 1 <= n /\ n <= MaxSize
  BY <1>1 DEF Lines
<1>3. svc_disconnect \in Bytes /\ svc_print \in Bytes /\ 1 \in Buffers /\ MAX_BACK_BUFFERS >= 1 /\ MaxSize >= 1
  BY <1>1 DEF svc_disconnect, svc_print, Bytes, Buffers
<1> QED BY <1>1, <1>2, <1>3

(* What an overflow leaves in a buffer fits it.                            *)
LEMMA LastPartsFacts ==
    ASSUME NEW n \in Nat, NEW k \in LastParts(n)
    PROVE  k \in Nat /\ k <= n /\ k <= MaxSize
<1>1. CASE n = 0
  BY <1>1, Sizes DEF LastParts
<1>2. CASE n # 0
  BY <1>2 DEF LastParts
<1> QED BY <1>1, <1>2

(* The last bytes of a sequence.                                           *)
LEMMA LastPartFacts ==
    ASSUME NEW b \in Seq(Bytes), NEW k \in Nat, k <= Len(b)
    PROVE  LastPart(b, k) \in Seq(Bytes) /\ Len(LastPart(b, k)) = k
<1>1. PICK n \in Nat : n = Len(b)
  OBVIOUS
<1>2. PICK c \in Int, d \in Int : c = n - k + 1 /\ d = n
  OBVIOUS
<1>3. \A i \in c .. d : b[i] \in Bytes
  <2>1. \A i \in c .. d : i \in 1 .. n
    BY <1>1, <1>2
  <2> QED BY <1>1, <2>1
<1>4. SubSeq(b, c, d) \in Seq(Bytes) /\ Len(SubSeq(b, c, d)) = IF c <= d THEN d - c + 1 ELSE 0
  BY <1>3, SubSeqProperties
<1>5. (IF c <= d THEN d - c + 1 ELSE 0) = k
  BY <1>1, <1>2
<1>6. LastPart(b, k) = SubSeq(b, c, d)
  BY <1>1, <1>2 DEF LastPart
<1> QED BY <1>4, <1>5, <1>6

(* A write to netchan.message is appended, or overflows it.                *)
LEMMA DirectWriteFacts ==
    ASSUME NEW s, Sound(s), NEW b \in Seq(Bytes), NEW k \in Nat, k <= Len(b), k <= MaxSize,
           NEW t, t = DirectWrite(s, b, k)
    PROVE  /\ Sound(t)
           /\ t.num = s.num /\ t.size = s.size /\ t.data = s.data /\ t.cur = s.cur
           /\ t.forgiven = s.forgiven
           /\ \/ /\ t.message = s.message \o b /\ t.overflowed = s.overflowed
                 /\ t.lost = s.lost
              \/ /\ Len(s.message) + Len(b) > MaxSize
                 /\ t.overflowed /\ t.lost
<1>0. MaxSize \in Nat /\ Len(s.message) \in Nat /\ Len(b) \in Nat
  BY Sizes DEF Sound
<1>1. CASE Len(s.message) + Len(b) <= MaxSize
  <2>1. t = [s EXCEPT !.message = @ \o b]
    BY <1>1 DEF DirectWrite
  <2>2. s.message \o b \in Seq(Bytes) /\ Len(s.message \o b) = Len(s.message) + Len(b)
    <3>1. s.message \in Seq(Bytes)
      BY DEF Sound
    <3> QED BY <3>1, ConcatProperties
  <2> DEFINE m == s.message \o b
  <2>3. t = [s EXCEPT !.message = m]
    BY <2>1
  <2>4. m \in Seq(Bytes) /\ Len(m) <= MaxSize
    BY <1>1, <2>2
  <2> HIDE DEF m
  <2>5. Sound(t) /\ t.message = m
    BY <2>3, <2>4 DEF Sound, StreamFields
  <2>6. /\ t.num = s.num /\ t.size = s.size /\ t.data = s.data /\ t.cur = s.cur
        /\ t.forgiven = s.forgiven /\ t.overflowed = s.overflowed /\ t.lost = s.lost
    BY <2>3 DEF Sound, StreamFields
  <2> QED BY <2>5, <2>6 DEF m
<1>2. CASE ~(Len(s.message) + Len(b) <= MaxSize)
  <2>1. PICK m \in Seq(Bytes) : m = LastPart(b, k) /\ Len(m) <= MaxSize
    BY LastPartFacts
  <2>2. t = [s EXCEPT !.message = m, !.overflowed = TRUE, !.lost = TRUE]
    BY <1>2, <2>1 DEF DirectWrite
  <2>3. Sound(t) /\ t.overflowed /\ t.lost
    BY <2>1, <2>2 DEF Sound, StreamFields
  <2>4. /\ t.num = s.num /\ t.size = s.size /\ t.data = s.data /\ t.cur = s.cur
        /\ t.forgiven = s.forgiven
    BY <2>2 DEF Sound, StreamFields
  <2>5. Len(s.message) + Len(b) > MaxSize
    BY <1>0, <1>2
  <2> QED BY <2>3, <2>4, <2>5
<1> QED BY <1>1, <1>2

(* After the check there is room where the block will be written, or the   *)
(* buffer there may overflow.                                              *)
Checked(s, n, t) ==
    /\ Sound(t) /\ t.message = s.message /\ t.forgiven = s.forgiven
    /\ t.num # 0 => t.cur.cursize + n <= MaxSize \/ t.cur.allowoverflow
    /\ t.num = 0 => s.num = 0 /\ t = s /\ Len(s.message) + n <= MaxSize
    /\ \/ t = s
       \/ t.num = s.num /\ t.overflowed /\ t.lost
       \/ /\ s.num < MAX_BACK_BUFFERS /\ t.num = s.num + 1
          /\ t.overflowed = s.overflowed /\ t.lost = s.lost
          /\ t.data = s.data /\ t.size = [s.size EXCEPT ![s.num + 1] = 0]
          /\ t.cur.data = t.num /\ t.cur.cursize = 0 /\ t.cur.overflowed = FALSE

LEMMA CheckBlockFacts ==
    ASSUME NEW s, Sound(s), NEW n \in Nat, NEW t, t = CheckBlock(s, n)
    PROVE  Checked(s, n, t)
<1>0. /\ s.num \in 0 .. MAX_BACK_BUFFERS /\ s.cur.cursize \in 0 .. MaxSize /\ MaxSize \in Nat
      /\ MAX_BACK_BUFFERS \in Nat /\ MAX_BACK_BUFFERS >= 1 /\ Len(s.message) \in Nat
  BY Sizes DEF Sound
<1>1. CASE \/ s.num = 0 /\ Len(s.message) <= MaxSize - n - 1
           \/ s.num # 0 /\ s.cur.cursize <= MaxSize - n - 1
  <2>1. t = s
    BY <1>1 DEF CheckBlock
  <2> QED BY <1>0, <1>1, <2>1 DEF Checked
<1>2. CASE ~(\/ s.num = 0 /\ Len(s.message) <= MaxSize - n - 1
             \/ s.num # 0 /\ s.cur.cursize <= MaxSize - n - 1)
  <2>1. CASE s.num = MAX_BACK_BUFFERS
    <3>1. t = [s EXCEPT !.cur.cursize = 0, !.overflowed = TRUE, !.lost = TRUE]
      BY <1>2, <2>1 DEF CheckBlock
    <3>2. Sound(t) /\ t.message = s.message /\ t.forgiven = s.forgiven /\ t.num = s.num
          /\ t.overflowed /\ t.lost /\ t.cur.cursize = 0 /\ t.cur.allowoverflow
      <4>1. /\ t.message = s.message /\ t.forgiven = s.forgiven /\ t.num = s.num
            /\ t.overflowed = TRUE /\ t.lost = TRUE /\ t.error = s.error
            /\ t.cur = [s.cur EXCEPT !.cursize = 0] /\ t.size = s.size /\ t.data = s.data
        BY <3>1 DEF Sound, StreamFields
      <4>2. /\ t.cur.data = s.cur.data /\ t.cur.cursize = 0 /\ t.cur.overflowed = s.cur.overflowed
            /\ t.cur.allowoverflow = s.cur.allowoverflow
            /\ DOMAIN t.cur = {"data", "cursize", "allowoverflow", "overflowed"}
            /\ t.cur = [f \in DOMAIN t.cur |-> t.cur[f]]
        BY <4>1 DEF Sound
      <4>3. DOMAIN t = StreamFields /\ 0 \in 0 .. MaxSize
        BY <1>0, <3>1 DEF Sound
      <4>4. t.cur.allowoverflow /\ LastMayOverflow(t.num, t.cur)
        <5>1. LastMayOverflow(s.num, s.cur)
          BY DEF Sound
        <5> QED BY <2>1, <4>2, <5>1 DEF LastMayOverflow
      <4>5. Sound(t)
        BY <4>1, <4>2, <4>3, <4>4 DEF Sound
      <4> QED BY <4>1, <4>2, <4>4, <4>5
    <3> QED BY <1>0, <2>1, <3>2 DEF Checked
  <2>2. CASE s.num # MAX_BACK_BUFFERS
    <3>1. t = [s EXCEPT !.cur = [data |-> s.num + 1, cursize |-> 0,
                                 allowoverflow |-> TRUE, overflowed |-> FALSE],
                        !.size[s.num + 1] = 0, !.num = @ + 1]
      BY <1>2, <2>2 DEF CheckBlock, NewBackbuf
    <3>2. s.num + 1 \in Buffers /\ s.num + 1 \in 0 .. MAX_BACK_BUFFERS /\ 0 \in 0 .. MaxSize
          /\ s.num < MAX_BACK_BUFFERS /\ s.num + 1 # 0
      BY <1>0, <2>2 DEF Buffers
    <3>3. /\ t.num = s.num + 1 /\ t.size = [s.size EXCEPT ![s.num + 1] = 0]
          /\ t.cur = [data |-> s.num + 1, cursize |-> 0, allowoverflow |-> TRUE, overflowed |-> FALSE]
          /\ t.message = s.message /\ t.forgiven = s.forgiven /\ t.overflowed = s.overflowed
          /\ t.lost = s.lost /\ t.data = s.data /\ t.error = s.error
      BY <3>1 DEF Sound, StreamFields
    <3>4. DOMAIN t = StreamFields
      BY <3>1 DEF Sound
    <3>5. t.size \in [Buffers -> 0 .. MaxSize]
      BY <3>2, <3>3 DEF Sound
    <3>6. /\ t.cur.data = s.num + 1 /\ t.cur.cursize = 0 /\ t.cur.allowoverflow = TRUE
          /\ t.cur.overflowed = FALSE
          /\ DOMAIN t.cur = {"data", "cursize", "allowoverflow", "overflowed"}
      BY <3>3
    <3>9. LastMayOverflow(t.num, t.cur)
      BY <3>6 DEF LastMayOverflow
    <3>7. Sound(t)
      BY <3>2, <3>3, <3>4, <3>5, <3>6, <3>9 DEF Sound
    <3>8. t.cur.cursize + n = n /\ t.num # 0
      BY <1>0, <3>2, <3>3, <3>6
    <3> QED BY <3>2, <3>3, <3>6, <3>7, <3>8 DEF Checked
  <2> QED BY <2>1, <2>2
<1> QED BY <1>1, <1>2

(* A block that fits is put behind what the back buffer holds.             *)
LEMMA BackbufWriteFacts ==
    ASSUME NEW s, Sound(s), s.num # 0, NEW b \in Seq(Bytes), s.cur.cursize + Len(b) <= MaxSize,
           NEW k, NEW t, t = BackbufWrite(s, b, k)
    PROVE  /\ Sound(t) /\ t.message = s.message /\ t.forgiven = s.forgiven /\ t.num = s.num
           /\ t.overflowed = (s.overflowed \/ s.cur.overflowed) /\ t.lost = s.lost
           /\ t.cur.data = s.cur.data /\ t.cur.cursize = s.cur.cursize + Len(b)
           /\ t.size = [s.size EXCEPT ![s.num] = s.cur.cursize + Len(b)]
           /\ \A i \in Buffers : i # s.cur.data => t.data[i] = s.data[i]
           /\ \A j \in 1 .. MaxSize : t.data[s.cur.data][j] =
                 IF j \in s.cur.cursize + 1 .. s.cur.cursize + Len(b)
                 THEN b[j - s.cur.cursize] ELSE s.data[s.cur.data][j]
<1> DEFINE at == s.cur.cursize
           n == Len(b)
           row == [j \in 1 .. MaxSize |->
                     IF j \in at + 1 .. at + n THEN b[j - at] ELSE s.data[s.cur.data][j]]
           over == s.cur.overflowed
           pending == s.overflowed \/ s.cur.overflowed
<1>0. /\ at \in 0 .. MaxSize /\ n \in Nat /\ MaxSize \in Nat /\ s.cur.data \in Buffers
      /\ s.data \in [Buffers -> [1 .. MaxSize -> Bytes]] /\ s.num \in Buffers
      /\ over \in BOOLEAN /\ s.overflowed \in BOOLEAN /\ s.lost \in BOOLEAN /\ at + n <= MaxSize
  <2>1. n \in Nat /\ MaxSize \in Nat /\ s.num \in 0 .. MAX_BACK_BUFFERS /\ MAX_BACK_BUFFERS \in Nat
    BY Sizes DEF Sound
  <2>2. s.num \in Buffers
    BY <2>1 DEF Buffers
  <2> QED BY <2>1, <2>2 DEF Sound
<1>1. t = [s EXCEPT !.data[s.cur.data] = row, !.cur.cursize = at + n, !.cur.overflowed = over,
                    !.size[s.num] = at + n, !.overflowed = pending, !.lost = s.lost]
  <2>1. ~(s.cur.cursize + Len(b) > MaxSize)
    BY <1>0
  <2> DEFINE q == [s EXCEPT !.data[s.cur.data] = [j \in 1 .. MaxSize |->
                               IF j \in at + 1 .. at + n THEN b[j - at] ELSE @[j]],
                            !.cur.cursize = at + n, !.cur.overflowed = s.cur.overflowed \/ FALSE,
                            !.size[s.num] = at + n,
                            !.overflowed = s.overflowed \/ (s.cur.overflowed \/ FALSE),
                            !.lost = s.lost \/ FALSE]
  <2>2. t = q
    BY <2>1 DEF BackbufWrite
  <2>3. (s.cur.overflowed \/ FALSE) = over /\ (s.overflowed \/ (s.cur.overflowed \/ FALSE)) = pending
        /\ (s.lost \/ FALSE) = s.lost
    BY <1>0
  <2> QED BY <2>2, <2>3
<1>2. row \in [1 .. MaxSize -> Bytes]
  <2>1. \A j \in at + 1 .. at + n : j - at \in 1 .. n
    BY <1>0
  <2>2. \A i \in 1 .. n : b[i] \in Bytes
    OBVIOUS
  <2>3. \A j \in 1 .. MaxSize : s.data[s.cur.data][j] \in Bytes
    BY <1>0
  <2> QED BY <2>1, <2>2, <2>3
<1>3. at + n \in 0 .. MaxSize /\ pending \in BOOLEAN
  BY <1>0
<1>4. \A j \in 1 .. MaxSize : row[j] =
         IF j \in at + 1 .. at + n THEN b[j - at] ELSE s.data[s.cur.data][j]
  OBVIOUS
<1>a. at = s.cur.cursize /\ n = Len(b) /\ pending = (s.overflowed \/ s.cur.overflowed)
  OBVIOUS
<1> HIDE DEF row, at, n, over, pending
<1>5. /\ t.message = s.message /\ t.forgiven = s.forgiven /\ t.num = s.num
      /\ t.overflowed = pending /\ t.lost = s.lost /\ t.error = s.error
      /\ t.cur = [s.cur EXCEPT !.cursize = at + n, !.overflowed = over]
      /\ t.size = [s.size EXCEPT ![s.num] = at + n]
      /\ t.data = [s.data EXCEPT ![s.cur.data] = row]
  BY <1>1 DEF Sound, StreamFields
<1>6. t.data \in [Buffers -> [1 .. MaxSize -> Bytes]] /\ t.size \in [Buffers -> 0 .. MaxSize]
  BY <1>0, <1>2, <1>3, <1>5 DEF Sound
<1>7. /\ t.cur.data = s.cur.data /\ t.cur.cursize = at + n /\ t.cur.overflowed = over
      /\ t.cur.allowoverflow = s.cur.allowoverflow
      /\ DOMAIN t.cur = {"data", "cursize", "allowoverflow", "overflowed"}
      /\ t.cur = [f \in DOMAIN t.cur |-> t.cur[f]]
  <2>1. /\ DOMAIN s.cur = {"data", "cursize", "allowoverflow", "overflowed"}
        /\ s.cur = [f \in DOMAIN s.cur |-> s.cur[f]]
    BY DEF Sound
  <2>2. t.cur = [s.cur EXCEPT !.cursize = at + n, !.overflowed = over]
    BY <1>5
  <2> QED BY <2>1, <2>2
<1>8. Sound(t)
  <2>1. DOMAIN t = StreamFields
    BY <1>1 DEF Sound
  <2>2. LastMayOverflow(t.num, t.cur)
    <3>1. LastMayOverflow(s.num, s.cur)
      BY DEF Sound
    <3> QED BY <1>5, <1>7, <3>1 DEF LastMayOverflow
  <2>3. t.overflowed \in BOOLEAN /\ t.cur.overflowed \in BOOLEAN /\ t.cur.cursize \in 0 .. MaxSize
    BY <1>0, <1>3, <1>5, <1>7
  <2> QED BY <1>5, <1>6, <1>7, <2>1, <2>2, <2>3 DEF Sound
<1>9. t.data[s.cur.data] = row /\ \A i \in Buffers : i # s.cur.data => t.data[i] = s.data[i]
  BY <1>0, <1>5
<1> QED BY <1>a, <1>4, <1>5, <1>7, <1>8, <1>9

(* One that does not fit overflows the buffer, if it may, and the message. *)
LEMMA BackbufOverflowFacts ==
    ASSUME NEW s, Sound(s), s.num # 0, s.cur.allowoverflow,
           NEW b \in Seq(Bytes), s.cur.cursize + Len(b) > MaxSize,
           NEW k \in Nat, k <= Len(b), k <= MaxSize, NEW t, t = BackbufWrite(s, b, k)
    PROVE  /\ Sound(t) /\ t.message = s.message /\ t.forgiven = s.forgiven
           /\ t.overflowed /\ t.lost
<1>1. PICK c \in Seq(Bytes) : c = LastPart(b, k) /\ Len(c) = k
  BY LastPartFacts
<1> DEFINE row == [j \in 1 .. MaxSize |->
                     IF j \in 0 + 1 .. 0 + k THEN c[j - 0] ELSE s.data[s.cur.data][j]]
<1>0. /\ MaxSize \in Nat /\ s.cur.data \in Buffers
      /\ s.data \in [Buffers -> [1 .. MaxSize -> Bytes]] /\ s.num \in Buffers
  <2>1. MaxSize \in Nat /\ s.num \in 0 .. MAX_BACK_BUFFERS /\ MAX_BACK_BUFFERS \in Nat
    BY Sizes DEF Sound
  <2>2. s.num \in Buffers
    BY <2>1 DEF Buffers
  <2> QED BY <2>1, <2>2 DEF Sound
<1>2. row \in [1 .. MaxSize -> Bytes]
  <2>1. \A j \in 0 + 1 .. 0 + k : j - 0 \in 1 .. k
    OBVIOUS
  <2>2. \A i \in 1 .. k : c[i] \in Bytes
    BY <1>1
  <2>3. \A j \in 1 .. MaxSize : s.data[s.cur.data][j] \in Bytes
    BY <1>0
  <2> QED BY <2>1, <2>2, <2>3
<1>3. PICK w \in [1 .. MaxSize -> Bytes] : w = row
  BY <1>2
<1>z. PICK z \in Nat : z = 0 + k
  OBVIOUS
<1>4. t = [s EXCEPT !.data[s.cur.data] = w, !.cur.cursize = z, !.cur.overflowed = TRUE,
                    !.size[s.num] = z, !.overflowed = TRUE, !.lost = TRUE]
  <2> DEFINE q == [s EXCEPT !.data[s.cur.data] = [j \in 1 .. MaxSize |->
                               IF j \in 0 + 1 .. 0 + Len(c) THEN c[j - 0] ELSE @[j]],
                            !.cur.cursize = 0 + Len(c), !.cur.overflowed = s.cur.overflowed \/ TRUE,
                            !.size[s.num] = 0 + Len(c),
                            !.overflowed = s.overflowed \/ (s.cur.overflowed \/ TRUE),
                            !.lost = s.lost \/ TRUE]
  <2>1. t = q
    BY <1>1 DEF BackbufWrite
  <2> QED BY <1>1, <1>3, <1>z, <2>1
<1>5. z \in 0 .. MaxSize
  BY <1>0, <1>z
<1> HIDE DEF row
<1>6. /\ t.message = s.message /\ t.forgiven = s.forgiven /\ t.num = s.num
      /\ t.overflowed = TRUE /\ t.lost = TRUE /\ t.error = s.error
      /\ t.cur = [s.cur EXCEPT !.cursize = z, !.overflowed = TRUE]
      /\ t.size = [s.size EXCEPT ![s.num] = z]
      /\ t.data = [s.data EXCEPT ![s.cur.data] = w]
  BY <1>4 DEF Sound, StreamFields
<1>7. t.data \in [Buffers -> [1 .. MaxSize -> Bytes]] /\ t.size \in [Buffers -> 0 .. MaxSize]
  BY <1>0, <1>5, <1>6 DEF Sound
<1>8. /\ t.cur.data = s.cur.data /\ t.cur.cursize = z /\ t.cur.overflowed = TRUE
      /\ t.cur.allowoverflow = s.cur.allowoverflow
      /\ DOMAIN t.cur = {"data", "cursize", "allowoverflow", "overflowed"}
      /\ t.cur = [f \in DOMAIN t.cur |-> t.cur[f]]
  <2>1. /\ DOMAIN s.cur = {"data", "cursize", "allowoverflow", "overflowed"}
        /\ s.cur = [f \in DOMAIN s.cur |-> s.cur[f]]
    BY DEF Sound
  <2>2. t.cur = [s.cur EXCEPT !.cursize = z, !.overflowed = TRUE]
    BY <1>6
  <2> QED BY <2>1, <2>2
<1>9. DOMAIN t = StreamFields
  BY <1>4 DEF Sound
<1>10. LastMayOverflow(t.num, t.cur)
  BY <1>8 DEF LastMayOverflow
<1>11. Sound(t)
  BY <1>5, <1>6, <1>7, <1>8, <1>9, <1>10 DEF Sound
<1> QED BY <1>6, <1>11

(* Nothing else changes.                                                   *)
LEMMA BackbufWriteKeeps ==
    ASSUME NEW s, Sound(s), s.num # 0, NEW b \in Seq(Bytes),
           s.cur.cursize + Len(b) <= MaxSize \/ s.cur.allowoverflow,
           NEW k \in Nat, k <= Len(b), k <= MaxSize, NEW t, t = BackbufWrite(s, b, k)
    PROVE  /\ Sound(t) /\ t.message = s.message /\ t.forgiven = s.forgiven
           /\ t.lost => s.lost \/ t.overflowed
           /\ s.lost => t.lost
           /\ s.overflowed => t.overflowed
           /\ ~t.lost => s.cur.cursize + Len(b) <= MaxSize
<1>1. CASE s.cur.cursize + Len(b) <= MaxSize
  <2>1. /\ Sound(t) /\ t.message = s.message /\ t.forgiven = s.forgiven /\ t.num = s.num
        /\ t.overflowed = (s.overflowed \/ s.cur.overflowed) /\ t.lost = s.lost
        /\ t.cur.data = s.cur.data /\ t.cur.cursize = s.cur.cursize + Len(b)
        /\ t.size = [s.size EXCEPT ![s.num] = s.cur.cursize + Len(b)]
        /\ \A i \in Buffers : i # s.cur.data => t.data[i] = s.data[i]
        /\ \A j \in 1 .. MaxSize : t.data[s.cur.data][j] =
              IF j \in s.cur.cursize + 1 .. s.cur.cursize + Len(b)
              THEN b[j - s.cur.cursize] ELSE s.data[s.cur.data][j]
    BY <1>1, BackbufWriteFacts
  <2> QED BY <1>1, <2>1
<1>2. CASE ~(s.cur.cursize + Len(b) <= MaxSize)
  <2>1. s.cur.cursize + Len(b) > MaxSize
    BY <1>2, Sizes DEF Sound
  <2>2. Sound(t) /\ t.message = s.message /\ t.forgiven = s.forgiven /\ t.overflowed /\ t.lost
    BY <1>2, <2>1, BackbufOverflowFacts
  <2> QED BY <2>2
<1> QED BY <1>1, <1>2

-----------------------------------------------------------------------------
(* The order of the bytes                                                  *)

(* With no back buffer there is nothing in them.                           *)
LEMMA HoldsNothing ==
    ASSUME NEW s, s.num = 0
    PROVE  /\ Holds(s, <<>>)
           /\ \A q : Holds(s, q) => q = <<>>
<1>1. Laid(s, [i \in 0 .. 0 |-> 0], <<>>)
  BY DEF Laid
<1>2. ASSUME NEW q, Holds(s, q) PROVE q = <<>>
  <2>1. PICK off : Laid(s, off, q)
    BY <1>2 DEF Holds
  <2>2. q \in Seq(Bytes) /\ Len(q) = 0
    BY <2>1 DEF Laid
  <2> QED BY <2>2, EmptySeq
<1> QED BY <1>1, <1>2 DEF Holds

(* A new back buffer is empty.                                             *)
LEMMA HoldsNew ==
    ASSUME NEW s, Sound(s), NEW q, Holds(s, q), NEW t, s.num < MAX_BACK_BUFFERS,
           t.num = s.num + 1, t.data = s.data, t.size = [s.size EXCEPT ![s.num + 1] = 0],
           t.cur.data = t.num, t.cur.cursize = 0
    PROVE  Holds(t, q)
<1>1. PICK off : Laid(s, off, q)
  BY DEF Holds
<1>0. MaxSize \in Nat /\ MAX_BACK_BUFFERS \in Nat
  BY Sizes
<1>a. PICK n \in Nat : n = s.num /\ n < MAX_BACK_BUFFERS
  BY <1>0 DEF Sound
<1> DEFINE f == [i \in 0 .. n + 1 |-> IF i = n + 1 THEN off[n] ELSE off[i]]
<1>2. /\ n \in Nat /\ off \in [0 .. n -> Nat] /\ off[0] = 0
      /\ \A i \in 1 .. n : off[i] = off[i - 1] + s.size[i]
      /\ \A i, j \in 0 .. n : i <= j => off[i] <= off[j]
      /\ q \in Seq(Bytes) /\ Len(q) = off[n]
      /\ \A i \in 1 .. n, j \in 1 .. MaxSize : j <= s.size[i] => q[off[i - 1] + j] = s.data[i][j]
      /\ t.num = n + 1
  BY <1>1, <1>a DEF Laid
<1>3. /\ n + 1 \in Buffers /\ s.size \in [Buffers -> 0 .. MaxSize]
      /\ \A i \in 1 .. n : i \in Buffers /\ i # n + 1
  <2>1. s.size \in [Buffers -> 0 .. MaxSize]
    BY DEF Sound
  <2>2. n + 1 \in Buffers /\ \A i \in 1 .. n : i \in Buffers /\ i # n + 1
    BY <1>0, <1>a DEF Buffers
  <2> QED BY <2>1, <2>2
<1>4. t.size[n + 1] = 0 /\ \A i \in 1 .. n : t.size[i] = s.size[i]
  BY <1>a, <1>3
<1>5. f \in [0 .. n + 1 -> Nat] /\ f[n + 1] = off[n] /\ \A i \in 0 .. n : f[i] = off[i]
  <2>1. n \in 0 .. n /\ n + 1 \in 0 .. n + 1
    OBVIOUS
  <2>2. \A i \in 0 .. n + 1 : i # n + 1 => i \in 0 .. n
    OBVIOUS
  <2>3. \A i \in 0 .. n : i \in 0 .. n + 1 /\ i # n + 1
    OBVIOUS
  <2> QED BY <1>2, <2>1, <2>2, <2>3
<1> HIDE DEF f
<1>6. \A i \in 1 .. n + 1 : f[i] = f[i - 1] + t.size[i]
  <2>1. ASSUME NEW i \in 1 .. n + 1 PROVE f[i] = f[i - 1] + t.size[i]
    <3>1. CASE i = n + 1
      <4>1. i - 1 = n /\ n \in 0 .. n
        BY <3>1
      <4>2. f[i] = off[n] /\ f[i - 1] = off[n] /\ t.size[i] = 0 /\ off[n] \in Nat
        BY <1>2, <1>4, <1>5, <3>1, <4>1
      <4> QED BY <4>2
    <3>2. CASE i # n + 1
      <4>1. i \in 1 .. n /\ i \in 0 .. n /\ i - 1 \in 0 .. n
        BY <3>2
      <4> QED BY <1>2, <1>4, <1>5, <4>1
    <3> QED BY <3>1, <3>2
  <2> QED BY <2>1
<1>7. \A i, j \in 0 .. n + 1 : i <= j => f[i] <= f[j]
  <2>1. ASSUME NEW i \in 0 .. n + 1, NEW j \in 0 .. n + 1, i <= j PROVE f[i] <= f[j]
    <3>1. n \in 0 .. n /\ off[n] \in Nat
      BY <1>2
    <3>2. CASE i = n + 1
      BY <1>5, <2>1, <3>1, <3>2
    <3>3. CASE i # n + 1 /\ j = n + 1
      <4>1. i \in 0 .. n /\ i <= n
        BY <3>3
      <4> QED BY <1>2, <1>5, <3>1, <3>3, <4>1
    <3>4. CASE i # n + 1 /\ j # n + 1
      <4>1. i \in 0 .. n /\ j \in 0 .. n
        BY <3>4
      <4> QED BY <1>2, <1>5, <2>1, <4>1
    <3> QED BY <3>2, <3>3, <3>4
  <2> QED BY <2>1
<1>8. \A i \in 1 .. n + 1, j \in 1 .. MaxSize : j <= t.size[i] => q[f[i - 1] + j] = t.data[i][j]
  <2>1. ASSUME NEW i \in 1 .. n + 1, NEW j \in 1 .. MaxSize, j <= t.size[i] PROVE q[f[i - 1] + j] = t.data[i][j]
    <3>1. MaxSize \in Nat
      BY Sizes
    <3>2. i # n + 1
      BY <1>4, <2>1, <3>1
    <3>3. i \in 1 .. n /\ i - 1 \in 0 .. n
      BY <1>2, <3>2
    <3> QED BY <1>2, <1>4, <1>5, <2>1, <3>3
  <2> QED BY <2>1
<1>9. Laid(t, f, q)
  <2>1. n + 1 \in 0 .. n + 1 /\ 0 \in 0 .. n
    OBVIOUS
  <2>2. f[0] = 0 /\ Len(q) = f[n + 1]
    BY <1>2, <1>5, <2>1
  <2> QED BY <1>2, <1>5, <1>6, <1>7, <1>8, <2>2 DEF Laid
<1>10. t.num # 0 => t.cur.data = t.num /\ t.cur.cursize = t.size[t.num]
  BY <1>a, <1>4
<1> QED BY <1>9, <1>10 DEF Holds

(* A block goes behind what the last back buffer holds.                    *)
LEMMA HoldsBlock ==
    ASSUME NEW s, Sound(s), s.num # 0, NEW q, Holds(s, q),
           NEW b \in Seq(Bytes), s.cur.cursize + Len(b) <= MaxSize,
           NEW k1, NEW t, t = BackbufWrite(s, b, k1)
    PROVE  Holds(t, q \o b)
<1>1. PICK off : Laid(s, off, q)
  BY DEF Holds
<1>0. MaxSize \in Nat /\ MAX_BACK_BUFFERS \in Nat /\ Len(b) \in Nat
  BY Sizes
<1>a. PICK n \in Nat, at \in 0 .. MaxSize, k \in Nat :
         n = s.num /\ at = s.cur.cursize /\ k = Len(b)
  BY <1>0 DEF Sound
<1>b. n >= 1 /\ n \in Buffers /\ at + k <= MaxSize /\ \A i \in 1 .. n : i \in Buffers
  BY <1>0, <1>a DEF Sound, Buffers
<1> DEFINE f == [off EXCEPT ![n] = off[n] + k]
<1>2. /\ off \in [0 .. n -> Nat] /\ off[0] = 0
      /\ \A i \in 1 .. n : off[i] = off[i - 1] + s.size[i]
      /\ \A i, j \in 0 .. n : i <= j => off[i] <= off[j]
      /\ q \in Seq(Bytes) /\ Len(q) = off[n]
      /\ \A i \in 1 .. n, j \in 1 .. MaxSize : j <= s.size[i] => q[off[i - 1] + j] = s.data[i][j]
      /\ s.cur.data = n /\ at = s.size[n]
  BY <1>1, <1>a, <1>b DEF Laid, Holds
<1>3. /\ t.num = n /\ t.cur.data = n /\ t.cur.cursize = at + k
      /\ t.size = [s.size EXCEPT ![n] = at + k]
      /\ \A i \in Buffers : i # n => t.data[i] = s.data[i]
      /\ \A j \in 1 .. MaxSize : t.data[n][j] =
            IF j \in at + 1 .. at + k THEN b[j - at] ELSE s.data[n][j]
  <2>1. /\ t.num = s.num /\ t.cur.data = s.cur.data /\ t.cur.cursize = s.cur.cursize + Len(b)
        /\ Sound(t) /\ t.size = [s.size EXCEPT ![s.num] = s.cur.cursize + Len(b)]
        /\ \A i \in Buffers : i # s.cur.data => t.data[i] = s.data[i]
        /\ \A j \in 1 .. MaxSize : t.data[s.cur.data][j] =
              IF j \in s.cur.cursize + 1 .. s.cur.cursize + Len(b)
              THEN b[j - s.cur.cursize] ELSE s.data[s.cur.data][j]
    BY BackbufWriteFacts
  <2> QED BY <1>a, <1>2, <2>1
<1>4. /\ s.size \in [Buffers -> 0 .. MaxSize] /\ k \in Nat /\ MaxSize \in Nat /\ at \in 0 .. MaxSize
      /\ n \in Nat /\ n >= 1 /\ \A i \in 1 .. n : i \in Buffers
  BY <1>0, <1>a, <1>b DEF Sound
<1>5. t.size[n] = at + k /\ \A i \in 1 .. n : i # n => t.size[i] = s.size[i]
  BY <1>b, <1>3, <1>4
<1>6. /\ q \o b \in Seq(Bytes) /\ Len(q \o b) = off[n] + k
      /\ \A i \in 1 .. off[n] + k : (q \o b)[i] = IF i <= off[n] THEN q[i] ELSE b[i - off[n]]
  <2>1. q \in Seq(Bytes) /\ Len(q) = off[n]
    BY <1>2
  <2>2. /\ q \o b \in Seq(Bytes) /\ Len(q \o b) = Len(q) + Len(b)
        /\ \A i \in 1 .. Len(q) + Len(b) :
              (q \o b)[i] = IF i <= Len(q) THEN q[i] ELSE b[i - Len(q)]
    BY <2>1, ConcatProperties
  <2> QED BY <1>a, <2>1, <2>2
<1>7. PICK r : r = q \o b
  OBVIOUS
<1>8. f \in [0 .. n -> Nat] /\ f[n] = off[n] + k /\ \A i \in 0 .. n : i # n => f[i] = off[i]
  <2>1. n \in 0 .. n
    OBVIOUS
  <2>2. off[n] \in Nat
    BY <1>2, <2>1
  <2> QED BY <1>2, <1>4, <2>1, <2>2
<1>c. \A i \in 1 .. n : /\ i - 1 \in 0 .. n /\ i \in 0 .. n /\ n \in 0 .. n /\ i - 1 # n /\ i <= n
                        /\ i \in Nat /\ i \in Buffers
  BY <1>b
<1>d. \A i \in 1 .. n : /\ off[i - 1] \in Nat /\ off[i] \in Nat /\ off[n] \in Nat
                        /\ f[i - 1] = off[i - 1] /\ off[i] = off[i - 1] + s.size[i]
                        /\ off[i] <= off[n] /\ s.size[i] \in Nat /\ s.size[i] <= MaxSize
  <2>1. ASSUME NEW i \in 1 .. n
        PROVE  off[i - 1] \in Nat /\ off[i] \in Nat /\ off[n] \in Nat
    BY <1>2, <1>c
  <2>2. ASSUME NEW i \in 1 .. n
        PROVE  f[i - 1] = off[i - 1] /\ off[i] = off[i - 1] + s.size[i] /\ off[i] <= off[n]
    BY <1>2, <1>8, <1>c
  <2>3. ASSUME NEW i \in 1 .. n PROVE s.size[i] \in 0 .. MaxSize
    BY <1>4, <1>c
  <2> QED BY <1>0, <2>1, <2>2, <2>3
<1> HIDE DEF f
<1>9. \A i \in 1 .. n : f[i] = f[i - 1] + t.size[i]
  <2>1. ASSUME NEW i \in 1 .. n PROVE f[i] = f[i - 1] + t.size[i]
    <3>2. CASE i = n
      <4>1. f[n] = off[n] + k /\ off[n] = off[n - 1] + s.size[n] /\ f[n - 1] = off[n - 1]
            /\ off[n - 1] \in Nat
        BY <1>8, <1>d, <3>2
      <4>2. t.size[n] = s.size[n] + k /\ s.size[n] \in Nat
        BY <1>2, <1>5, <1>d, <3>2
      <4> QED BY <3>2, <4>1, <4>2
    <3>3. CASE i # n
      <4>1. f[i] = off[i] /\ t.size[i] = s.size[i]
        BY <1>5, <1>8, <1>c, <3>3
      <4> QED BY <1>d, <4>1
    <3> QED BY <3>2, <3>3
  <2> QED BY <2>1
<1>10. \A i, j \in 0 .. n : i <= j => f[i] <= f[j]
  <2>1. ASSUME NEW i \in 0 .. n, NEW j \in 0 .. n, i <= j PROVE f[i] <= f[j]
    <3>1. off[i] \in Nat /\ off[j] \in Nat /\ off[i] <= off[j]
      BY <1>2, <2>1
    <3>2. i = n => j = n
      BY <2>1
    <3>3. f[i] = (IF i = n THEN off[i] + k ELSE off[i]) /\ f[j] = (IF j = n THEN off[j] + k ELSE off[j])
      BY <1>8
    <3> QED BY <3>1, <3>2, <3>3
  <2> QED BY <2>1
<1>11. f[0] = 0
  <2>1. 0 \in 0 .. n /\ 0 # n
    BY <1>b
  <2> QED BY <1>2, <1>8, <2>1
<1>12. ASSUME NEW i \in 1 .. n, NEW j \in 1 .. MaxSize, j <= t.size[i]
       PROVE  r[f[i - 1] + j] = t.data[i][j]
  <2>1. /\ f[i - 1] = off[i - 1] /\ off[i - 1] \in Nat /\ off[i] \in Nat /\ off[n] \in Nat
        /\ off[i] = off[i - 1] + s.size[i] /\ off[i] <= off[n] /\ s.size[i] \in Nat
        /\ i \in Buffers /\ j \in Nat /\ j >= 1
    BY <1>0, <1>c, <1>d
  <2>2. CASE j <= s.size[i]
    <3>1. t.data[i][j] = s.data[i][j]
      <4>1. CASE i = n
        <5>1. ~(j \in at + 1 .. at + k)
          BY <1>2, <1>4, <2>1, <2>2, <4>1
        <5> QED BY <1>3, <4>1, <5>1
      <4>2. CASE i # n
        BY <1>3, <2>1, <4>2
      <4> QED BY <4>1, <4>2
    <3>2. off[i - 1] + j \in 1 .. off[n] + k /\ off[i - 1] + j <= off[n]
      <4>1. PICK x \in Nat, y \in Nat, z \in Nat : x = off[i - 1] /\ y = s.size[i] /\ z = off[n]
        BY <2>1
      <4>2. x + y <= z /\ j <= y
        BY <2>1, <2>2, <4>1
      <4>3. x + j \in 1 .. z + k /\ x + j <= z
        BY <2>1, <4>2
      <4> QED BY <4>1, <4>3
    <3>3. r[off[i - 1] + j] = q[off[i - 1] + j]
      BY <1>6, <1>7, <3>2
    <3>4. q[off[i - 1] + j] = s.data[i][j]
      BY <1>2, <2>2
    <3> QED BY <2>1, <3>1, <3>3, <3>4
  <2>3. CASE ~(j <= s.size[i])
    <3>1. i = n
      BY <1>5, <1>12, <2>3
    <3>2. j \in at + 1 .. at + k /\ at = s.size[n]
      <4>1. j <= at + k /\ at = s.size[n] /\ ~(j <= at)
        BY <1>2, <1>5, <1>12, <2>3, <3>1
      <4> QED BY <2>1, <4>1
    <3>3. t.data[n][j] = b[j - at]
      BY <1>3, <3>2
    <3>4. off[n - 1] + j \in 1 .. off[n] + k /\ ~(off[n - 1] + j <= off[n])
          /\ (off[n - 1] + j) - off[n] = j - at
      <4>1. PICK x \in Nat : x = off[n - 1]
        BY <2>1, <3>1
      <4>2. off[n] = x + at
        BY <2>1, <3>1, <3>2, <4>1
      <4>3. x + j \in 1 .. (x + at) + k /\ ~(x + j <= x + at) /\ (x + j) - (x + at) = j - at
        <5>1. /\ j \in Nat /\ j >= at + 1 /\ j <= at + k /\ at \in Nat
          BY <1>0, <2>1, <3>2
        <5>2. \A w \in Nat : w >= at + 1 /\ w <= at + k =>
                 x + w \in 1 .. (x + at) + k /\ ~(x + w <= x + at) /\ (x + w) - (x + at) = w - at
          BY <5>1
        <5> QED BY <5>1, <5>2
      <4> QED BY <4>1, <4>2, <4>3
    <3>5. r[off[n - 1] + j] = b[j - at]
      BY <1>6, <1>7, <3>4
    <3> QED BY <2>1, <3>1, <3>3, <3>5
  <2> QED BY <2>2, <2>3
<1>13. Laid(t, f, r)
  <2>1. r \in Seq(Bytes) /\ Len(r) = f[n]
    BY <1>6, <1>7, <1>8
  <2>2. t.num = n
    BY <1>3
  <2> QED BY <1>8, <1>9, <1>10, <1>11, <1>12, <2>1, <2>2 DEF Laid
<1>14. t.num # 0 => t.cur.data = t.num /\ t.cur.cursize = t.size[t.num]
  BY <1>3, <1>5
<1> QED BY <1>7, <1>13, <1>14 DEF Holds

(* The bytes of a back buffer.                                             *)
LEMMA ChunkFacts ==
    ASSUME NEW k \in 0 .. MaxSize, NEW row \in [1 .. MaxSize -> Bytes], NEW c, c = SubSeq(row, 1, k)
    PROVE  c \in Seq(Bytes) /\ Len(c) = k /\ \A j \in 1 .. k : c[j] = row[j]
<1>1. MaxSize \in Nat /\ k \in Nat
  BY Sizes
<1>2. c = [j \in 1 .. k |-> row[j]]
  BY <1>1
<1>3. \A j \in 1 .. k : row[j] \in Bytes
  BY <1>1
<1> QED BY <1>1, <1>2, <1>3

(* The first back buffer fits the message.                                 *)
Drains1(s) == s.num # 0 /\ Len(s.message) + s.size[1] < MaxSize

(* Its bytes c are in the message.                                         *)
DrainedTo(s, t, c) ==
    /\ Sound(t) /\ t.message = s.message \o c
    /\ t.forgiven = s.forgiven /\ t.overflowed = s.overflowed /\ t.lost = s.lost
    /\ t.num = s.num - 1 /\ t.num \in Nat
    /\ \A i \in 1 .. t.num : /\ i + 1 \in Buffers
                             /\ t.size[i] = s.size[i + 1]
                             /\ \A j \in 1 .. MaxSize : j <= s.size[i + 1] =>
                                   t.data[i][j] = s.data[i + 1][j]
    /\ t.num # 0 => t.cur.data = t.num /\ t.cur.cursize = t.size[t.num]

(* The others move up.                                                     *)
LEMMA DrainFacts ==
    ASSUME NEW s, Sound(s), Drains1(s), NEW t, t = Drain(s),
           NEW c, c = SubSeq(s.data[1], 1, s.size[1])
    PROVE  DrainedTo(s, t, c)
<1>0. MaxSize \in Nat /\ MAX_BACK_BUFFERS \in Nat /\ 1 \in Buffers
  BY Sizes
<1>1. PICK num \in Nat : num = s.num - 1 /\ num + 1 \in Buffers /\ num \in 0 .. MAX_BACK_BUFFERS
  <2>1. s.num \in 0 .. MAX_BACK_BUFFERS /\ s.num # 0
    BY DEF Sound, Drains1
  <2>2. s.num - 1 \in Nat /\ (s.num - 1) + 1 \in 1 .. MAX_BACK_BUFFERS /\ s.num - 1 \in 0 .. MAX_BACK_BUFFERS
    BY <1>0, <2>1
  <2> QED BY <2>2 DEF Buffers
<1>2. \A i \in 1 .. num : i \in Buffers /\ i + 1 \in Buffers
  BY <1>0, <1>1 DEF Buffers
<1> DEFINE data == [i \in Buffers |->
                      IF i <= num
                      THEN [j \in 1 .. MaxSize |->
                              IF j <= s.size[i + 1] THEN s.data[i + 1][j] ELSE s.data[i][j]]
                      ELSE s.data[i]]
           size == [i \in Buffers |-> IF i <= num THEN s.size[i + 1] ELSE s.size[i]]
           cur == [data |-> num, cursize |-> size[num], allowoverflow |-> FALSE, overflowed |-> FALSE]
           m == s.message \o c
<1>3. t = [s EXCEPT !.message = m, !.num = num, !.data = data, !.size = size,
                    !.cur = IF num = 0 THEN s.cur ELSE cur]
  BY <1>1 DEF Drain, Drains1
<1>4. /\ s.size \in [Buffers -> 0 .. MaxSize] /\ s.data \in [Buffers -> [1 .. MaxSize -> Bytes]]
      /\ s.message \in Seq(Bytes) /\ Len(s.message) + s.size[1] < MaxSize
  BY DEF Sound, Drains1
<1>5. c \in Seq(Bytes) /\ Len(c) = s.size[1]
  <2>1. PICK row \in [1 .. MaxSize -> Bytes], k \in 0 .. MaxSize : row = s.data[1] /\ k = s.size[1]
    BY <1>0, <1>4
  <2>2. c = SubSeq(row, 1, k)
    BY <2>1
  <2>3. c \in Seq(Bytes) /\ Len(c) = k
    BY <2>2, ChunkFacts
  <2> QED BY <2>1, <2>3
<1>6. m \in Seq(Bytes) /\ Len(m) <= MaxSize
  <2>1. m \in Seq(Bytes) /\ Len(m) = Len(s.message) + Len(c)
    BY <1>4, <1>5, ConcatProperties
  <2>2. Len(s.message) \in Nat /\ s.size[1] \in Nat
    BY <1>0, <1>4
  <2> QED BY <1>0, <1>4, <1>5, <2>1, <2>2
<1>7. ASSUME NEW i \in Buffers, i <= num PROVE i + 1 \in Buffers
  BY <1>0, <1>1, <1>7 DEF Buffers
<1>8. size \in [Buffers -> 0 .. MaxSize] /\ \A i \in 1 .. num : size[i] = s.size[i + 1]
  <2>1. ASSUME NEW i \in Buffers PROVE (IF i <= num THEN s.size[i + 1] ELSE s.size[i]) \in 0 .. MaxSize
    BY <1>4, <1>7
  <2> QED BY <1>2, <2>1
<1>9. data \in [Buffers -> [1 .. MaxSize -> Bytes]]
  <2>1. ASSUME NEW i \in Buffers
        PROVE  (IF i <= num
                THEN [j \in 1 .. MaxSize |->
                        IF j <= s.size[i + 1] THEN s.data[i + 1][j] ELSE s.data[i][j]]
                ELSE s.data[i]) \in [1 .. MaxSize -> Bytes]
    BY <1>4, <1>7
  <2> QED BY <2>1
<1>10. \A i \in 1 .. num, j \in 1 .. MaxSize : j <= s.size[i + 1] => data[i][j] = s.data[i + 1][j]
  <2>1. ASSUME NEW i \in 1 .. num, NEW j \in 1 .. MaxSize, j <= s.size[i + 1]
        PROVE  data[i][j] = s.data[i + 1][j]
    <3>1. i \in Buffers /\ i <= num
      BY <1>2
    <3>2. data[i] = [k \in 1 .. MaxSize |-> IF k <= s.size[i + 1] THEN s.data[i + 1][k] ELSE s.data[i][k]]
      BY <3>1
    <3> QED BY <2>1, <3>2
  <2> QED BY <2>1
<1>11. num # 0 => num \in Buffers
  <2>1. num \in 0 .. MAX_BACK_BUFFERS
    BY <1>1
  <2> QED BY <1>0, <2>1 DEF Buffers
<1>12. num # 0 => /\ cur.data = num /\ cur.cursize = size[num]
                  /\ cur.allowoverflow = FALSE /\ cur.overflowed = FALSE
                  /\ DOMAIN cur = {"data", "cursize", "allowoverflow", "overflowed"}
                  /\ cur = [f \in DOMAIN cur |-> cur[f]]
  OBVIOUS
<1> HIDE DEF data, size, cur, m
<1>13. /\ t.message = m /\ t.num = num /\ t.data = data /\ t.size = size
       /\ t.cur = (IF num = 0 THEN s.cur ELSE cur)
       /\ t.forgiven = s.forgiven /\ t.overflowed = s.overflowed /\ t.lost = s.lost
       /\ t.error = s.error /\ DOMAIN t = DOMAIN s
  BY <1>3 DEF Sound, StreamFields
<1>18. num # MAX_BACK_BUFFERS
  BY <1>0, <1>1 DEF Buffers
<1>19. LastMayOverflow(t.num, t.cur)
  BY <1>13, <1>18 DEF LastMayOverflow
<1>14. Sound(t)
  <2>1. CASE num = 0
    BY <1>1, <1>6, <1>8, <1>9, <1>13, <1>19, <2>1 DEF Sound
  <2>2. CASE num # 0
    <3>1. size[num] \in 0 .. MaxSize
      BY <1>8, <1>11, <2>2
    <3> QED BY <1>1, <1>6, <1>8, <1>9, <1>11, <1>12, <1>13, <1>19, <2>2, <3>1 DEF Sound
  <2> QED BY <2>1, <2>2
<1>15. t.num # 0 => t.cur.data = t.num /\ t.cur.cursize = t.size[t.num]
  BY <1>12, <1>13
<1>16. t.num = s.num - 1 /\ t.num \in Nat /\ t.message = s.message \o c
  BY <1>1, <1>13 DEF m
<1>17. \A i \in 1 .. t.num : /\ i + 1 \in Buffers
                             /\ t.size[i] = s.size[i + 1]
                             /\ \A j \in 1 .. MaxSize : j <= s.size[i + 1] =>
                                   t.data[i][j] = s.data[i + 1][j]
  BY <1>2, <1>8, <1>10, <1>13
<1> QED BY <1>13, <1>14, <1>15, <1>16, <1>17 DEF DrainedTo

(* What the message and the back buffers hold together stays.              *)
MovedUp(s, t, q) ==
    \E r : r \in Seq(Bytes) /\ Holds(t, r) /\ t.message \o r = s.message \o q

(* Draining keeps them.                                                    *)
LEMMA HoldsDrained ==
    ASSUME NEW s, Sound(s), NEW q, Holds(s, q), NEW t, t = Drain(s)
    PROVE  MovedUp(s, t, q)
<1> SUFFICES \E r : r \in Seq(Bytes) /\ Holds(t, r) /\ t.message \o r = s.message \o q
  BY DEF MovedUp
<1>1. CASE ~Drains1(s)
  <2>1. t = s
    BY <1>1 DEF Drain, Drains1
  <2>2. q \in Seq(Bytes)
    BY DEF Holds, Laid
  <2> QED BY <2>1, <2>2
<1>2. CASE Drains1(s)
  <2>1. PICK off : Laid(s, off, q)
    BY DEF Holds
  <2>2. PICK c : c = SubSeq(s.data[1], 1, s.size[1])
    OBVIOUS
  <2>3. /\ t.message = s.message \o c
        /\ t.num = s.num - 1 /\ t.num \in Nat
        /\ \A i \in 1 .. t.num : /\ i + 1 \in Buffers
                                 /\ t.size[i] = s.size[i + 1]
                                 /\ \A j \in 1 .. MaxSize : j <= s.size[i + 1] =>
                                       t.data[i][j] = s.data[i + 1][j]
        /\ t.num # 0 => t.cur.data = t.num /\ t.cur.cursize = t.size[t.num]
    <3>1. DrainedTo(s, t, c)
      BY <1>2, <2>2, DrainFacts
    <3> QED BY <3>1 DEF DrainedTo
  <2>4. PICK num \in Nat : num = t.num /\ s.num = num + 1
    BY <2>3 DEF Sound
  <2>5. /\ off \in [0 .. num + 1 -> Nat] /\ off[0] = 0
        /\ \A i \in 1 .. num + 1 : off[i] = off[i - 1] + s.size[i]
        /\ \A i, j \in 0 .. num + 1 : i <= j => off[i] <= off[j]
        /\ q \in Seq(Bytes) /\ Len(q) = off[num + 1]
        /\ \A i \in 1 .. num + 1, j \in 1 .. MaxSize : j <= s.size[i] => q[off[i - 1] + j] = s.data[i][j]
    BY <2>1, <2>4 DEF Laid
  <2>6. 1 \in Buffers /\ MaxSize \in Nat /\ s.size \in [Buffers -> 0 .. MaxSize]
        /\ s.data \in [Buffers -> [1 .. MaxSize -> Bytes]]
    BY Sizes DEF Sound
  <2>7. PICK k \in Nat, n \in Nat : k = off[1] /\ k = s.size[1] /\ k <= MaxSize /\ n = off[num + 1] /\ k <= n
    <3>1. 1 \in 0 .. num + 1 /\ num + 1 \in 0 .. num + 1 /\ 0 \in 0 .. num + 1 /\ 1 \in 1 .. num + 1
          /\ 1 <= num + 1 /\ 1 - 1 = 0
      OBVIOUS
    <3>2. off[1] \in Nat /\ off[num + 1] \in Nat /\ off[1] <= off[num + 1] /\ off[1] = 0 + s.size[1]
          /\ s.size[1] \in 0 .. MaxSize
      BY <2>5, <2>6, <3>1
    <3> QED BY <2>6, <3>2
  <2> DEFINE r == [i \in 1 .. n - k |-> q[k + i]]
             f == [i \in 0 .. num |-> off[i + 1] - k]
  <2>8. n - k \in Nat /\ \A i \in 1 .. n - k : k + i \in 1 .. n
    BY <2>7
  <2>9. r \in Seq(Bytes) /\ Len(r) = n - k /\ \A i \in 1 .. n - k : r[i] = q[k + i]
    <3>1. \A i \in 1 .. n : q[i] \in Bytes
      BY <2>5, <2>7
    <3> QED BY <2>8, <3>1
  <2>10. c \in Seq(Bytes) /\ Len(c) = k /\ \A j \in 1 .. k : c[j] = s.data[1][j]
    <3>1. PICK row \in [1 .. MaxSize -> Bytes] : row = s.data[1]
      BY <2>6
    <3>2. k \in 0 .. MaxSize /\ c = SubSeq(row, 1, k)
      BY <2>2, <2>6, <2>7, <3>1
    <3> QED BY <3>1, <3>2, ChunkFacts
  <2>11. PICK d : d = c \o r
    OBVIOUS
  <2>12. d = q
    <3> HIDE DEF r
    <3>1. /\ d \in Seq(Bytes) /\ Len(d) = k + (n - k)
          /\ \A i \in 1 .. k + (n - k) : d[i] = IF i <= k THEN c[i] ELSE r[i - k]
      BY <2>9, <2>10, <2>11, ConcatProperties
    <3>2. k + (n - k) = n
      OBVIOUS
    <3>3. ASSUME NEW i \in 1 .. n PROVE d[i] = q[i]
      <4>1. CASE i <= k
        <5>1. q[off[1 - 1] + i] = s.data[1][i]
          <6>1. 1 \in 1 .. num + 1 /\ i \in 1 .. MaxSize /\ i <= s.size[1]
            BY <2>6, <2>7, <4>1
          <6> QED BY <2>5, <6>1
        <5>2. off[1 - 1] + i = i
          BY <2>5
        <5> QED BY <2>10, <3>1, <3>2, <4>1, <5>1, <5>2
      <4>2. CASE ~(i <= k)
        <5>1. i - k \in 1 .. n - k /\ k + (i - k) = i
          BY <2>7, <4>2
        <5> QED BY <2>9, <3>1, <3>2, <4>2, <5>1
      <4> QED BY <4>1, <4>2
    <3>4. Len(q) = n /\ Len(d) = n
      BY <2>5, <2>7, <3>1, <3>2
    <3> QED BY <2>5, <3>1, <3>3, <3>4, SeqEqual
  <2>13. \A i \in 0 .. num : i + 1 \in 0 .. num + 1 /\ i + 1 \in 1 .. num + 1 /\ 1 <= i + 1 /\ 1 \in 0 .. num + 1
    OBVIOUS
  <2>14. \A i \in 0 .. num : off[i + 1] \in Nat /\ k <= off[i + 1] /\ f[i] = off[i + 1] - k /\ f[i] \in Nat
    <3>1. \A i \in 0 .. num : off[i + 1] \in Nat /\ k <= off[i + 1]
      BY <2>5, <2>7, <2>13
    <3> QED BY <2>7, <3>1
  <2>15. f \in [0 .. num -> Nat] /\ f[0] = 0 /\ f[num] = n - k
    <3>1. 0 \in 0 .. num /\ num \in 0 .. num /\ 0 + 1 = 1
      OBVIOUS
    <3>2. f[0] = off[1] - k /\ f[num] = off[num + 1] - k
      BY <2>14, <3>1
    <3>3. f[0] = 0 /\ f[num] = n - k
      BY <2>7, <3>2
    <3>4. f \in [0 .. num -> Nat]
      BY <2>14
    <3> QED BY <3>3, <3>4
  <2> HIDE DEF r, f
  <2>16. \A i \in 1 .. num : f[i] = f[i - 1] + t.size[i]
    <3>1. ASSUME NEW i \in 1 .. num PROVE f[i] = f[i - 1] + t.size[i]
      <4>1. i \in 0 .. num /\ i - 1 \in 0 .. num /\ i + 1 \in 1 .. num + 1 /\ (i - 1) + 1 = i /\ (i + 1) - 1 = i
        OBVIOUS
      <4>2. off[i + 1] = off[i] + s.size[i + 1] /\ t.size[i] = s.size[i + 1] /\ s.size[i + 1] \in 0 .. MaxSize
        BY <2>3, <2>4, <2>5, <2>6, <4>1
      <4>3. f[i] = off[i + 1] - k /\ f[i - 1] = off[i] - k /\ off[i] \in Nat /\ off[i + 1] \in Nat
        BY <2>14, <4>1
      <4> QED BY <2>6, <4>2, <4>3
    <3> QED BY <3>1
  <2>17. \A i, j \in 0 .. num : i <= j => f[i] <= f[j]
    <3>1. ASSUME NEW i \in 0 .. num, NEW j \in 0 .. num, i <= j PROVE f[i] <= f[j]
      <4>1. off[i + 1] <= off[j + 1]
        BY <2>5, <2>13, <3>1
      <4> QED BY <2>14, <4>1
    <3> QED BY <3>1
  <2>18. ASSUME NEW i \in 1 .. num, NEW j \in 1 .. MaxSize, j <= t.size[i]
         PROVE  r[f[i - 1] + j] = t.data[i][j]
    <3>1. i \in 0 .. num /\ i - 1 \in 0 .. num /\ i + 1 \in 1 .. num + 1 /\ (i - 1) + 1 = i /\ (i + 1) - 1 = i
      OBVIOUS
    <3>2. t.size[i] = s.size[i + 1] /\ t.data[i][j] = s.data[i + 1][j]
      BY <2>3, <2>4, <2>18
    <3>3. q[off[i] + j] = s.data[i + 1][j]
      BY <2>5, <2>18, <3>1, <3>2
    <3>4. PICK x \in Nat, y \in Nat : x = off[i] /\ f[i - 1] = x - k /\ k <= x /\ y = off[i + 1]
      BY <2>14, <3>1
    <3>5. y = x + s.size[i + 1] /\ y <= n /\ j \in Nat /\ j >= 1
      <4>1. off[i + 1] = off[i] + s.size[i + 1] /\ off[i + 1] <= off[num + 1]
        <5>1. i + 1 \in 0 .. num + 1 /\ num + 1 \in 0 .. num + 1 /\ i + 1 <= num + 1
          OBVIOUS
        <5> QED BY <2>5, <3>1, <5>1
      <4> QED BY <2>6, <2>7, <3>4, <4>1
    <3>6. j <= y - x /\ x + j <= n
      <4>1. PICK z \in Nat : z = s.size[i + 1]
        <5>1. i + 1 \in Buffers
          BY <2>3, <2>4
        <5> QED BY <2>6, <5>1
      <4>2. j <= z /\ y = x + z
        BY <2>18, <3>2, <3>5, <4>1
      <4> QED BY <3>5, <4>2
    <3>7. (x - k) + j \in 1 .. n - k /\ k + ((x - k) + j) = x + j
      BY <2>7, <3>4, <3>5, <3>6
    <3>8. r[(x - k) + j] = q[x + j]
      BY <2>9, <3>7
    <3> QED BY <3>2, <3>3, <3>4, <3>8
  <2>19. Laid(t, f, r)
    BY <2>4, <2>9, <2>15, <2>16, <2>17, <2>18 DEF Laid
  <2>20. Holds(t, r)
    BY <2>3, <2>19 DEF Holds
  <2>21. t.message \o r = s.message \o q
    <3>1. PICK m \in Seq(Bytes) : m = s.message
      BY DEF Sound
    <3>2. PICK e \in Seq(Bytes) : e = r
      BY <2>9
    <3>3. (m \o c) \o e = m \o (c \o e)
      BY <2>10, ConcatAssociative
    <3> QED BY <2>3, <2>11, <2>12, <3>1, <3>2, <3>3
  <2> QED BY <2>9, <2>20, <2>21
<1> QED BY <1>1, <1>2

(* A block goes to the message or behind the back buffers.                 *)
LEMMA ReliableWriteFacts ==
    ASSUME NEW s, Sound(s), NEW b \in Seq(Bytes), NEW k \in Nat, k <= Len(b), k <= MaxSize,
           NEW t, t = ReliableWrite(s, b, k)
    PROVE  /\ Sound(t) /\ t.forgiven = s.forgiven
           /\ t.lost => s.lost \/ t.overflowed
           /\ s.lost => t.lost
           /\ s.overflowed => t.overflowed
           /\ t.message = s.message \/ t.message = s.message \o b \/ t.overflowed
<1>1. PICK u : u = CheckBlock(s, Len(b))
  OBVIOUS
<1>2. /\ Sound(u) /\ u.message = s.message /\ u.forgiven = s.forgiven
      /\ u.num # 0 => u.cur.cursize + Len(b) <= MaxSize \/ u.cur.allowoverflow
      /\ \/ u = s
         \/ u.overflowed /\ u.lost
         \/ u.overflowed = s.overflowed /\ u.lost = s.lost
  <2>1. Len(b) \in Nat
    OBVIOUS
  <2>2. Checked(s, Len(b), u)
    BY <1>1, <2>1, CheckBlockFacts
  <2> QED BY <2>2 DEF Checked
<1>3. CASE u.num = 0
  <2>1. t = DirectWrite(u, b, k)
    BY <1>1, <1>3 DEF ReliableWrite
  <2>2. /\ Sound(t) /\ t.forgiven = u.forgiven
        /\ \/ t.message = u.message \o b /\ t.overflowed = u.overflowed /\ t.lost = u.lost
           \/ t.overflowed /\ t.lost
    <3>1. Sound(u)
      BY <1>2
    <3> QED BY <2>1, <3>1, DirectWriteFacts
  <2> QED BY <1>2, <2>2
<1>4. CASE u.num # 0
  <2>1. t = BackbufWrite(u, b, k)
    BY <1>1, <1>4 DEF ReliableWrite
  <2>2. /\ Sound(t) /\ t.message = u.message /\ t.forgiven = u.forgiven
        /\ t.lost => u.lost \/ t.overflowed
        /\ u.lost => t.lost
        /\ u.overflowed => t.overflowed
    <3>1. Sound(u) /\ u.num # 0 /\ (u.cur.cursize + Len(b) <= MaxSize \/ u.cur.allowoverflow)
      BY <1>2, <1>4
    <3> QED BY <2>1, <3>1, BackbufWriteKeeps
  <2> QED BY <1>2, <2>2
<1> QED BY <1>3, <1>4

(* In t, b is behind all that the stream s held.                           *)
Behind(s, t, b) ==
    \A q \in Seq(Bytes) : Holds(s, q) /\ ~t.lost =>
       \E r \in Seq(Bytes) : Holds(t, r) /\ t.message \o r = (s.message \o q) \o b

(* So it is either way.                                                    *)
LEMMA HoldsWritten ==
    ASSUME NEW s, Sound(s), NEW b \in Seq(Bytes), NEW k \in Nat, k <= Len(b), k <= MaxSize,
           NEW t, t = ReliableWrite(s, b, k)
    PROVE  Behind(s, t, b)
<1> SUFFICES ASSUME NEW q \in Seq(Bytes), Holds(s, q), ~t.lost
             PROVE  \E r \in Seq(Bytes) : Holds(t, r) /\ t.message \o r = (s.message \o q) \o b
  BY DEF Behind
<1>1. PICK u : u = CheckBlock(s, Len(b))
  OBVIOUS
<1>2. /\ Sound(u) /\ u.message = s.message
      /\ u.num # 0 => u.cur.cursize + Len(b) <= MaxSize \/ u.cur.allowoverflow
      /\ u.num = 0 => s.num = 0 /\ u = s
      /\ \/ u = s
         \/ u.lost
         \/ /\ s.num < MAX_BACK_BUFFERS /\ u.num = s.num + 1
            /\ u.data = s.data /\ u.size = [s.size EXCEPT ![s.num + 1] = 0]
            /\ u.cur.data = u.num /\ u.cur.cursize = 0
  <2>1. Len(b) \in Nat
    OBVIOUS
  <2>2. Checked(s, Len(b), u)
    BY <1>1, <2>1, CheckBlockFacts
  <2> QED BY <2>2 DEF Checked
<1>m. PICK m \in Seq(Bytes) : m = s.message
  BY DEF Sound
<1>3. CASE u.num = 0
  <2>1. t = DirectWrite(u, b, k)
    BY <1>1, <1>3 DEF ReliableWrite
  <2>2. t.num = s.num /\ t.message = m \o b
    <3>1. /\ t.num = u.num
          /\ \/ t.message = u.message \o b
             \/ t.lost
      <4>1. Sound(u)
        BY <1>2
      <4> QED BY <2>1, <4>1, DirectWriteFacts
    <3> QED BY <1>2, <1>3, <1>m, <3>1
  <2>3. q = <<>> /\ Holds(t, <<>>)
    BY <1>2, <1>3, <2>2, HoldsNothing
  <2>4. <<>> \in Seq(Bytes) /\ m \o <<>> = m /\ (m \o b) \o <<>> = m \o b
    <3>1. m \o b \in Seq(Bytes)
      BY <1>m, ConcatProperties
    <3> QED BY <1>m, <3>1, ConcatEmptySeq
  <2>5. t.message \o <<>> = (s.message \o q) \o b
    BY <1>m, <2>2, <2>3, <2>4
  <2> QED BY <2>3, <2>4, <2>5
<1>4. CASE u.num # 0
  <2>1. t = BackbufWrite(u, b, k)
    BY <1>1, <1>4 DEF ReliableWrite
  <2>2. t.message = m /\ ~u.lost /\ u.cur.cursize + Len(b) <= MaxSize
    <3>1. t.message = u.message /\ ~u.lost /\ u.cur.cursize + Len(b) <= MaxSize
      <4>1. Sound(u) /\ u.num # 0 /\ (u.cur.cursize + Len(b) <= MaxSize \/ u.cur.allowoverflow)
        BY <1>2, <1>4
      <4> QED BY <2>1, <4>1, BackbufWriteKeeps
    <3> QED BY <1>2, <1>m, <3>1
  <2>3. Holds(u, q)
    <3>1. CASE u = s
      BY <3>1
    <3>2. CASE /\ s.num < MAX_BACK_BUFFERS /\ u.num = s.num + 1
               /\ u.data = s.data /\ u.size = [s.size EXCEPT ![s.num + 1] = 0]
               /\ u.cur.data = u.num /\ u.cur.cursize = 0
      BY <3>2, HoldsNew
    <3> QED BY <1>2, <2>2, <3>1, <3>2
  <2>4. Holds(t, q \o b)
    BY <1>2, <1>4, <2>1, <2>2, <2>3, HoldsBlock
  <2>5. q \o b \in Seq(Bytes) /\ m \o (q \o b) = (m \o q) \o b
    <3>1. q \o b \in Seq(Bytes)
      BY ConcatProperties
    <3>2. (m \o q) \o b = m \o (q \o b)
      <4>1. m \in Seq(Bytes)
        BY <1>m
      <4> QED BY <4>1, ConcatAssociative
    <3> QED BY <3>1, <3>2
  <2>6. t.message \o (q \o b) = (s.message \o q) \o b
    BY <1>m, <2>2, <2>5
  <2> QED BY <2>4, <2>5, <2>6
<1> QED BY <1>3, <1>4

-----------------------------------------------------------------------------
(* The state                                                               *)

(* The last back buffer of a full row may overflow.                        *)
RowInv == num_backbuf = MAX_BACK_BUFFERS => backbuf.allowoverflow

(* What a step commits keeps its sizes.                                    *)
StreamOK ==
    /\ message \in Seq(Bytes) /\ Len(message) <= MaxSize
    /\ overflowed \in BOOLEAN
    /\ num_backbuf \in 0 .. MAX_BACK_BUFFERS
    /\ backbuf_size \in [Buffers -> 0 .. MaxSize]
    /\ backbuf_data \in [Buffers -> [1 .. MaxSize -> Bytes]]
    /\ backbuf \in [data : Buffers, cursize : 0 .. MaxSize,
                    allowoverflow : BOOLEAN, overflowed : BOOLEAN]
    /\ sys_error \in SysErrors
    /\ lost \in BOOLEAN /\ forgiven \in BOOLEAN
    /\ NoBackbufOverflow /\ RowInv

(* The stream is the record of the variables.                              *)
LEMMA StreamFacts ==
    /\ Stream.message = message /\ Stream.overflowed = overflowed /\ Stream.num = num_backbuf
    /\ Stream.size = backbuf_size /\ Stream.data = backbuf_data /\ Stream.cur = backbuf
    /\ Stream.lost = lost /\ Stream.forgiven = forgiven
    /\ BackbufInv /\ RowInv => Sound(Stream)
<1>1. /\ Stream.message = message /\ Stream.overflowed = overflowed /\ Stream.num = num_backbuf
      /\ Stream.size = backbuf_size /\ Stream.data = backbuf_data /\ Stream.cur = backbuf
      /\ Stream.lost = lost /\ Stream.forgiven = forgiven /\ Stream.error = sys_error
      /\ DOMAIN Stream = StreamFields
  BY DEF Stream, StreamFields
<1>2. ASSUME BackbufInv, RowInv PROVE Sound(Stream)
  <2>1. backbuf \in [data : Buffers, cursize : 0 .. MaxSize,
                     allowoverflow : BOOLEAN, overflowed : BOOLEAN]
    BY <1>2 DEF BackbufInv, TypeOK
  <2>2. /\ DOMAIN backbuf = {"data", "cursize", "allowoverflow", "overflowed"}
        /\ backbuf = [f \in DOMAIN backbuf |-> backbuf[f]]
        /\ backbuf.data \in Buffers /\ backbuf.cursize \in 0 .. MaxSize
        /\ backbuf.allowoverflow \in BOOLEAN /\ backbuf.overflowed \in BOOLEAN
    BY <2>1
  <2>3. GoesOn(sys_error)
    BY <1>2 DEF BackbufInv, NoBackbufOverflow, TypeOK, GoesOn
  <2>4. LastMayOverflow(Stream.num, Stream.cur)
    BY <1>1, <1>2 DEF RowInv, LastMayOverflow
  <2> QED BY <1>1, <1>2, <2>2, <2>3, <2>4 DEF Sound, BackbufInv, TypeOK
<1> QED BY <1>1, <1>2

(* A sound stream may be committed.                                        *)
LEMMA CommitSound ==
    ASSUME NEW s, Sound(s), Commit(s)
    PROVE  StreamOK'
<1>1. s.cur \in [data : Buffers, cursize : 0 .. MaxSize, allowoverflow : BOOLEAN, overflowed : BOOLEAN]
  <2>1. s.cur = [data |-> s.cur.data, cursize |-> s.cur.cursize,
                 allowoverflow |-> s.cur.allowoverflow, overflowed |-> s.cur.overflowed]
    BY DEF Sound
  <2>2. /\ s.cur.data \in Buffers /\ s.cur.cursize \in 0 .. MaxSize
        /\ s.cur.allowoverflow \in BOOLEAN /\ s.cur.overflowed \in BOOLEAN
    BY DEF Sound
  <2> QED BY <2>1, <2>2
<1>2. sys_error' # "no allowoverflow" /\ sys_error' \in SysErrors
  <2>1. GoesOn(s.error) /\ sys_error' = s.error
    BY DEF Commit, Sound
  <2> QED BY <2>1 DEF GoesOn
<1>3. num_backbuf' = MAX_BACK_BUFFERS => backbuf'.allowoverflow
  <2>1. LastMayOverflow(s.num, s.cur) /\ num_backbuf' = s.num /\ backbuf' = s.cur
    BY DEF Commit, Sound
  <2> QED BY <2>1 DEF LastMayOverflow
<1> QED BY <1>1, <1>2, <1>3 DEF Commit, Sound, StreamOK, NoBackbufOverflow, RowInv

(* And holds the same bytes then.                                          *)
LEMMA CommitHolds ==
    ASSUME NEW s, NEW q, Holds(s, q), Commit(s)
    PROVE  Holds(Stream, q)'
<1>1. /\ Stream'.num = s.num /\ Stream'.size = s.size /\ Stream'.data = s.data /\ Stream'.cur = s.cur
  BY DEF Commit, Stream
<1>2. PICK off : Laid(s, off, q)
  BY DEF Holds
<1>3. Laid(Stream, off, q)'
  BY <1>1, <1>2 DEF Laid
<1>4. (Stream.num # 0 => Stream.cur.data = Stream.num /\ Stream.cur.cursize = Stream.size[Stream.num])'
  BY <1>1 DEF Holds
<1> QED BY <1>3, <1>4 DEF Holds

(* What is written are bytes.                                              *)
LEMMA NextBytesFacts ==
    ASSUME written \in 0 .. MaxWritten, NEW n \in Nat, written + n <= MaxWritten
    PROVE  NextBytes(n) \in Seq(Bytes) /\ Len(NextBytes(n)) = n
<1>1. \A i \in 1 .. n : written + i \in Bytes
  BY Sizes DEF Bytes
<1> QED BY <1>1 DEF NextBytes

(* So is what follows a line.                                              *)
LEMMA BytesBehindFacts ==
    ASSUME written \in 0 .. MaxWritten, NEW v \in Nat, NEW n \in Nat,
           written + (v + n) <= MaxWritten
    PROVE  BytesBehind(v, n) \in Seq(Bytes) /\ Len(BytesBehind(v, n)) = n
<1>1. \A i \in 1 .. n : written + v + i \in Bytes
  BY Sizes DEF Bytes
<1> QED BY <1>1 DEF BytesBehind

HasDisconnect(x) == \E i \in DOMAIN x : x[i] = svc_disconnect

(* The states in which the spawn command may throw the message away.       *)
Signing == {"cs_preconnected", "cs_connected"}

(* What a stream whose log is l owes a client in state st, which has been  *)
(* sent o: a loss is pending or on its way, or no byte is out of order.    *)
Owed(s, l, st, o) ==
    /\ s.lost /\ ~s.forgiven =>
          s.overflowed \/ (st \notin Signing /\ HasDisconnect(o \o s.message))
    /\ ~s.lost => \E q \in Seq(Bytes) : Holds(s, q) /\ l = (o \o s.message) \o q

(* The inductive invariant.                                                *)
StreamInv == BackbufInv /\ RowInv /\ Owed(Stream, log, state, out)

(* The client goes on from state st to st2.                                *)
Moves(st, st2) == st2 = st \/ st \in Signing \/ st2 \notin Signing

(* It is owed the same there.                                              *)
LEMMA OwedMoves ==
    ASSUME NEW s, NEW l, NEW st, NEW st2, NEW o, Owed(s, l, st, o), Moves(st, st2)
    PROVE  Owed(s, l, st2, o)
BY DEF Owed, Moves

(* t is the stream s after b has been written to it.                       *)
Wrote(s, t, b) ==
    /\ Sound(t) /\ t.forgiven = s.forgiven
    /\ t.lost => s.lost \/ t.overflowed
    /\ s.lost => t.lost
    /\ s.overflowed => t.overflowed
    /\ t.message = s.message \/ t.message = s.message \o b \/ t.overflowed
    /\ Behind(s, t, b)

(* A reliable write is one.                                                *)
LEMMA ReliableWrote ==
    ASSUME NEW s, Sound(s), NEW b \in Seq(Bytes), NEW k \in Nat, k <= Len(b), k <= MaxSize,
           NEW t, t = ReliableWrite(s, b, k)
    PROVE  Wrote(s, t, b)
<1>1. /\ Sound(t) /\ t.forgiven = s.forgiven
      /\ t.lost => s.lost \/ t.overflowed
      /\ s.lost => t.lost
      /\ s.overflowed => t.overflowed
      /\ t.message = s.message \/ t.message = s.message \o b \/ t.overflowed
  BY ReliableWriteFacts
<1>2. Behind(s, t, b)
  BY HoldsWritten
<1> QED BY <1>1, <1>2 DEF Wrote

(* Without back buffers, or order, a write may go to the message.          *)
LEMMA DirectWrote ==
    ASSUME NEW s, Sound(s), s.num = 0 \/ s.lost,
           NEW b \in Seq(Bytes), NEW k \in Nat, k <= Len(b), k <= MaxSize,
           NEW t, t = DirectWrite(s, b, k)
    PROVE  Wrote(s, t, b)
<1>1. /\ Sound(t) /\ t.num = s.num /\ t.forgiven = s.forgiven
      /\ \/ t.message = s.message \o b /\ t.overflowed = s.overflowed /\ t.lost = s.lost
         \/ t.overflowed /\ t.lost
  BY DirectWriteFacts
<1>2. ASSUME NEW q \in Seq(Bytes), Holds(s, q), ~t.lost
      PROVE  \E r \in Seq(Bytes) : Holds(t, r) /\ t.message \o r = (s.message \o q) \o b
  <2>1. s.num = 0 /\ t.num = 0 /\ t.message = s.message \o b
    BY <1>1, <1>2
  <2>2. q = <<>> /\ Holds(t, <<>>)
    BY <1>2, <2>1, HoldsNothing
  <2>3. PICK m \in Seq(Bytes) : m = s.message
    BY DEF Sound
  <2>4. <<>> \in Seq(Bytes) /\ m \o <<>> = m /\ (m \o b) \o <<>> = m \o b
    <3>1. m \o b \in Seq(Bytes)
      BY <2>3, ConcatProperties
    <3> QED BY <2>3, <3>1, ConcatEmptySeq
  <2>5. t.message \o <<>> = (s.message \o q) \o b
    BY <2>1, <2>2, <2>3, <2>4
  <2> QED BY <2>2, <2>4, <2>5
<1> QED BY <1>1, <1>2 DEF Wrote, Behind

(* What is written goes behind what was sent before.                       *)
LEMMA DisconnectStays ==
    ASSUME NEW a \in Seq(Bytes), NEW b \in Seq(Bytes)
    PROVE  /\ HasDisconnect(a) => HasDisconnect(a \o b)
           /\ HasDisconnect(b) => HasDisconnect(a \o b)
<1>0. Len(a) \in Nat /\ Len(b) \in Nat
  OBVIOUS
<1>1. /\ a \o b \in Seq(Bytes) /\ Len(a \o b) = Len(a) + Len(b)
      /\ \A i \in 1 .. Len(a) + Len(b) : (a \o b)[i] = IF i <= Len(a) THEN a[i] ELSE b[i - Len(a)]
  BY ConcatProperties
<1>2. PICK c \in Seq(Bytes) : c = a \o b
  BY <1>1
<1>3. DOMAIN a = 1 .. Len(a) /\ DOMAIN b = 1 .. Len(b) /\ DOMAIN c = 1 .. Len(a) + Len(b)
  BY <1>1, <1>2
<1>4. ASSUME HasDisconnect(a) PROVE HasDisconnect(c)
  <2>1. PICK i \in 1 .. Len(a) : a[i] = svc_disconnect
    BY <1>3, <1>4 DEF HasDisconnect
  <2>2. i \in 1 .. Len(a) + Len(b) /\ i <= Len(a)
    BY <1>0
  <2> QED BY <1>1, <1>2, <1>3, <2>1, <2>2 DEF HasDisconnect
<1>5. ASSUME HasDisconnect(b) PROVE HasDisconnect(c)
  <2>1. PICK i \in 1 .. Len(b) : b[i] = svc_disconnect
    BY <1>3, <1>5 DEF HasDisconnect
  <2>2. Len(a) + i \in 1 .. Len(a) + Len(b) /\ ~(Len(a) + i <= Len(a)) /\ (Len(a) + i) - Len(a) = i
    BY <1>0
  <2> QED BY <1>1, <1>2, <1>3, <2>1, <2>2 DEF HasDisconnect
<1> QED BY <1>2, <1>4, <1>5

(* Sequences in a row, grouped one way and the other.                      *)
Strings == Seq(Bytes)

Joined(a, b) == a \o b

(* Joining is associative.                                                 *)
LEMMA Regrouped ==
    \A a, b, c \in Strings :
       Joined(Joined(a, b), c) = Joined(a, Joined(b, c)) /\ Joined(a, b) \in Strings
<1> SUFFICES ASSUME NEW a \in Strings, NEW b \in Strings, NEW c \in Strings
             PROVE  Joined(Joined(a, b), c) = Joined(a, Joined(b, c)) /\ Joined(a, b) \in Strings
  OBVIOUS
<1>1. (a \o b) \o c = a \o (b \o c)
  BY ConcatAssociative DEF Strings
<1>2. a \o b \in Seq(Bytes)
  BY ConcatProperties DEF Strings
<1> QED BY <1>1, <1>2 DEF Joined, Strings

(* The same sequence behind two, of which the first is the same.           *)
LEMMA SameBehind ==
    ASSUME NEW o \in Strings, NEW m \in Strings, NEW q \in Strings, NEW b \in Strings,
           NEW e \in Strings, NEW r \in Strings,
           Joined(e, r) = Joined(Joined(m, q), b)
    PROVE  Joined(Joined(Joined(o, m), q), b) = Joined(Joined(o, e), r)
<1>1. Joined(Joined(o, m), q) = Joined(o, Joined(m, q)) /\ Joined(m, q) \in Strings
  BY Regrouped
<1>2. Joined(Joined(o, Joined(m, q)), b) = Joined(o, Joined(Joined(m, q), b))
  BY <1>1, Regrouped
<1>3. Joined(Joined(o, e), r) = Joined(o, Joined(e, r))
  BY Regrouped
<1> QED BY <1>1, <1>2, <1>3

(* And what is owed stays the same.                                        *)
LEMMA WroteOwed ==
    ASSUME NEW s, Sound(s), NEW l, NEW st, NEW o \in Seq(Bytes), Owed(s, l, st, o),
           NEW b \in Seq(Bytes), NEW t, Wrote(s, t, b)
    PROVE  Owed(t, l \o b, st, o)
<1>1. PICK m \in Seq(Bytes) : m = s.message
  BY DEF Sound
<1>2. PICK e \in Seq(Bytes) : e = t.message
  BY DEF Wrote, Sound
<1>3. ASSUME t.lost, ~t.forgiven, ~t.overflowed
      PROVE  st \notin Signing /\ HasDisconnect(o \o e)
  <2>1. st \notin Signing /\ HasDisconnect(o \o m)
    BY <1>1, <1>3 DEF Wrote, Owed
  <2>2. e = m \/ e = m \o b
    BY <1>1, <1>2, <1>3 DEF Wrote
  <2>3. HasDisconnect((o \o m) \o b)
    <3>1. o \o m \in Seq(Bytes)
      BY <1>1, ConcatProperties
    <3> QED BY <2>1, <3>1, DisconnectStays
  <2>4. (o \o m) \o b = o \o (m \o b)
    BY ConcatAssociative
  <2> QED BY <2>1, <2>2, <2>3, <2>4
<1>4. ASSUME ~t.lost
      PROVE  \E r \in Seq(Bytes) : Holds(t, r) /\ l \o b = (o \o e) \o r
  <2>1. ~s.lost
    BY <1>4 DEF Wrote
  <2>2. PICK q \in Seq(Bytes) : Holds(s, q) /\ l = (o \o m) \o q
    BY <1>1, <2>1 DEF Owed
  <2>3. PICK r \in Seq(Bytes) : Holds(t, r) /\ e \o r = (m \o q) \o b
    BY <1>1, <1>2, <1>4, <2>2 DEF Wrote, Behind
  <2>4. ((o \o m) \o q) \o b = (o \o e) \o r
    <3>1. Joined(e, r) = Joined(Joined(m, q), b)
      BY <2>3 DEF Joined
    <3>2. /\ o \in Strings /\ m \in Strings /\ q \in Strings
          /\ b \in Strings /\ e \in Strings /\ r \in Strings
      BY DEF Strings
    <3>3. Joined(Joined(Joined(o, m), q), b) = Joined(Joined(o, e), r)
      BY <3>1, <3>2, SameBehind
    <3> QED BY <3>3 DEF Joined
  <2> QED BY <2>2, <2>3, <2>4
<1> QED BY <1>2, <1>3, <1>4 DEF Owed

(* A step that leaves a stream in order leaves the invariant.              *)
LEMMA CommitStep ==
    ASSUME NEW s, Sound(s), Commit(s), Owed(s, log', state', out'), state' \in States,
           reliable_buf' \in Seq(Bytes), Len(reliable_buf') <= MaxSize,
           send_message' \in BOOLEAN, out' \in Seq(Bytes), log' \in Seq(Bytes),
           written' \in 0 .. MaxWritten, drops' \in 0 .. MaxDrops
    PROVE  StreamInv'
<1>1. StreamOK'
  BY CommitSound
<1>2. BackbufInv' /\ RowInv'
  BY <1>1 DEF BackbufInv, TypeOK, StreamOK
<1>3. /\ Stream'.message = s.message /\ Stream'.overflowed = s.overflowed
      /\ Stream'.lost = s.lost /\ Stream'.forgiven = s.forgiven
  BY DEF Commit, Stream
<1>4. ASSUME ~s.lost
      PROVE  \E q \in Seq(Bytes) : Holds(Stream, q)' /\ log' = (out' \o s.message) \o q
  <2>1. PICK q \in Seq(Bytes) : Holds(s, q) /\ log' = (out' \o s.message) \o q
    BY <1>4 DEF Owed
  <2>2. Holds(Stream, q)'
    BY <2>1, CommitHolds
  <2> QED BY <2>1, <2>2
<1>5. Owed(Stream, log, state, out)'
  BY <1>3, <1>4 DEF Owed
<1> QED BY <1>2, <1>5 DEF StreamInv

-----------------------------------------------------------------------------
(* The steps                                                               *)

(* One that writes b behind what is kept.                                  *)
LEMMA AnswerStep ==
    ASSUME BackbufInv, NEW s, Sound(s), NEW kept \in Seq(Bytes), Owed(s, kept, state', out),
           NEW b \in Seq(Bytes), NEW t, Wrote(s, t, b), Commit(t),
           NEW k \in Nat, written + k <= MaxWritten,
           log' = kept \o b, written' = written + k, state' \in States,
           UNCHANGED <<reliable_buf, send_message, out, drops>>
    PROVE  StreamInv'
<1>1. Sound(t)
  BY DEF Wrote
<1>2. out \in Seq(Bytes) /\ written \in 0 .. MaxWritten /\ drops \in 0 .. MaxDrops
  BY DEF BackbufInv, TypeOK
<1>3. Owed(t, log', state', out')
  <2>1. Owed(t, kept \o b, state', out)
    BY <1>2, WroteOwed
  <2> QED BY <2>1
<1>4. kept \o b \in Seq(Bytes)
  BY ConcatProperties
<1>5. written + k \in 0 .. MaxWritten
  BY <1>2, Sizes
<1>6. /\ reliable_buf' \in Seq(Bytes) /\ Len(reliable_buf') <= MaxSize
      /\ send_message' \in BOOLEAN /\ out' \in Seq(Bytes) /\ drops' \in 0 .. MaxDrops
  BY DEF BackbufInv, TypeOK
<1> QED BY <1>1, <1>3, <1>4, <1>5, <1>6, CommitStep

(* Throwing everything away leaves nothing to owe.                         *)
LEMMA ClearFacts ==
    ASSUME NEW s, Sound(s), NEW t, t = SV_ClearReliable(s), NEW st, NEW o \in Seq(Bytes)
    PROVE  Sound(t) /\ t.num = 0 /\ Owed(t, o, st, o)
<1>1. /\ t.message = <<>> /\ t.overflowed = FALSE /\ t.num = 0 /\ t.lost = FALSE
      /\ t.forgiven = FALSE /\ t.size = s.size /\ t.data = s.data /\ t.cur = s.cur
      /\ t.error = s.error /\ DOMAIN t = DOMAIN s
  BY DEF SV_ClearReliable, SZ_Clear, Sound, StreamFields
<1>2. <<>> \in Seq(Bytes) /\ Len(<<>>) = 0 /\ 0 \in 0 .. MAX_BACK_BUFFERS /\ 0 <= MaxSize
  BY Sizes
<1>7. LastMayOverflow(t.num, t.cur)
  BY <1>1, Sizes DEF LastMayOverflow
<1>3. Sound(t)
  BY <1>1, <1>2, <1>7 DEF Sound
<1>4. Holds(t, <<>>)
  BY <1>1, HoldsNothing
<1>5. o = (o \o t.message) \o <<>>
  BY <1>1, ConcatEmptySeq
<1>6. Owed(t, o, st, o)
  BY <1>1, <1>2, <1>4, <1>5 DEF Owed
<1> QED BY <1>1, <1>3, <1>6

(* The bytes in the back buffers depend on nothing else.                   *)
LEMMA HoldsSame ==
    ASSUME NEW s, NEW q, Holds(s, q), NEW t,
           t.num = s.num, t.size = s.size, t.data = s.data, t.cur = s.cur
    PROVE  Holds(t, q)
<1>1. PICK off : Laid(s, off, q)
  BY DEF Holds
<1>2. Laid(t, off, q)
  BY <1>1 DEF Laid
<1> QED BY <1>2 DEF Holds

(* A part of a sequence has its elements.                                  *)
LEMMA SubSeqElements ==
    ASSUME NEW l, NEW c \in Int, NEW d \in Int, \A i \in c .. d : l[i] \in Bytes
    PROVE  \A i \in 1 .. d - c + 1 : SubSeq(l, c, d)[i] = l[c + i - 1]
BY SubSeqProperties

(* The log taken apart where the message ends.                             *)
LEMMA LogParts ==
    ASSUME NEW o \in Seq(Bytes), NEW m \in Seq(Bytes), NEW q \in Seq(Bytes),
           NEW l, l = (o \o m) \o q
    PROVE  /\ SubSeq(l, 1, Len(o) + Len(m)) = o \o m
           /\ SubSeq(l, Len(o) + Len(m) + 1, Len(l)) = q
<1>1. o \o m \in Seq(Bytes) /\ Len(o \o m) = Len(o) + Len(m)
  BY ConcatProperties
<1>a. PICK a \in Seq(Bytes) : a = o \o m /\ Len(a) = Len(o) + Len(m)
  BY <1>1
<1>2. PICK k \in Nat : k = Len(a) /\ k = Len(o) + Len(m) /\ a = o \o m
  BY <1>a
<1>3. /\ l \in Seq(Bytes) /\ Len(l) = k + Len(q)
      /\ \A i \in 1 .. k + Len(q) : l[i] = IF i <= k THEN a[i] ELSE q[i - k]
  <2>1. l = a \o q
    BY <1>2
  <2> QED BY <1>2, <2>1, ConcatProperties
<1>4. PICK n \in Nat : n = Len(q)
  OBVIOUS
<1>5. SubSeq(l, 1, k) = a
  <2>1. PICK x : x = SubSeq(l, 1, k)
    OBVIOUS
  <2>2. \A i \in 1 .. k : l[i] \in Bytes /\ l[i] = a[i]
    <3>1. \A i \in 1 .. k : i \in 1 .. k + n /\ i <= k
      BY <1>4
    <3> QED BY <1>2, <1>3, <1>4, <3>1
  <2>3. x = [i \in 1 .. k |-> l[i]]
    BY <1>2, <2>1
  <2>4. x = [i \in 1 .. k |-> a[i]]
    BY <2>2, <2>3
  <2>5. a = [i \in 1 .. k |-> a[i]]
    <3>1. a \in [1 .. k -> Bytes]
      BY <1>2, LenProperties
    <3> QED BY <3>1
  <2> QED BY <2>1, <2>4, <2>5
<1>6. SubSeq(l, k + 1, Len(l)) = q
  <2>1. PICK c \in Int, d \in Int : c = k + 1 /\ d = k + n
    OBVIOUS
  <2>2. PICK x : x = SubSeq(l, c, d)
    OBVIOUS
  <2>3. \A i \in c .. d : l[i] \in Bytes
    <3>1. \A i \in c .. d : i \in 1 .. k + n
      BY <2>1
    <3> QED BY <1>3, <1>4, <3>1
  <2>4. x \in Seq(Bytes)
    BY <2>2, <2>3, SubSeqProperties
  <2>b. Len(x) = IF c <= d THEN d - c + 1 ELSE 0
    <3>1. Len(SubSeq(l, c, d)) = IF c <= d THEN d - c + 1 ELSE 0
      BY <2>3, SubSeqProperties
    <3> QED BY <2>2, <3>1
  <2>a. \A i \in 1 .. d - c + 1 : x[i] = l[c + i - 1]
    <3>1. \A i \in 1 .. d - c + 1 : SubSeq(l, c, d)[i] = l[c + i - 1]
      BY <2>3, SubSeqElements
    <3> QED BY <2>2, <3>1
  <2>5. d - c + 1 = n /\ (IF c <= d THEN d - c + 1 ELSE 0) = n /\ \A i \in 1 .. n : c + i - 1 = k + i
    BY <2>1
  <2>6. \A i \in 1 .. n : x[i] = q[i]
    <3>1. \A i \in 1 .. n : k + i \in 1 .. k + n /\ ~(k + i <= k) /\ (k + i) - k = i
      OBVIOUS
    <3> QED BY <1>3, <1>4, <2>5, <2>a, <3>1
  <2>7. x = q
    BY <1>4, <2>4, <2>5, <2>6, <2>b, SeqEqual
  <2> QED BY <1>3, <1>4, <2>1, <2>2, <2>7
<1> QED BY <1>2, <1>5, <1>6

(* A block of the game.                                                    *)
LEMMA WriteStep ==
    ASSUME StreamInv, NEW n \in BlockSizes, ClientReliableWrite(n)
    PROVE  StreamInv'
<1>1. n \in Nat
  BY Sizes
<1>2. BackbufInv /\ RowInv /\ Owed(Stream, log, state, out)
  BY DEF StreamInv
<1>3. written \in 0 .. MaxWritten /\ written + n <= MaxWritten /\ log \in Seq(Bytes)
      /\ state \in States
  BY <1>2 DEF BackbufInv, TypeOK, ClientReliableWrite, Writes
<1>4. PICK b \in Seq(Bytes) : b = NextBytes(n) /\ Len(b) = n
  BY <1>1, <1>3, NextBytesFacts
<1>5. PICK s : s = Stream
  OBVIOUS
<1>6. Sound(s) /\ Owed(s, log, state, out)
  BY <1>2, <1>5, StreamFacts
<1>7. PICK k \in LastParts(n) : Commit(ReliableWrite(s, b, k))
  BY <1>4, <1>5 DEF ClientReliableWrite
<1>8. k \in Nat /\ k <= Len(b) /\ k <= MaxSize
  BY <1>1, <1>4, LastPartsFacts
<1>9. PICK t : t = ReliableWrite(s, b, k)
  OBVIOUS
<1>10. Wrote(s, t, b)
  BY <1>6, <1>8, <1>9, ReliableWrote
<1>11. /\ Commit(t) /\ log' = log \o b /\ written' = written + n /\ state' = state
       /\ UNCHANGED <<reliable_buf, send_message, out, drops>>
  BY <1>4, <1>7, <1>9 DEF ClientReliableWrite, Writes, LineLog
<1>12. Owed(s, log, state', out) /\ state' \in States
  BY <1>3, <1>6, <1>11
<1> QED BY <1>1, <1>2, <1>3, <1>6, <1>10, <1>11, <1>12, AnswerStep

(* The block that stops the server.                                        *)
LEMMA TooLargeStep ==
    ASSUME StreamInv, NEW n, WriteTooLarge(n)
    PROVE  StreamInv'
<1>1. BackbufInv /\ RowInv /\ Owed(Stream, log, state, out)
  BY DEF StreamInv
<1>2. PICK s : s = Stream
  OBVIOUS
<1>3. Sound(s) /\ Owed(s, log, state, out)
  BY <1>1, <1>2, StreamFacts
<1>4. PICK t : t = [s EXCEPT !.error = "over maxsize"]
  OBVIOUS
<1>5. /\ t.message = s.message /\ t.overflowed = s.overflowed /\ t.num = s.num
      /\ t.size = s.size /\ t.data = s.data /\ t.cur = s.cur /\ t.lost = s.lost
      /\ t.forgiven = s.forgiven /\ t.error = "over maxsize" /\ DOMAIN t = DOMAIN s
  BY <1>3, <1>4 DEF Sound, StreamFields
<1>6. Sound(t)
  <2>1. GoesOn(t.error)
    BY <1>5 DEF GoesOn, SysErrors
  <2> QED BY <1>3, <1>5, <2>1 DEF Sound
<1>7. Commit(t)
  <2>1. /\ s.message = message /\ s.overflowed = overflowed /\ s.num = num_backbuf
        /\ s.size = backbuf_size /\ s.data = backbuf_data /\ s.cur = backbuf
        /\ s.lost = lost /\ s.forgiven = forgiven
    BY <1>2, StreamFacts
  <2> QED BY <1>5, <2>1 DEF Commit, WriteTooLarge, queue
<1>8. Owed(t, log, state, out)
  <2>1. ASSUME ~t.lost
        PROVE  \E q \in Seq(Bytes) : Holds(t, q) /\ log = (out \o t.message) \o q
    <3>1. PICK q \in Seq(Bytes) : Holds(s, q) /\ log = (out \o s.message) \o q
      BY <1>3, <1>5, <2>1 DEF Owed
    <3>2. Holds(t, q)
      BY <1>5, <3>1, HoldsSame
    <3> QED BY <1>5, <3>1, <3>2
  <2>2. ASSUME t.lost, ~t.forgiven
        PROVE  t.overflowed \/ (state \notin Signing /\ HasDisconnect(out \o t.message))
    BY <1>3, <1>5, <2>2 DEF Owed
  <2> QED BY <2>1, <2>2 DEF Owed
<1>9. /\ Owed(t, log', state', out') /\ state' \in States
      /\ reliable_buf' \in Seq(Bytes) /\ Len(reliable_buf') <= MaxSize
      /\ send_message' \in BOOLEAN /\ out' \in Seq(Bytes) /\ log' \in Seq(Bytes)
      /\ written' \in 0 .. MaxWritten /\ drops' \in 0 .. MaxDrops
  BY <1>1, <1>8 DEF WriteTooLarge, BackbufInv, TypeOK
<1> QED BY <1>6, <1>7, <1>9, CommitStep

(* A write that goes ahead of what waits keeps the order of the log.       *)
LEMMA AheadOwed ==
    ASSUME NEW s, Sound(s), out \in Seq(Bytes), NEW l \in Seq(Bytes), NEW st,
           Owed(s, l, st, out),
           NEW b \in Seq(Bytes), NEW k \in Nat, k <= Len(b), k <= MaxSize,
           NEW t, t = DirectWrite(s, b, k)
    PROVE  Owed(t, Ahead(l, s, b), st, out) /\ Ahead(l, s, b) \in Seq(Bytes)
<1>1. PICK m \in Seq(Bytes) : m = s.message
  BY DEF Sound
<1>2. /\ Sound(t)
      /\ t.num = s.num /\ t.size = s.size /\ t.data = s.data /\ t.cur = s.cur
      /\ t.forgiven = s.forgiven
      /\ \/ t.message = m \o b /\ t.overflowed = s.overflowed /\ t.lost = s.lost
         \/ t.overflowed /\ t.lost
  BY <1>1, DirectWriteFacts
<1>3. m \o b \in Seq(Bytes) /\ (out \o m) \o b = out \o (m \o b)
  <2>1. out \in Strings /\ m \in Strings /\ b \in Strings
    BY DEF Strings
  <2>2. Joined(Joined(out, m), b) = Joined(out, Joined(m, b)) /\ Joined(m, b) \in Strings
    BY <2>1, Regrouped
  <2> QED BY <2>2 DEF Joined, Strings
<1>4. ASSUME t.lost, ~t.forgiven, ~t.overflowed
      PROVE  st \notin Signing /\ HasDisconnect(out \o t.message)
  <2>1. t.message = m \o b /\ st \notin Signing /\ HasDisconnect(out \o m)
    BY <1>1, <1>2, <1>4 DEF Owed
  <2>2. out \o m \in Seq(Bytes)
    BY ConcatProperties
  <2>3. HasDisconnect((out \o m) \o b)
    BY <2>1, <2>2, DisconnectStays
  <2> QED BY <1>3, <2>1, <2>3
<1>5. ASSUME ~s.lost
      PROVE  \E q \in Seq(Bytes) : /\ Holds(t, q) /\ l = (out \o m) \o q
                                   /\ Ahead(l, s, b) = ((out \o m) \o b) \o q
  <2>1. PICK q \in Seq(Bytes) : Holds(s, q) /\ l = (out \o m) \o q
    BY <1>1, <1>5 DEF Owed
  <2>2. Holds(t, q)
    BY <1>2, <2>1, HoldsSame
  <2>3. Passed(l, s) = out \o m /\ Waiting(l, s) = q
    <3>1. /\ SubSeq(l, 1, Len(out) + Len(m)) = out \o m
          /\ SubSeq(l, Len(out) + Len(m) + 1, Len(l)) = q
      BY <2>1, LogParts
    <3> QED BY <1>1, <3>1 DEF Passed, Waiting
  <2> QED BY <1>5, <2>1, <2>2, <2>3 DEF Ahead
<1>6. ASSUME ~t.lost
      PROVE  \E q \in Seq(Bytes) : Holds(t, q) /\ Ahead(l, s, b) = (out \o t.message) \o q
  <2>1. ~s.lost /\ t.message = m \o b
    BY <1>2, <1>6
  <2> QED BY <1>3, <1>5, <2>1
<1>7. Ahead(l, s, b) \in Seq(Bytes)
  <2>1. CASE s.lost
    BY <2>1 DEF Ahead
  <2>2. CASE ~s.lost
    <3>1. PICK q \in Seq(Bytes) : Ahead(l, s, b) = ((out \o m) \o b) \o q
      BY <1>5, <2>2
    <3>2. out \o m \in Seq(Bytes)
      BY ConcatProperties
    <3>3. (out \o m) \o b \in Seq(Bytes)
      BY <3>2, ConcatProperties
    <3> QED BY <3>1, <3>3, ConcatProperties
  <2> QED BY <2>1, <2>2
<1> QED BY <1>4, <1>6, <1>7 DEF Owed

(* So a step that commits one keeps the invariant.                         *)
LEMMA AheadStep ==
    ASSUME BackbufInv, NEW s, Sound(s), NEW l \in Seq(Bytes), NEW st, Owed(s, l, st, out),
           NEW b \in Seq(Bytes), NEW k \in Nat, k <= Len(b), k <= MaxSize,
           Commit(DirectWrite(s, b, k)), log' = Ahead(l, s, b),
           state' \in States, Moves(st, state'),
           written' \in 0 .. MaxWritten, drops' \in 0 .. MaxDrops,
           UNCHANGED <<reliable_buf, send_message, out>>
    PROVE  StreamInv'
<1>1. out \in Seq(Bytes)
  BY DEF BackbufInv, TypeOK
<1>2. PICK t : t = DirectWrite(s, b, k)
  OBVIOUS
<1>3. Sound(t)
  BY <1>2, DirectWriteFacts
<1>4. Owed(t, log', st, out) /\ log' \in Seq(Bytes)
  BY <1>1, <1>2, AheadOwed
<1>5. Owed(t, log', state', out)
  BY <1>4, OwedMoves
<1>6. Owed(t, log', state', out') /\ Commit(t)
  BY <1>2, <1>5
<1>7. /\ reliable_buf' \in Seq(Bytes) /\ Len(reliable_buf') <= MaxSize
      /\ send_message' \in BOOLEAN /\ out' \in Seq(Bytes)
  BY DEF BackbufInv, TypeOK
<1> QED BY <1>3, <1>4, <1>6, <1>7, CommitStep

(* A prompt.                                                               *)
LEMMA PromptStep ==
    ASSUME StreamInv, NEW n \in ReplySizes, Prompt(n)
    PROVE  StreamInv'
<1>1. n \in Nat
  BY Sizes
<1>2. BackbufInv /\ RowInv /\ Owed(Stream, log, state, out)
  BY DEF StreamInv
<1>3. /\ written \in 0 .. MaxWritten /\ written + n <= MaxWritten /\ log \in Seq(Bytes)
      /\ state \in States /\ drops \in 0 .. MaxDrops
  BY <1>2 DEF BackbufInv, TypeOK, Prompt, Writes
<1>4. PICK b \in Seq(Bytes) : b = NextBytes(n) /\ Len(b) = n
  BY <1>1, <1>3, NextBytesFacts
<1>5. PICK s : s = Stream
  OBVIOUS
<1>6. Sound(s) /\ Owed(s, log, state, out)
  BY <1>2, <1>5, StreamFacts
<1>7. PICK k \in LastParts(n) : Commit(DirectWrite(s, b, k))
  BY <1>4, <1>5 DEF Prompt
<1>8. k \in Nat /\ k <= Len(b) /\ k <= MaxSize
  BY <1>1, <1>4, LastPartsFacts
<1>9. /\ log' = Ahead(log, s, b) /\ written' = written + n
      /\ UNCHANGED <<state, reliable_buf, send_message, out, drops>>
  BY <1>4, <1>5 DEF Prompt, Writes
<1>10. written' \in 0 .. MaxWritten
  BY <1>1, <1>3, <1>9, Sizes
<1>11. state' \in States /\ Moves(state, state') /\ drops' \in 0 .. MaxDrops
  BY <1>3, <1>9 DEF Moves
<1> QED BY <1>2, <1>3, <1>6, <1>7, <1>8, <1>9, <1>10, <1>11, AheadStep

(* A line behind a stream, if there is one.                                *)
LEMMA SpokenFacts ==
    ASSUME BackbufInv, NEW s, Sound(s), NEW l \in Seq(Bytes), NEW st, Owed(s, l, st, out),
           NEW v \in Lines \cup {0}, written + v <= MaxWritten
    PROVE  /\ v \in Nat /\ Sound(Spoken(s, v))
           /\ Owed(Spoken(s, v), l \o NextBytes(v), st, out)
           /\ l \o NextBytes(v) \in Seq(Bytes)
<1>1. v \in Nat /\ (v # 0 => v <= MaxSize) /\ (v # 0 => v \in Lines)
  BY Sizes
<1>2. written \in 0 .. MaxWritten /\ out \in Seq(Bytes)
  BY DEF BackbufInv, TypeOK
<1>3. PICK b \in Seq(Bytes) : b = NextBytes(v) /\ Len(b) = v
  BY <1>1, <1>2, NextBytesFacts
<1>4. l \o NextBytes(v) = l \o b /\ l \o b \in Seq(Bytes)
  <2>1. l \o b \in Seq(Bytes)
    BY ConcatProperties
  <2> QED BY <1>3, <2>1
<1>5. CASE v = 0
  <2>1. b = <<>>
    BY <1>3, <1>5, EmptySeq
  <2>2. l \o b = l
    BY <2>1, ConcatEmptySeq
  <2>3. Spoken(s, v) = s
    BY <1>5 DEF Spoken
  <2> QED BY <1>1, <1>4, <2>2, <2>3
<1>6. CASE v # 0
  <2>1. PICK t : t = ReliableWrite(s, b, v)
    OBVIOUS
  <2>2. Wrote(s, t, b)
    <3>1. v \in Nat /\ v <= Len(b) /\ v <= MaxSize
      BY <1>1, <1>3, <1>6
    <3> QED BY <2>1, <3>1, ReliableWrote
  <2>3. Spoken(s, v) = t
    BY <1>3, <1>6, <2>1 DEF Spoken
  <2>4. Owed(t, l \o b, st, out)
    BY <1>2, <2>2, WroteOwed
  <2> QED BY <1>1, <1>4, <2>2, <2>3, <2>4 DEF Wrote
<1> QED BY <1>5, <1>6

(* ... as before an answer.                                                *)
LEMMA LineFacts ==
    ASSUME StreamInv, NEW v \in Lines \cup {0}, written + v <= MaxWritten
    PROVE  /\ v \in Nat /\ Sound(Line(v)) /\ Owed(Line(v), LineLog(v), state, out)
           /\ LineLog(v) \in Seq(Bytes)
<1>1. BackbufInv /\ RowInv /\ Owed(Stream, log, state, out)
  BY DEF StreamInv
<1>2. log \in Seq(Bytes)
  BY <1>1 DEF BackbufInv, TypeOK
<1>3. PICK s : s = Stream
  OBVIOUS
<1>4. Sound(s) /\ Owed(s, log, state, out)
  BY <1>1, <1>3, StreamFacts
<1>5. /\ v \in Nat /\ Sound(Spoken(s, v))
      /\ Owed(Spoken(s, v), log \o NextBytes(v), state, out)
      /\ log \o NextBytes(v) \in Seq(Bytes)
  BY <1>1, <1>2, <1>4, SpokenFacts
<1> QED BY <1>3, <1>5 DEF Line, LineLog

(* A line and nothing else.                                                *)
LEMMA LineStep ==
    ASSUME StreamInv, NEW v \in Lines \cup {0}, written + v <= MaxWritten,
           Commit(Line(v)), log' = LineLog(v), written' = written + v,
           state' \in States, Moves(state, state'),
           UNCHANGED <<reliable_buf, send_message, out, drops>>
    PROVE  StreamInv'
<1>1. PICK t : t = Line(v)
  OBVIOUS
<1>2. v \in Nat /\ Sound(t) /\ Owed(t, LineLog(v), state, out) /\ LineLog(v) \in Seq(Bytes)
  BY <1>1, LineFacts
<1>3. Owed(t, LineLog(v), state', out)
  BY <1>2, OwedMoves
<1>4. Owed(t, log', state', out') /\ log' \in Seq(Bytes) /\ Commit(t)
  BY <1>1, <1>2, <1>3
<1>5. BackbufInv
  BY DEF StreamInv
<1>6. /\ reliable_buf' \in Seq(Bytes) /\ Len(reliable_buf') <= MaxSize
      /\ send_message' \in BOOLEAN /\ out' \in Seq(Bytes) /\ drops' \in 0 .. MaxDrops
      /\ written \in 0 .. MaxWritten
  BY <1>5 DEF BackbufInv, TypeOK
<1>7. written' \in 0 .. MaxWritten
  BY <1>2, <1>6, Sizes
<1> QED BY <1>2, <1>4, <1>6, <1>7, CommitStep

(* What an answer behind a line of v is written behind.                    *)
Kept(v) == IF Line(v).num # 0 THEN out ELSE LineLog(v)

(* An answer that goes to the message directly.                            *)
LEMMA DirectStep ==
    ASSUME StreamInv, NEW v \in Lines \cup {0}, NEW n \in ReplySizes, NEW u,
           Sound(u), u.num = 0 \/ u.lost, Owed(u, Kept(v), state, out),
           Kept(v) \in Seq(Bytes), state' \in States, Moves(state, state'),
           DirectAnswer(v, n, u)
    PROVE  StreamInv'
<1>1. n \in Nat /\ v \in Nat
  BY Sizes
<1>2. BackbufInv
  BY DEF StreamInv
<1>3. written \in 0 .. MaxWritten /\ written + (v + n) <= MaxWritten
  BY <1>2 DEF BackbufInv, TypeOK, DirectAnswer, Writes
<1>4. PICK b \in Seq(Bytes) : b = BytesBehind(v, n) /\ Len(b) = n
  BY <1>1, <1>3, BytesBehindFacts
<1>5. PICK k \in LastParts(n) : Commit(DirectWrite(u, b, k))
  BY <1>4 DEF DirectAnswer
<1>6. k \in Nat /\ k <= Len(b) /\ k <= MaxSize
  BY <1>1, <1>4, LastPartsFacts
<1>7. PICK t : t = DirectWrite(u, b, k)
  OBVIOUS
<1>8. Wrote(u, t, b)
  BY <1>6, <1>7, DirectWrote
<1>9. Owed(u, Kept(v), state', out)
  BY OwedMoves
<1>10. /\ Commit(t) /\ log' = Kept(v) \o b /\ written' = written + (v + n)
       /\ UNCHANGED <<reliable_buf, send_message, out, drops>>
  BY <1>4, <1>5, <1>7 DEF DirectAnswer, Writes, Kept
<1>11. v + n \in Nat
  BY <1>1
<1>12. PICK kept \in Seq(Bytes) : kept = Kept(v)
  OBVIOUS
<1> QED BY <1>2, <1>3, <1>8, <1>9, <1>10, <1>11, <1>12, AnswerStep

(* Where the back buffers are thrown away.                                 *)
LEMMA ClearedFacts ==
    ASSUME StreamInv, NEW v \in Lines \cup {0}, written + v <= MaxWritten, NEW st,
           Moves(state, st)
    PROVE  /\ Sound(Cleared(v)) /\ Cleared(v).num = 0 /\ Owed(Cleared(v), Kept(v), st, out)
           /\ Kept(v) \in Seq(Bytes)
<1>1. PICK t : t = Line(v)
  OBVIOUS
<1>2. v \in Nat /\ Sound(t) /\ Owed(t, LineLog(v), state, out) /\ LineLog(v) \in Seq(Bytes)
  BY <1>1, LineFacts
<1>3. out \in Seq(Bytes)
  BY DEF StreamInv, BackbufInv, TypeOK
<1>4. CASE t.num # 0
  <2>1. PICK u : u = SV_ClearReliable(t)
    OBVIOUS
  <2>2. Sound(u) /\ u.num = 0 /\ Owed(u, out, st, out)
    BY <1>2, <1>3, <2>1, ClearFacts
  <2>3. Cleared(v) = u /\ Kept(v) = out
    BY <1>1, <1>4, <2>1 DEF Cleared, Kept
  <2> QED BY <1>3, <2>2, <2>3
<1>5. CASE t.num = 0
  <2>1. Cleared(v) = t /\ Kept(v) = LineLog(v)
    BY <1>1, <1>5 DEF Cleared, Kept
  <2>2. Owed(t, LineLog(v), st, out)
    BY <1>2, OwedMoves
  <2> QED BY <1>2, <1>5, <2>1, <2>2
<1> QED BY <1>4, <1>5

(* The answers to new, soundlist and prespawn.                             *)
LEMMA DirectAnswerStep ==
    ASSUME StreamInv, NEW v \in Lines \cup {0}, NEW n \in ReplySizes,
           state' \in States, Moves(state, state'), DirectAnswer(v, n, Cleared(v))
    PROVE  StreamInv'
<1>1. n \in Nat /\ v \in Nat /\ written \in Nat /\ MaxWritten \in Nat
  BY Sizes DEF StreamInv, BackbufInv, TypeOK
<1>2. written + v <= MaxWritten
  <2>1. written + (v + n) <= MaxWritten
    BY DEF DirectAnswer, Writes
  <2> QED BY <1>1, <2>1
<1>3. PICK u : u = Cleared(v)
  OBVIOUS
<1>4. Sound(u) /\ u.num = 0 /\ Owed(u, Kept(v), state, out) /\ Kept(v) \in Seq(Bytes)
  <2>1. Moves(state, state)
    BY DEF Moves
  <2> QED BY <1>2, <1>3, <2>1, ClearedFacts
<1> QED BY <1>3, <1>4, DirectStep

(* The new command.                                                        *)
LEMMA NewStep ==
    ASSUME StreamInv, NEW v \in Lines \cup {0}, NEW n \in ReplySizes, Cmd_New(v, n)
    PROVE  StreamInv'
<1>1. Connected \in States /\ state \in States /\ Moves(state, Connected) /\ Moves(state, state)
  BY DEF StreamInv, BackbufInv, TypeOK, States, Connected, Moves, Signing
<1>2. CASE Prompt(n)
  BY <1>2, PromptStep
<1>3. CASE /\ Writes(v) /\ Commit(Line(v)) /\ log' = LineLog(v) /\ state' = Connected
           /\ UNCHANGED <<reliable_buf, send_message, out, drops>>
  <2>1. written + v <= MaxWritten /\ written' = written + v
    BY <1>3 DEF Writes
  <2>2. state' \in States /\ Moves(state, state')
    BY <1>1, <1>3
  <2> QED BY <1>3, <2>1, <2>2, LineStep
<1>4. CASE state' \in {state, Connected} /\ DirectAnswer(v, n, Cleared(v))
  <2>1. state' \in States /\ Moves(state, state')
    BY <1>1, <1>4
  <2> QED BY <1>4, <2>1, DirectAnswerStep
<1> QED BY <1>2, <1>3, <1>4 DEF Cmd_New

(* The soundlist command.                                                  *)
LEMMA SoundlistStep ==
    ASSUME StreamInv, NEW n \in ReplySizes, Cmd_Soundlist(n)
    PROVE  StreamInv'
<1>1. 0 \in Lines \cup {0} /\ state' \in States /\ Moves(state, state')
  BY DEF StreamInv, BackbufInv, TypeOK, Cmd_Soundlist, Moves
<1>2. DirectAnswer(0, n, Cleared(0))
  BY DEF Cmd_Soundlist, ListAnswer
<1> QED BY <1>1, <1>2, DirectAnswerStep

(* The prespawn command.                                                   *)
LEMMA PreSpawnStep ==
    ASSUME StreamInv, NEW n \in ReplySizes, Cmd_PreSpawn(n)
    PROVE  StreamInv'
<1>1. 0 \in Lines \cup {0} /\ state' \in States /\ Moves(state, state')
  BY DEF StreamInv, BackbufInv, TypeOK, Cmd_PreSpawn, Moves
<1>2. CASE Prompt(n)
  BY <1>2, PromptStep
<1>3. CASE DirectAnswer(0, n, Cleared(0))
  BY <1>1, <1>3, DirectAnswerStep
<1> QED BY <1>2, <1>3 DEF Cmd_PreSpawn

(* Where one back buffer stays.                                            *)
LEMMA ClearedButOneFacts ==
    ASSUME StreamInv, NEW v \in Lines \cup {0}, written + v <= MaxWritten
    PROVE  /\ Sound(ClearedButOne(v)) /\ (ClearedButOne(v).num = 0 \/ ClearedButOne(v).lost)
           /\ Owed(ClearedButOne(v), Kept(v), state, out) /\ Kept(v) \in Seq(Bytes)
<1>1. PICK t : t = Line(v)
  OBVIOUS
<1>2. v \in Nat /\ Sound(t) /\ Owed(t, LineLog(v), state, out) /\ LineLog(v) \in Seq(Bytes)
  BY <1>1, LineFacts
<1>3. out \in Seq(Bytes)
  BY DEF StreamInv, BackbufInv, TypeOK
<1>4. CASE t.num # 0
  <2>1. PICK u : u = [SZ_Clear(t) EXCEPT !.num = 1, !.lost = TRUE, !.forgiven = TRUE]
    OBVIOUS
  <2>2. /\ u.message = <<>> /\ u.overflowed = FALSE /\ u.num = 1 /\ u.lost = TRUE
        /\ u.forgiven = TRUE /\ u.size = t.size /\ u.data = t.data /\ u.cur = t.cur
        /\ u.error = t.error /\ DOMAIN u = DOMAIN t
    BY <1>2, <2>1 DEF SZ_Clear, Sound, StreamFields
  <2>3. <<>> \in Seq(Bytes) /\ Len(<<>>) = 0 /\ 0 <= MaxSize /\ 1 \in 0 .. MAX_BACK_BUFFERS
    BY Sizes
  <2>4. LastMayOverflow(u.num, u.cur)
    <3>1. t.num \in 0 .. MAX_BACK_BUFFERS /\ LastMayOverflow(t.num, t.cur)
      BY <1>2 DEF Sound
    <3>2. u.num = MAX_BACK_BUFFERS => t.num = MAX_BACK_BUFFERS
      BY <1>4, <2>2, <3>1
    <3> QED BY <2>2, <3>1, <3>2 DEF LastMayOverflow
  <2>5. Sound(u)
    BY <1>2, <2>2, <2>3, <2>4 DEF Sound
  <2>6. ClearedButOne(v) = u /\ Kept(v) = out
    BY <1>1, <1>4, <2>1 DEF ClearedButOne, Kept
  <2>7. Owed(u, out, state, out)
    BY <2>2 DEF Owed
  <2> QED BY <1>3, <2>2, <2>5, <2>6, <2>7
<1>5. CASE t.num = 0
  <2>1. ClearedButOne(v) = t /\ Kept(v) = LineLog(v)
    BY <1>1, <1>5 DEF ClearedButOne, Kept
  <2> QED BY <1>2, <1>5, <2>1
<1> QED BY <1>4, <1>5

(* The modellist command, which loses the order.                           *)
LEMMA ModellistStep ==
    ASSUME StreamInv, NEW v \in Lines \cup {0}, NEW n \in ReplySizes, Cmd_Modellist(v, n)
    PROVE  StreamInv'
<1>1. state' \in States /\ Moves(state, state')
  BY DEF StreamInv, BackbufInv, TypeOK, Cmd_Modellist, Moves
<1>2. n \in Nat /\ v \in Nat /\ written \in Nat /\ MaxWritten \in Nat
  BY Sizes DEF StreamInv, BackbufInv, TypeOK
<1>3. PICK u : u = ClearedButOne(v)
  OBVIOUS
<1>4. DirectAnswer(v, n, u)
  BY <1>3 DEF Cmd_Modellist, ListAnswer
<1>5. written + v <= MaxWritten
  <2>1. written + (v + n) <= MaxWritten
    BY <1>4 DEF DirectAnswer, Writes
  <2> QED BY <1>2, <2>1
<1>6. Sound(u) /\ (u.num = 0 \/ u.lost) /\ Owed(u, Kept(v), state, out) /\ Kept(v) \in Seq(Bytes)
  BY <1>3, <1>5, ClearedButOneFacts
<1> QED BY <1>1, <1>4, <1>6, DirectStep

(* What waits in the back buffers is a sequence of bytes.                  *)
LEMMA WaitingFacts ==
    ASSUME BackbufInv, NEW s, Sound(s)
    PROVE  Waiting(log, s) \in Seq(Bytes)
<1>1. log \in Seq(Bytes) /\ Len(out) \in Nat /\ Len(s.message) \in Nat
  BY DEF BackbufInv, TypeOK, Sound
<1>2. PICK k \in Nat, n \in Nat : k = Len(out) + Len(s.message) + 1 /\ n = Len(log) /\ k >= 1
  BY <1>1
<1>3. \A i \in k .. n : log[i] \in Bytes
  <2>1. \A i \in k .. n : i \in 1 .. n
    BY <1>2
  <2> QED BY <1>1, <1>2, <2>1
<1>4. SubSeq(log, k, n) \in Seq(Bytes)
  BY <1>3, SubSeqProperties
<1> QED BY <1>2, <1>4 DEF Waiting

(* The spawn command, which keeps what waits.                              *)
LEMMA SpawnStep ==
    ASSUME StreamInv, NEW v \in Lines, NEW n \in ReplySizes \cup {0}, Cmd_Spawn(v, n)
    PROVE  StreamInv'
<1>1. v \in Nat /\ v <= MaxSize /\ n \in Nat
  BY Sizes
<1>2. BackbufInv /\ RowInv /\ Owed(Stream, log, state, out)
  BY DEF StreamInv
<1>3. /\ written \in 0 .. MaxWritten /\ out \in Seq(Bytes) /\ log \in Seq(Bytes)
      /\ overflowed \in BOOLEAN /\ drops \in 0 .. MaxDrops /\ MaxWritten \in Nat
  BY <1>2, Sizes DEF BackbufInv, TypeOK
<1>4. /\ written + (v + n) <= MaxWritten /\ written' = written + (v + n)
      /\ state = "cs_connected" /\ UNCHANGED <<state, reliable_buf, send_message, out, drops>>
  BY DEF Cmd_Spawn, Writes
<1>5. PICK b \in Seq(Bytes) : b = NextBytes(v) /\ Len(b) = v
  BY <1>1, <1>3, <1>4, NextBytesFacts
<1>6. PICK u : u = Stream
  OBVIOUS
<1>7. /\ Sound(u) /\ Owed(u, log, state, out) /\ u.overflowed = overflowed
      /\ u.forgiven \in BOOLEAN
  BY <1>2, <1>6, StreamFacts DEF Sound
<1>8. PICK s : s = [SZ_Clear(u) EXCEPT !.forgiven = @ \/ overflowed]
  OBVIOUS
<1>9. /\ s.message = <<>> /\ s.overflowed = FALSE /\ s.forgiven = (u.forgiven \/ overflowed)
      /\ s.num = u.num /\ s.size = u.size /\ s.data = u.data /\ s.cur = u.cur
      /\ s.lost = u.lost /\ s.error = u.error /\ DOMAIN s = DOMAIN u
  BY <1>7, <1>8 DEF SZ_Clear, Sound, StreamFields
<1>10. Sound(s)
  <2>1. <<>> \in Seq(Bytes) /\ Len(<<>>) = 0 /\ 0 <= MaxSize
    BY Sizes
  <2>2. s.forgiven \in BOOLEAN
    BY <1>3, <1>7, <1>9
  <2> QED BY <1>7, <1>9, <2>1, <2>2 DEF Sound
<1>11. PICK waiting \in Seq(Bytes) : waiting = Waiting(log, u)
  BY <1>2, <1>7, WaitingFacts
<1>12. PICK kept \in Seq(Bytes) : kept = out \o waiting
  BY <1>3, ConcatProperties
<1>13. Owed(s, kept, state, out)
  <2>1. ~(s.lost /\ ~s.forgiven)
    BY <1>4, <1>7, <1>9 DEF Owed, Signing
  <2>2. ASSUME ~s.lost
        PROVE  \E q \in Seq(Bytes) : Holds(s, q) /\ kept = (out \o s.message) \o q
    <3>1. PICK m \in Seq(Bytes) : m = u.message
      BY <1>7 DEF Sound
    <3>2. PICK q \in Seq(Bytes) : Holds(u, q) /\ log = (out \o m) \o q
      BY <1>7, <1>9, <2>2, <3>1 DEF Owed
    <3>3. waiting = q
      <4>1. SubSeq(log, Len(out) + Len(m) + 1, Len(log)) = q
        BY <1>3, <3>2, LogParts
      <4> QED BY <1>11, <3>1, <4>1 DEF Waiting
    <3>4. Holds(s, q)
      BY <1>9, <3>2, HoldsSame
    <3>5. out \o s.message = out
      BY <1>3, <1>9, ConcatEmptySeq
    <3> QED BY <1>12, <3>3, <3>4, <3>5
  <2> QED BY <2>1, <2>2 DEF Owed
<1>14. PICK t : t = ReliableWrite(s, b, v)
  OBVIOUS
<1>15. Wrote(s, t, b)
  <2>1. v <= Len(b)
    BY <1>1, <1>5
  <2> QED BY <1>1, <1>10, <1>14, <2>1, ReliableWrote
<1>16. PICK l \in Seq(Bytes) : l = kept \o b
  BY ConcatProperties
<1>17. state' \in States /\ Moves(state, state') /\ drops' \in 0 .. MaxDrops
  BY <1>3, <1>4 DEF States, Moves
<1>18. CASE n = 0 /\ Commit(t) /\ log' = l
  <2>1. Owed(s, kept, state', out) /\ log' = kept \o b
    BY <1>4, <1>13, <1>16, <1>18
  <2>2. written + v <= MaxWritten /\ written' = written + v
    BY <1>1, <1>3, <1>4, <1>18
  <2> QED BY <1>1, <1>2, <1>4, <1>10, <1>15, <1>17, <1>18, <2>1, <2>2, AnswerStep
<1>19. CASE /\ n # 0
            /\ \E k \in LastParts(n) : Commit(DirectWrite(t, BytesBehind(v, n), k))
            /\ log' = Ahead(l, t, BytesBehind(v, n))
  <2>1. Sound(t) /\ Owed(t, l, state, out)
    <3>1. Owed(t, kept \o b, state, out)
      BY <1>3, <1>13, <1>10, <1>15, WroteOwed
    <3>2. Sound(t)
      BY <1>15 DEF Wrote
    <3> QED BY <1>16, <3>1, <3>2
  <2>2. PICK c \in Seq(Bytes) : c = BytesBehind(v, n) /\ Len(c) = n
    BY <1>1, <1>3, <1>4, BytesBehindFacts
  <2>3. PICK k \in LastParts(n) : Commit(DirectWrite(t, c, k))
    BY <1>19, <2>2
  <2>4. k \in Nat /\ k <= Len(c) /\ k <= MaxSize
    BY <1>1, <2>2, LastPartsFacts
  <2>5. log' = Ahead(l, t, c)
    BY <1>19, <2>2
  <2>6. written' \in 0 .. MaxWritten
    BY <1>1, <1>3, <1>4
  <2> QED BY <1>2, <1>4, <1>17, <2>1, <2>3, <2>4, <2>5, <2>6, AheadStep
<1>20. \/ n = 0 /\ Commit(t) /\ log' = l
       \/ /\ n # 0
          /\ \E k \in LastParts(n) : Commit(DirectWrite(t, BytesBehind(v, n), k))
          /\ log' = Ahead(l, t, BytesBehind(v, n))
  BY <1>5, <1>6, <1>8, <1>11, <1>12, <1>14, <1>16 DEF Cmd_Spawn
<1> QED BY <1>18, <1>19, <1>20

(* A command for another level.                                            *)
LEMMA OldLevelStep ==
    ASSUME StreamInv, NEW n \in ReplySizes, Cmd_OldLevel(n)
    PROVE  StreamInv'
<1>1. n \in Nat
  BY Sizes
<1>2. BackbufInv /\ RowInv
  BY DEF StreamInv
<1>3. /\ written \in 0 .. MaxWritten /\ written + n <= MaxWritten /\ out \in Seq(Bytes)
      /\ state \in States
  BY <1>2 DEF BackbufInv, TypeOK, Cmd_OldLevel, Writes
<1>4. PICK u, s : u = Stream /\ s = SV_ClearReliable(u)
  OBVIOUS
<1>5. Sound(s) /\ s.num = 0 /\ Owed(s, out, state', out)
  <2>1. Sound(u)
    BY <1>2, <1>4, StreamFacts
  <2> QED BY <1>3, <1>4, <2>1, ClearFacts
<1>6. PICK b \in Seq(Bytes) : b = NextBytes(n) /\ Len(b) = n
  BY <1>1, <1>3, NextBytesFacts
<1>7. PICK k \in LastParts(n) : Commit(DirectWrite(s, b, k))
  BY <1>4, <1>6 DEF Cmd_OldLevel
<1>8. k \in Nat /\ k <= Len(b) /\ k <= MaxSize
  BY <1>1, <1>6, LastPartsFacts
<1>9. PICK t : t = DirectWrite(s, b, k)
  OBVIOUS
<1>10. Wrote(s, t, b)
  BY <1>5, <1>8, <1>9, DirectWrote
<1>11. /\ Commit(t) /\ log' = out \o b /\ written' = written + n
       /\ UNCHANGED <<reliable_buf, send_message, out, drops>>
  BY <1>6, <1>7, <1>9 DEF Cmd_OldLevel, Writes
<1>12. state' \in States
  BY <1>3 DEF Cmd_OldLevel, Connected, States
<1> QED BY <1>1, <1>2, <1>3, <1>5, <1>10, <1>11, <1>12, AnswerStep

(* The message of an svc_disconnect.                                       *)
LEMMA DisconnectFacts ==
    /\ <<svc_disconnect>> \in Seq(Bytes) /\ Len(<<svc_disconnect>>) = 1
    /\ HasDisconnect(<<svc_disconnect>>)
<1>1. svc_disconnect \in Bytes
  BY Sizes
<1>2. <<svc_disconnect>> \in Seq(Bytes) /\ Len(<<svc_disconnect>>) = 1
  BY <1>1
<1>3. 1 \in DOMAIN <<svc_disconnect>> /\ <<svc_disconnect>>[1] = svc_disconnect
  OBVIOUS
<1> QED BY <1>2, <1>3 DEF HasDisconnect

(* A wrong index in a list command.                                        *)
LEMMA BadIndexStep ==
    ASSUME StreamInv, NEW v \in Lines, Cmd_BadIndex(v)
    PROVE  StreamInv'
<1>1. v \in Nat /\ v <= MaxSize /\ 1 <= MaxSize
  BY Sizes
<1>2. BackbufInv /\ RowInv
  BY DEF StreamInv
<1>3. /\ written \in 0 .. MaxWritten /\ written + v <= MaxWritten /\ out \in Seq(Bytes)
      /\ drops \in 0 .. MaxDrops
  BY <1>2 DEF BackbufInv, TypeOK, Cmd_BadIndex, Writes
<1>4. PICK u, s : u = Stream /\ s = SV_ClearReliable(u)
  OBVIOUS
<1>5. Sound(s) /\ Owed(s, out, state, out)
  <2>1. Sound(u)
    BY <1>2, <1>4, StreamFacts
  <2> QED BY <1>3, <1>4, <2>1, ClearFacts
<1>6. PICK line \in Seq(Bytes) : line = NextBytes(v) /\ Len(line) = v
  BY <1>1, <1>3, NextBytesFacts
<1>7. PICK t : t = ReliableWrite(s, line, v)
  OBVIOUS
<1>8. Wrote(s, t, line)
  <2>1. v <= Len(line)
    BY <1>1, <1>6
  <2> QED BY <1>1, <1>5, <1>7, <2>1, ReliableWrote
<1>9. Sound(t)
  BY <1>8 DEF Wrote
<1>10. PICK l \in Seq(Bytes) : l = out \o line
  BY <1>3, ConcatProperties
<1>11. Owed(t, l, state, out)
  BY <1>3, <1>5, <1>8, <1>10, WroteOwed
<1>12. PICK b \in Seq(Bytes) : b = <<svc_disconnect>> /\ Len(b) = 1
  BY DisconnectFacts
<1>13. /\ Commit(DirectWrite(t, b, 1)) /\ log' = Ahead(l, t, b) /\ written' = written + v
       /\ state' = "cs_zombie" /\ drops' = drops + 1 /\ drops < MaxDrops
       /\ UNCHANGED <<reliable_buf, send_message, out>>
  BY <1>4, <1>6, <1>7, <1>10, <1>12 DEF Cmd_BadIndex, Writes
<1>14. written' \in 0 .. MaxWritten /\ drops' \in 0 .. MaxDrops
  <2>1. MaxDrops \in Nat /\ MaxWritten \in Nat
    BY ClientReliableAssumption
  <2> QED BY <1>1, <1>3, <1>13, <2>1
<1>15. state' \in States /\ Moves(state, state')
  BY <1>13 DEF States, Moves, Signing
<1>16. 1 \in Nat /\ 1 <= Len(b)
  BY <1>12
<1> QED BY <1>1, <1>2, <1>9, <1>11, <1>13, <1>14, <1>15, <1>16, AheadStep

(* SV_DropClient, whose disconnect overtakes what waits.                   *)
LEMMA DropStep ==
    ASSUME StreamInv, NEW v \in Lines \cup {0}, SV_DropClient(v)
    PROVE  StreamInv'
<1>1. BackbufInv /\ RowInv /\ Owed(Stream, log, state, out)
  BY DEF StreamInv
<1>2. /\ log \in Seq(Bytes) /\ out \in Seq(Bytes) /\ drops \in 0 .. MaxDrops
      /\ written \in 0 .. MaxWritten /\ written + v <= MaxWritten
  BY <1>1 DEF BackbufInv, TypeOK, SV_DropClient, Writes
<1>3. PICK s : s = Stream
  OBVIOUS
<1>4. Sound(s) /\ Owed(s, log, state, out)
  BY <1>1, <1>3, StreamFacts
<1>5. PICK b \in Seq(Bytes) : b = <<svc_disconnect>> /\ Len(b) = 1
  BY DisconnectFacts
<1>6. 1 \in Nat /\ 1 <= Len(b) /\ 1 <= MaxSize
  BY <1>5, Sizes
<1>7. PICK t : t = DirectWrite(s, b, 1)
  OBVIOUS
<1>8. Sound(t)
  BY <1>4, <1>6, <1>7, DirectWriteFacts
<1>9. PICK l \in Seq(Bytes) : l = Ahead(log, s, b) /\ Owed(t, l, state, out)
  BY <1>2, <1>4, <1>6, <1>7, AheadOwed
<1>10. PICK u, m : /\ u = Spoken(t, v) /\ m = l \o NextBytes(v) /\ m \in Seq(Bytes)
                   /\ v \in Nat /\ Sound(u) /\ Owed(u, m, state, out)
  BY <1>1, <1>2, <1>8, <1>9, SpokenFacts
<1>11. /\ Commit(u) /\ log' = m /\ written' = written + v
       /\ state' = "cs_zombie" /\ drops' = drops + 1 /\ drops < MaxDrops
       /\ UNCHANGED <<reliable_buf, send_message, out>>
  BY <1>3, <1>5, <1>7, <1>9, <1>10 DEF SV_DropClient, Writes
<1>12. state' \in States /\ Moves(state, state')
  BY <1>11 DEF States, Moves, Signing
<1>13. Owed(u, log', state', out')
  <2>1. Owed(u, m, state', out)
    BY <1>10, <1>12, OwedMoves
  <2> QED BY <1>11, <2>1
<1>14. drops' \in 0 .. MaxDrops /\ written' \in 0 .. MaxWritten
  <2>1. MaxDrops \in Nat /\ MaxWritten \in Nat
    BY ClientReliableAssumption
  <2> QED BY <1>2, <1>10, <1>11, <2>1
<1>15. /\ reliable_buf' \in Seq(Bytes) /\ Len(reliable_buf') <= MaxSize
       /\ send_message' \in BOOLEAN /\ out' \in Seq(Bytes) /\ log' \in Seq(Bytes)
  BY <1>1, <1>10, <1>11 DEF BackbufInv, TypeOK
<1> QED BY <1>10, <1>11, <1>12, <1>13, <1>14, <1>15, CommitStep

(* The begin command.                                                      *)
LEMMA BeginStep ==
    ASSUME StreamInv, NEW v \in Lines \cup {0}, NEW n \in ReplySizes \cup {0}, Cmd_Begin(v, n)
    PROVE  StreamInv'
<1>1. v \in Nat /\ n \in Nat
  BY Sizes
<1>2. BackbufInv /\ RowInv
  BY DEF StreamInv
<1>3. /\ written \in 0 .. MaxWritten /\ MaxWritten \in Nat /\ drops \in 0 .. MaxDrops
      /\ written + (v + n) <= MaxWritten /\ written' = written + (v + n)
      /\ state' = "cs_spawned" /\ UNCHANGED <<reliable_buf, send_message, out, drops>>
  BY <1>2, Sizes DEF BackbufInv, TypeOK, Cmd_Begin, Writes
<1>4. written + v <= MaxWritten /\ written' \in 0 .. MaxWritten /\ drops' \in 0 .. MaxDrops
  BY <1>1, <1>3
<1>5. state' \in States /\ Moves(state, state')
  BY <1>3 DEF States, Moves, Signing
<1>6. CASE n = 0 /\ Commit(Line(v)) /\ log' = LineLog(v)
  <2>1. written' = written + v
    BY <1>1, <1>3, <1>6
  <2> QED BY <1>3, <1>4, <1>5, <1>6, <2>1, LineStep
<1>7. CASE /\ n # 0
           /\ \E k \in LastParts(n) : Commit(DirectWrite(Line(v), BytesBehind(v, n), k))
           /\ log' = Ahead(LineLog(v), Line(v), BytesBehind(v, n))
  <2>1. PICK t : t = Line(v)
    OBVIOUS
  <2>2. Sound(t) /\ Owed(t, LineLog(v), state, out) /\ LineLog(v) \in Seq(Bytes)
    BY <1>4, <2>1, LineFacts
  <2>3. PICK b \in Seq(Bytes) : b = BytesBehind(v, n) /\ Len(b) = n
    BY <1>1, <1>3, BytesBehindFacts
  <2>4. PICK k \in LastParts(n) : Commit(DirectWrite(t, b, k))
    BY <1>7, <2>1, <2>3
  <2>5. k \in Nat /\ k <= Len(b) /\ k <= MaxSize
    BY <1>1, <2>3, LastPartsFacts
  <2>6. log' = Ahead(LineLog(v), t, b)
    BY <1>7, <2>1, <2>3
  <2> QED BY <1>2, <1>3, <1>4, <1>5, <2>2, <2>4, <2>5, <2>6, AheadStep
<1> QED BY <1>6, <1>7 DEF Cmd_Begin

(* A line that is printed, if it is.                                       *)
LEMMA PrintedFacts ==
    ASSUME NEW s, Sound(s), NEW prints \in BOOLEAN, NEW t, t = Printed(s, prints)
    PROVE  /\ Sound(t)
           /\ s.overflowed => t.overflowed
           /\ HasDisconnect(s.message) => t.overflowed \/ HasDisconnect(t.message)
<1>1. CASE ~prints
  BY <1>1 DEF Printed
<1>2. CASE prints
  <2>1. PICK p \in Seq(Bytes) : p = <<svc_print>> /\ Len(p) = 1
    <3>1. svc_print \in Bytes
      BY Sizes
    <3>2. <<svc_print>> \in Seq(Bytes) /\ Len(<<svc_print>>) = 1
      BY <3>1
    <3> QED BY <3>2
  <2>2. 1 \in Nat /\ 1 <= Len(p) /\ 1 <= MaxSize /\ t = ReliableWrite(s, p, 1)
    BY <1>2, <2>1, Sizes DEF Printed
  <2>3. /\ Sound(t) /\ (s.overflowed => t.overflowed)
        /\ t.message = s.message \/ t.message = s.message \o p \/ t.overflowed
    BY <2>2, ReliableWriteFacts
  <2>4. HasDisconnect(s.message) => HasDisconnect(s.message \o p)
    <3>1. s.message \in Seq(Bytes)
      BY DEF Sound
    <3> QED BY <3>1, DisconnectStays
  <2> QED BY <2>3, <2>4
<1> QED BY <1>1, <1>2

(* A client that is dropped for an overflow is told so, or there is yet    *)
(* another one.                                                            *)
LEMMA DroppedFacts ==
    ASSUME NEW s, Sound(s), NEW notice \in BOOLEAN, NEW parting \in BOOLEAN,
           NEW t, t = Dropped(s, notice, parting)
    PROVE  Sound(t) /\ t.lost /\ (t.overflowed \/ HasDisconnect(t.message))
<1>1. PICK z : z = SZ_Clear(s)
  OBVIOUS
<1>2. /\ z.message = <<>> /\ z.overflowed = FALSE /\ z.num = s.num /\ z.lost = s.lost
      /\ z.forgiven = s.forgiven /\ z.size = s.size /\ z.data = s.data /\ z.cur = s.cur
      /\ z.error = s.error /\ DOMAIN z = DOMAIN s
  BY <1>1 DEF SZ_Clear, Sound, StreamFields
<1>3. Sound(z)
  <2>1. <<>> \in Seq(Bytes) /\ Len(<<>>) = 0 /\ 0 <= MaxSize
    BY Sizes
  <2> QED BY <1>2, <2>1 DEF Sound
<1>4. PICK u : u = Printed(z, notice)
  OBVIOUS
<1>5. Sound(u)
  BY <1>3, <1>4, PrintedFacts
<1>6. PICK b \in Seq(Bytes) : b = <<svc_disconnect>> /\ Len(b) = 1 /\ HasDisconnect(b)
  BY DisconnectFacts
<1>7. PICK d : d = DirectWrite(u, b, 1)
  OBVIOUS
<1>8. Sound(d) /\ (d.message = u.message \o b \/ d.overflowed)
  <2>1. 1 \in Nat /\ 1 <= Len(b) /\ 1 <= MaxSize
    BY <1>6, Sizes
  <2> QED BY <1>5, <1>7, <2>1, DirectWriteFacts
<1>9. d.overflowed \/ HasDisconnect(d.message)
  <2>1. u.message \in Seq(Bytes)
    BY <1>5 DEF Sound
  <2>2. HasDisconnect(u.message \o b)
    BY <1>6, <2>1, DisconnectStays
  <2> QED BY <1>8, <2>2
<1>10. PICK g : g = Printed(d, parting)
  OBVIOUS
<1>11. Sound(g) /\ (g.overflowed \/ HasDisconnect(g.message))
  BY <1>8, <1>9, <1>10, PrintedFacts
<1>12. t = [g EXCEPT !.lost = TRUE]
  BY <1>1, <1>4, <1>6, <1>7, <1>10 DEF Dropped
<1>13. /\ t.message = g.message /\ t.overflowed = g.overflowed /\ t.num = g.num
       /\ t.size = g.size /\ t.data = g.data /\ t.cur = g.cur /\ t.lost = TRUE
       /\ t.forgiven = g.forgiven /\ t.error = g.error /\ DOMAIN t = DOMAIN g
  BY <1>11, <1>12 DEF Sound, StreamFields
<1>14. Sound(t)
  BY <1>11, <1>13 DEF Sound
<1> QED BY <1>11, <1>13, <1>14

(* SV_SendClientMessages: a drain, a drop, a message taken.                *)
LEMMA SendStep ==
    ASSUME StreamInv, NEW choked \in BOOLEAN, NEW notice \in BOOLEAN,
           NEW parting \in BOOLEAN, SV_SendClientMessages(choked, notice, parting)
    PROVE  StreamInv'
<1>1. BackbufInv /\ RowInv /\ Owed(Stream, log, state, out)
  BY DEF StreamInv
<1>2. /\ out \in Seq(Bytes) /\ log \in Seq(Bytes) /\ reliable_buf \in Seq(Bytes)
      /\ Len(reliable_buf) <= MaxSize
  BY <1>1 DEF BackbufInv, TypeOK
<1>3. PICK w : w = Stream
  OBVIOUS
<1>4. Sound(w) /\ Owed(w, log, state, out)
  BY <1>1, <1>3, StreamFacts
<1>5. PICK s : s = Drain(w)
  OBVIOUS
<1>6. PICK m \in Seq(Bytes), e \in Seq(Bytes) :
         m = w.message /\ e = s.message /\ Sound(s) /\ s.forgiven = w.forgiven
         /\ s.overflowed = w.overflowed /\ s.lost = w.lost
         /\ (e = m \/ \E c \in Seq(Bytes) : e = m \o c)
  <2>1. w.message \in Seq(Bytes)
    BY <1>4 DEF Sound
  <2>2. CASE ~Drains1(w)
    <3>1. s = w
      BY <1>5, <2>2 DEF Drain, Drains1
    <3> QED BY <1>4, <2>1, <3>1
  <2>3. CASE Drains1(w)
    <3>1. PICK c : c = SubSeq(w.data[1], 1, w.size[1])
      OBVIOUS
    <3>2. DrainedTo(w, s, c)
      BY <1>4, <1>5, <2>3, <3>1, DrainFacts
    <3>3. c \in Seq(Bytes)
      <4>1. w.data[1] \in [1 .. MaxSize -> Bytes] /\ w.size[1] \in 0 .. MaxSize
        BY <1>4, Sizes DEF Sound
      <4> QED BY <3>1, <4>1, ChunkFacts
    <3>4. s.message \in Seq(Bytes)
      BY <3>2 DEF DrainedTo, Sound
    <3> QED BY <2>1, <3>2, <3>3, <3>4 DEF DrainedTo
  <2> QED BY <2>2, <2>3
<1>7. Owed(s, log, state, out)
  <2>1. ASSUME s.lost, ~s.forgiven, ~s.overflowed
        PROVE  state \notin Signing /\ HasDisconnect(out \o e)
    <3>1. state \notin Signing /\ HasDisconnect(out \o m)
      BY <1>4, <1>6, <2>1 DEF Owed
    <3>2. ASSUME NEW c \in Seq(Bytes), e = m \o c PROVE HasDisconnect(out \o e)
      <4>1. (out \o m) \o c = out \o (m \o c)
        <5>1. out \in Strings /\ m \in Strings /\ c \in Strings
          BY <1>2 DEF Strings
        <5>2. Joined(Joined(out, m), c) = Joined(out, Joined(m, c))
          BY <5>1, Regrouped
        <5> QED BY <5>2 DEF Joined
      <4>2. out \o m \in Seq(Bytes)
        BY <1>2, ConcatProperties
      <4>3. HasDisconnect((out \o m) \o c)
        BY <3>1, <4>2, DisconnectStays
      <4> QED BY <3>2, <4>1, <4>3
    <3> QED BY <1>6, <3>1, <3>2
  <2>2. ASSUME ~s.lost
        PROVE  \E q \in Seq(Bytes) : Holds(s, q) /\ log = (out \o e) \o q
    <3>1. PICK q \in Seq(Bytes) : Holds(w, q) /\ log = (out \o m) \o q
      BY <1>4, <1>6, <2>2 DEF Owed
    <3>2. PICK r : r \in Seq(Bytes) /\ Holds(s, r) /\ e \o r = m \o q
      <4>1. Sound(w) /\ Holds(w, q)
        BY <1>4, <3>1
      <4>2. MovedUp(w, s, q)
        BY <1>5, <4>1, HoldsDrained
      <4> QED BY <1>6, <4>2 DEF MovedUp
    <3>3. (out \o m) \o q = out \o (m \o q)
      <4>1. out \in Strings /\ m \in Strings /\ q \in Strings
        BY <1>2 DEF Strings
      <4>2. Joined(Joined(out, m), q) = Joined(out, Joined(m, q))
        BY <4>1, Regrouped
      <4> QED BY <4>2 DEF Joined
    <3>4. (out \o e) \o r = out \o (e \o r)
      <4>1. out \in Strings /\ e \in Strings /\ r \in Strings
        BY <1>2, <3>2 DEF Strings
      <4>2. Joined(Joined(out, e), r) = Joined(out, Joined(e, r))
        BY <4>1, Regrouped
      <4> QED BY <4>2 DEF Joined
    <3> QED BY <3>1, <3>2, <3>3, <3>4
  <2> QED BY <1>6, <2>1, <2>2 DEF Owed
<1>8. PICK t : t = IF s.overflowed THEN Dropped(s, notice, parting) ELSE s
  OBVIOUS
<1>9. PICK st : st = IF s.overflowed THEN "cs_zombie" ELSE state
  OBVIOUS
<1>10. Sound(t) /\ Owed(t, log, st, out)
  <2>1. CASE s.overflowed
    <3>1. t = Dropped(s, notice, parting) /\ st = "cs_zombie"
      BY <1>8, <1>9, <2>1
    <3>2. Sound(t) /\ t.lost /\ (t.overflowed \/ HasDisconnect(t.message))
      BY <1>6, <3>1, DroppedFacts
    <3>3. HasDisconnect(t.message) => HasDisconnect(out \o t.message)
      <4>1. t.message \in Seq(Bytes)
        BY <3>2 DEF Sound
      <4> QED BY <1>2, <4>1, DisconnectStays
    <3> QED BY <3>1, <3>2, <3>3 DEF Owed, Signing
  <2>2. CASE ~s.overflowed
    <3>1. t = s /\ st = state
      BY <1>8, <1>9, <2>2
    <3> QED BY <1>6, <1>7, <3>1
  <2> QED BY <2>1, <2>2
<1>11. PICK taken \in BOOLEAN :
          /\ Commit(IF taken THEN [t EXCEPT !.message = <<>>] ELSE t)
          /\ state' = st /\ send_message' = FALSE
          /\ reliable_buf' = (IF taken THEN t.message ELSE reliable_buf)
          /\ out' = (IF taken THEN out \o t.message ELSE out)
          /\ UNCHANGED <<log, written, drops>>
  <2>1. PICK taken : taken = ((s.overflowed \/ (send_message /\ ~choked))
                              /\ ~t.overflowed /\ reliable_buf = <<>> /\ t.message # <<>>)
    OBVIOUS
  <2>2. taken \in BOOLEAN
    BY <2>1
  <2>3. /\ s = Drain(Stream) /\ (send_message' = FALSE)
        /\ UNCHANGED <<log, written, drops>>
    BY <1>3, <1>5 DEF SV_SendClientMessages
  <2>4. Commit(IF taken THEN [t EXCEPT !.message = <<>>] ELSE t)
    BY <1>8, <2>1, <2>3 DEF SV_SendClientMessages
  <2>5. state' = st
    BY <1>9, <2>3 DEF SV_SendClientMessages
  <2>6. CASE taken
    <3>1. reliable_buf' = t.message /\ out' = out \o t.message
      BY <1>8, <2>1, <2>3, <2>6 DEF SV_SendClientMessages
    <3> QED BY <2>2, <2>3, <2>4, <2>5, <2>6, <3>1
  <2>7. CASE ~taken
    <3>1. reliable_buf' = reliable_buf /\ out' = out
      BY <1>8, <2>1, <2>3, <2>7 DEF SV_SendClientMessages
    <3> QED BY <2>2, <2>3, <2>4, <2>5, <2>7, <3>1
  <2> QED BY <2>2, <2>6, <2>7
<1>12. PICK x \in Seq(Bytes) : x = t.message /\ Len(x) <= MaxSize
  BY <1>10 DEF Sound
<1>13. PICK u : u = IF taken THEN [t EXCEPT !.message = <<>>] ELSE t
  OBVIOUS
<1>14. Sound(u) /\ Owed(u, log', state', out')
  <2>1. CASE ~taken
    <3>1. u = t /\ log' = log /\ state' = st /\ out' = out
      BY <1>11, <1>13, <2>1
    <3> QED BY <1>10, <3>1
  <2>2. CASE taken
    <3>1. /\ u.message = <<>> /\ u.overflowed = t.overflowed /\ u.num = t.num /\ u.lost = t.lost
          /\ u.forgiven = t.forgiven /\ u.size = t.size /\ u.data = t.data /\ u.cur = t.cur
          /\ u.error = t.error /\ DOMAIN u = DOMAIN t
      BY <1>10, <1>13, <2>2 DEF Sound, StreamFields
    <3>2. Sound(u)
      <4>1. <<>> \in Seq(Bytes) /\ Len(<<>>) = 0 /\ 0 <= MaxSize
        BY Sizes
      <4> QED BY <1>10, <3>1, <4>1 DEF Sound
    <3>3. PICK o : o = out \o x
      OBVIOUS
    <3>4. o \in Seq(Bytes)
      BY <1>2, <3>3, ConcatProperties
    <3>5. o \o u.message = out \o x
      BY <3>1, <3>3, <3>4, ConcatEmptySeq
    <3>6. Owed(u, log, st, o)
      <4>1. ASSUME ~u.lost
            PROVE  \E q \in Seq(Bytes) : Holds(u, q) /\ log = (o \o u.message) \o q
        <5>1. PICK q \in Seq(Bytes) : Holds(t, q) /\ log = (out \o x) \o q
          BY <1>10, <1>12, <3>1, <4>1 DEF Owed
        <5>2. Holds(u, q)
          BY <3>1, <5>1, HoldsSame
        <5> QED BY <3>5, <5>1, <5>2
      <4>2. ASSUME u.lost, ~u.forgiven, ~u.overflowed
            PROVE  st \notin Signing /\ HasDisconnect(o \o u.message)
        BY <1>10, <1>12, <3>1, <3>5, <4>2 DEF Owed
      <4> QED BY <4>1, <4>2 DEF Owed
    <3>7. log' = log /\ state' = st /\ out' = o
      BY <1>11, <1>12, <2>2, <3>3
    <3> QED BY <3>2, <3>6, <3>7
  <2> QED BY <2>1, <2>2
<1>15. reliable_buf' \in Seq(Bytes) /\ Len(reliable_buf') <= MaxSize /\ out' \in Seq(Bytes)
  <2>1. out \o x \in Seq(Bytes)
    BY <1>2, ConcatProperties
  <2> QED BY <1>2, <1>11, <1>12, <2>1
<1>16. /\ state' \in States /\ send_message' \in BOOLEAN
       /\ log' \in Seq(Bytes) /\ written' \in 0 .. MaxWritten /\ drops' \in 0 .. MaxDrops
  <2>1. /\ state \in States
        /\ written \in 0 .. MaxWritten /\ drops \in 0 .. MaxDrops
    BY <1>1 DEF BackbufInv, TypeOK
  <2>2. "cs_zombie" \in States
    BY DEF States
  <2> QED BY <1>2, <1>9, <1>11, <2>1, <2>2
<1>17. Commit(u)
  BY <1>11, <1>13
<1> QED BY <1>14, <1>15, <1>16, <1>17, CommitStep

(* A packet of the client.                                                 *)
LEMMA PacketStep ==
    ASSUME StreamInv, NEW acked \in BOOLEAN, ClientPacket(acked)
    PROVE  StreamInv'
<1>1. BackbufInv /\ RowInv /\ Owed(Stream, log, state, out)
  BY DEF StreamInv
<1>2. BackbufInv' /\ RowInv'
  <2>1. reliable_buf' \in Seq(Bytes) /\ Len(reliable_buf') <= MaxSize
    <3>1. <<>> \in Seq(Bytes) /\ Len(<<>>) = 0 /\ 0 <= MaxSize
      BY Sizes
    <3> QED BY <1>1, <3>1 DEF ClientPacket, BackbufInv, TypeOK
  <2>2. send_message' \in BOOLEAN
    BY DEF ClientPacket
  <2> QED BY <1>1, <2>1, <2>2 DEF ClientPacket, BackbufInv, TypeOK, NoBackbufOverflow, RowInv, queue
<1>3. Owed(Stream, log, state, out)'
  <2>1. Stream' = Stream /\ log' = log /\ state' = state /\ out' = out
    BY DEF ClientPacket, queue, Stream
  <2> QED BY <1>1, <2>1
<1> QED BY <1>2, <1>3 DEF StreamInv

(* Nothing happens.                                                        *)
LEMMA StutterStep ==
    ASSUME StreamInv, UNCHANGED vars
    PROVE  StreamInv'
<1>1. BackbufInv /\ RowInv /\ Owed(Stream, log, state, out)
  BY DEF StreamInv
<1>2. BackbufInv' /\ RowInv'
  BY <1>1 DEF BackbufInv, TypeOK, NoBackbufOverflow, RowInv, queue, vars
<1>3. Owed(Stream, log, state, out)'
  <2>1. Stream' = Stream /\ log' = log /\ state' = state /\ out' = out
    BY DEF vars, queue, Stream
  <2> QED BY <1>1, <2>1
<1> QED BY <1>2, <1>3 DEF StreamInv

(* The beginning.                                                          *)
LEMMA StreamInit == Init => StreamInv
<1> SUFFICES ASSUME Init PROVE StreamInv
  OBVIOUS
<1>1. <<>> \in Seq(Bytes) /\ Len(<<>>) = 0 /\ 0 <= MaxSize /\ 0 \in Bytes /\ 1 \in Buffers
      /\ 0 \in 0 .. MaxSize /\ 0 \in 0 .. MAX_BACK_BUFFERS /\ 0 \in 0 .. MaxWritten
  BY Sizes DEF Bytes
<1>2. 0 \in 0 .. MaxDrops
  <2>1. MaxDrops \in Nat
    BY ClientReliableAssumption
  <2> QED BY <2>1
<1>3. BackbufInv /\ RowInv
  <2>1. backbuf_size \in [Buffers -> 0 .. MaxSize] /\ backbuf_data \in [Buffers -> [1 .. MaxSize -> Bytes]]
    BY <1>1 DEF Init
  <2>2. backbuf \in [data : Buffers, cursize : 0 .. MaxSize,
                     allowoverflow : BOOLEAN, overflowed : BOOLEAN]
    BY <1>1 DEF Init
  <2>3. num_backbuf # MAX_BACK_BUFFERS
    BY Sizes DEF Init
  <2> QED BY <1>1, <1>2, <2>1, <2>2, <2>3
      DEF Init, BackbufInv, TypeOK, NoBackbufOverflow, RowInv, States, SysErrors
<1>4. Holds(Stream, <<>>)
  <2>1. Stream.num = 0
    BY StreamFacts DEF Init
  <2>2. PICK s : s = Stream
    OBVIOUS
  <2> QED BY <2>1, <2>2, HoldsNothing
<1>5. Stream.message = <<>> /\ Stream.lost = FALSE /\ log = <<>> /\ out = <<>>
  BY StreamFacts DEF Init
<1>6. <<>> = (<<>> \o <<>>) \o <<>>
  BY <1>1, ConcatEmptySeq
<1>7. Owed(Stream, log, state, out)
  BY <1>1, <1>4, <1>5, <1>6 DEF Owed
<1> QED BY <1>3, <1>7 DEF StreamInv

(* StreamInv holds in every reachable state.                               *)
THEOREM StreamInvariant == Spec => []StreamInv
<1>1. StreamInv /\ [Next]_vars => StreamInv'
  <2> SUFFICES ASSUME StreamInv, [Next]_vars PROVE StreamInv'
    OBVIOUS
  <2>1. ASSUME NEW n \in BlockSizes, ClientReliableWrite(n) PROVE StreamInv'
    BY <2>1, WriteStep
  <2>2. ASSUME NEW n \in BlockSizes \cup ReplySizes, WriteTooLarge(n) PROVE StreamInv'
    BY <2>2, TooLargeStep
  <2>3. ASSUME NEW n \in ReplySizes, Prompt(n) PROVE StreamInv'
    BY <2>3, PromptStep
  <2>4. ASSUME NEW n \in ReplySizes, Cmd_Soundlist(n) PROVE StreamInv'
    BY <2>4, SoundlistStep
  <2>5. ASSUME NEW n \in ReplySizes, Cmd_PreSpawn(n) PROVE StreamInv'
    BY <2>5, PreSpawnStep
  <2>6. ASSUME NEW n \in ReplySizes, Cmd_OldLevel(n) PROVE StreamInv'
    BY <2>6, OldLevelStep
  <2>7. ASSUME NEW v \in Lines \cup {0}, NEW n \in ReplySizes, Cmd_New(v, n) PROVE StreamInv'
    BY <2>7, NewStep
  <2>8. ASSUME NEW v \in Lines \cup {0}, NEW n \in ReplySizes, Cmd_Modellist(v, n)
        PROVE  StreamInv'
    BY <2>8, ModellistStep
  <2>9. ASSUME NEW v \in Lines \cup {0}, NEW n \in ReplySizes \cup {0}, Cmd_Begin(v, n)
        PROVE  StreamInv'
    BY <2>9, BeginStep
  <2>10. ASSUME NEW v \in Lines, NEW n \in ReplySizes \cup {0}, Cmd_Spawn(v, n) PROVE StreamInv'
    BY <2>10, SpawnStep
  <2>11. ASSUME NEW n \in Lines, Cmd_BadIndex(n) PROVE StreamInv'
    BY <2>11, BadIndexStep
  <2>12. ASSUME NEW v \in Lines \cup {0}, SV_DropClient(v) PROVE StreamInv'
    BY <2>12, DropStep
  <2>13. ASSUME NEW choked \in BOOLEAN, NEW notice \in BOOLEAN,
                NEW parting \in BOOLEAN, SV_SendClientMessages(choked, notice, parting)
         PROVE  StreamInv'
    BY <2>13, SendStep
  <2>14. ASSUME NEW acked \in BOOLEAN, ClientPacket(acked) PROVE StreamInv'
    BY <2>14, PacketStep
  <2>15. CASE UNCHANGED vars
    BY <2>15, StutterStep
  <2> QED BY <2>1, <2>2, <2>3, <2>4, <2>5, <2>6, <2>7, <2>8, <2>9, <2>10, <2>11, <2>12,
             <2>13, <2>14, <2>15 DEF Next
<1> QED BY <1>1, StreamInit, PTL DEF Spec

(* Whatever is written, and however large, no overflow meets a back buffer *)
(* that may not overflow, so the server never stops for one                *)
(* (ClientReliableCheckBlock, ClientReliableWrite_Begin, SZ_GetSpace).     *)
THEOREM BackBuffersFit == Spec => []BackbufInv
<1>1. StreamInv => BackbufInv
  BY DEF StreamInv
<1> QED BY <1>1, StreamInvariant, PTL

(* A client whose stream has lost bytes is dropped, unless its own spawn   *)
(* or modellist command has forgiven the loss (ClientReliableCheckBlock,   *)
(* SV_SendClientMessages, the signon commands).                            *)
THEOREM LossesDropClient == Spec => []OverflowDropsClient
<1>1. StreamInv => OverflowDropsClient
  BY StreamFacts DEF StreamInv, Owed, OverflowDropsClient, DropUnderWay, HasDisconnect
<1> QED BY <1>1, StreamInvariant, PTL

-----------------------------------------------------------------------------
(* The bytes in the back buffers, taken together                           *)

(* What holds of 0 and of each successor holds up to n.                    *)
LEMMA UpTo ==
    ASSUME NEW n \in Nat, NEW S, 0 \in S, \A k \in 0 .. n : k # n /\ k \in S => k + 1 \in S
    PROVE  \A k \in 0 .. n : k \in S
<1> DEFINE T == {k \in 0 .. n : k \notin S}
<1>1. SUFFICES ASSUME T # {} PROVE FALSE
  OBVIOUS
<1>2. T \subseteq Nat
  OBVIOUS
<1>3. PICK k \in T : \A i \in T : ~(<<i, k>> \in OpToRel(<, Nat))
  <2> HIDE DEF T
  <2> QED BY <1>1, <1>2, NatLessThanWellFounded, WFMin
<1>4. k # 0 /\ k \in 1 .. n
  OBVIOUS
<1>5. k - 1 \in 0 .. n /\ k - 1 # n /\ (k - 1) + 1 = k /\ k - 1 \in Nat /\ k \in Nat /\ k - 1 < k
  BY <1>4
<1>6. k - 1 \in S
  <2>1. SUFFICES ASSUME k - 1 \notin S PROVE FALSE
    OBVIOUS
  <2>2. k - 1 \in T
    BY <1>5, <2>1
  <2>3. <<k - 1, k>> \in OpToRel(<, Nat)
    BY <1>5 DEF OpToRel
  <2> QED BY <1>3, <2>2, <2>3
<1> QED BY <1>5, <1>6

(* The bytes of the first i back buffers.                                  *)
Chunk(i) == SubSeq(backbuf_data[i], 1, backbuf_size[i])

IsBytes(f) ==
    f = [i \in 0 .. MAX_BACK_BUFFERS |-> IF i = 0 THEN <<>> ELSE f[i - 1] \o Chunk(i)]

(* Queued is the function at num_backbuf.                                  *)
LEMMA QueuedDef == Queued = (CHOOSE f : IsBytes(f))[num_backbuf]
BY DEF Queued, IsBytes, Chunk

(* The bytes of one back buffer.                                           *)
LEMMA ChunkBytes ==
    ASSUME TypeOK, NEW i \in Buffers
    PROVE  /\ Chunk(i) \in Seq(Bytes) /\ Len(Chunk(i)) = backbuf_size[i]
           /\ \A j \in 1 .. backbuf_size[i] : Chunk(i)[j] = backbuf_data[i][j]
<1>1. PICK k \in 0 .. MaxSize, row \in [1 .. MaxSize -> Bytes] :
         k = backbuf_size[i] /\ row = backbuf_data[i]
  BY DEF TypeOK
<1>2. PICK c : c = SubSeq(row, 1, k)
  OBVIOUS
<1>3. c \in Seq(Bytes) /\ Len(c) = k /\ \A j \in 1 .. k : c[j] = row[j]
  BY <1>2, ChunkFacts
<1> QED BY <1>1, <1>2, <1>3 DEF Chunk

(* There is such a function.                                               *)
LEMMA BytesExist ==
    ASSUME TypeOK
    PROVE  \E f : IsBytes(f)
<1> DEFINE Upto(f, k) == /\ f \in [0 .. k -> Seq(Bytes)] /\ f[0] = <<>>
                         /\ \A i \in 1 .. k : f[i] = f[i - 1] \o Chunk(i)
           S == {k \in 0 .. MAX_BACK_BUFFERS : \E f : Upto(f, k)}
<1>0. MAX_BACK_BUFFERS \in Nat
  BY Sizes
<1>1. 0 \in S
  <2>1. Upto([i \in 0 .. 0 |-> <<>>], 0)
    OBVIOUS
  <2>2. 0 \in 0 .. MAX_BACK_BUFFERS
    BY <1>0
  <2> QED BY <2>1, <2>2
<1>2. ASSUME NEW k \in 0 .. MAX_BACK_BUFFERS, k # MAX_BACK_BUFFERS, k \in S
      PROVE  k + 1 \in S
  <2>1. PICK f : Upto(f, k)
    BY <1>2
  <2>2. k \in Nat /\ k + 1 \in 0 .. MAX_BACK_BUFFERS /\ k + 1 \in Buffers /\ k \in 0 .. k
    BY <1>0, <1>2 DEF Buffers
  <2>3. PICK c \in Seq(Bytes) : c = f[k] \o Chunk(k + 1)
    <3>1. Chunk(k + 1) \in Seq(Bytes)
      BY <2>2, ChunkBytes
    <3>2. f[k] \in Seq(Bytes)
      BY <2>1, <2>2
    <3> QED BY <3>1, <3>2, ConcatProperties
  <2> DEFINE g == [i \in 0 .. k + 1 |-> IF i = k + 1 THEN c ELSE f[i]]
  <2>4. \A i \in 0 .. k + 1 : i # k + 1 => i \in 0 .. k
    BY <2>2
  <2>5. g \in [0 .. k + 1 -> Seq(Bytes)] /\ g[0] = <<>>
    <3>1. 0 \in 0 .. k + 1 /\ 0 # k + 1
      BY <2>2
    <3> QED BY <2>1, <2>4, <3>1
  <2>6. ASSUME NEW i \in 1 .. k + 1 PROVE g[i] = g[i - 1] \o Chunk(i)
    <3>1. i \in 0 .. k + 1 /\ i - 1 \in 0 .. k + 1 /\ i - 1 # k + 1
      BY <2>2
    <3>2. CASE i = k + 1
      <4>1. i - 1 = k
        BY <2>2, <3>2
      <4> QED BY <2>3, <3>1, <3>2, <4>1
    <3>3. CASE i # k + 1
      <4>1. i \in 1 .. k
        BY <2>2, <3>3
      <4> QED BY <2>1, <3>1, <3>3, <4>1
    <3> QED BY <3>2, <3>3
  <2>7. Upto(g, k + 1)
    <3> HIDE DEF g
    <3> QED BY <2>5, <2>6
  <2> QED BY <2>2, <2>7
<1>3. MAX_BACK_BUFFERS \in S
  <2> HIDE DEF S
  <2>1. \A k \in 0 .. MAX_BACK_BUFFERS : k \in S
    BY <1>0, <1>1, <1>2, UpTo
  <2> QED BY <1>0, <2>1
<1>4. PICK f : Upto(f, MAX_BACK_BUFFERS)
  BY <1>3
<1>5. ASSUME NEW i \in 0 .. MAX_BACK_BUFFERS
      PROVE  f[i] = IF i = 0 THEN <<>> ELSE f[i - 1] \o Chunk(i)
  <2>1. i # 0 => i \in 1 .. MAX_BACK_BUFFERS
    BY <1>0
  <2> QED BY <1>4, <2>1
<1>6. f = [i \in 0 .. MAX_BACK_BUFFERS |-> f[i]]
  BY <1>4
<1>7. IsBytes(f)
  BY <1>5, <1>6 DEF IsBytes
<1> QED BY <1>7

(* What the back buffers hold is Queued.                                   *)
LEMMA QueuedFacts ==
    ASSUME TypeOK, NEW q, Holds(Stream, q)
    PROVE  Queued = q
<1>0. MAX_BACK_BUFFERS \in Nat /\ MaxSize \in Nat
  BY Sizes
<1>1. PICK f : IsBytes(f) /\ Queued = f[num_backbuf]
  <2>1. IsBytes(CHOOSE f : IsBytes(f))
    BY BytesExist
  <2> QED BY <2>1, QueuedDef
<1>2. PICK n \in Nat : n = num_backbuf /\ n <= MAX_BACK_BUFFERS
  BY <1>0 DEF TypeOK
<1>3. PICK off : Laid(Stream, off, q)
  BY DEF Holds
<1>4. /\ off \in [0 .. n -> Nat] /\ off[0] = 0
      /\ \A i \in 1 .. n : off[i] = off[i - 1] + backbuf_size[i]
      /\ \A i, j \in 0 .. n : i <= j => off[i] <= off[j]
      /\ q \in Seq(Bytes) /\ Len(q) = off[n]
      /\ \A i \in 1 .. n, j \in 1 .. MaxSize : j <= backbuf_size[i] => q[off[i - 1] + j] = backbuf_data[i][j]
  BY <1>2, <1>3, StreamFacts DEF Laid
<1> DEFINE Starts(x, k) == /\ x \in Seq(Bytes) /\ Len(x) = off[k]
                           /\ \A j \in 1 .. off[k] : x[j] = q[j]
           S == {k \in 0 .. n : Starts(f[k], k)}
<1>5. 0 \in S
  <2>1. f[0] = <<>>
    BY <1>0, <1>1 DEF IsBytes
  <2>2. Starts(<<>>, 0)
    BY <1>4
  <2>3. 0 \in 0 .. n /\ Starts(f[0], 0)
    BY <2>1, <2>2
  <2> HIDE DEF Starts
  <2> QED BY <2>3
<1>6. ASSUME NEW k \in 0 .. n, k # n, k \in S PROVE k + 1 \in S
  <2>1. Starts(f[k], k)
    BY <1>6
  <2>2. /\ k \in Nat /\ k + 1 \in 1 .. n /\ k + 1 \in 0 .. n /\ k + 1 \in 0 .. MAX_BACK_BUFFERS
        /\ k + 1 \in Buffers /\ k + 1 # 0 /\ (k + 1) - 1 = k
    BY <1>0, <1>2, <1>6 DEF Buffers
  <2>3. PICK a \in Seq(Bytes), c \in Seq(Bytes), x \in Nat, y \in Nat :
           /\ a = f[k] /\ c = Chunk(k + 1) /\ x = off[k] /\ y = backbuf_size[k + 1]
           /\ Len(a) = x /\ Len(c) = y /\ y <= MaxSize
           /\ off[k + 1] = x + y
           /\ \A j \in 1 .. x : a[j] = q[j]
           /\ \A j \in 1 .. y : c[j] = backbuf_data[k + 1][j]
    <3>1. /\ Chunk(k + 1) \in Seq(Bytes) /\ Len(Chunk(k + 1)) = backbuf_size[k + 1]
          /\ \A j \in 1 .. backbuf_size[k + 1] : Chunk(k + 1)[j] = backbuf_data[k + 1][j]
      BY <2>2, ChunkBytes
    <3>2. backbuf_size[k + 1] \in 0 .. MaxSize
      BY <2>2 DEF TypeOK
    <3>3. backbuf_size[k + 1] \in Nat /\ backbuf_size[k + 1] <= MaxSize
      BY <1>0, <3>2
    <3>4. off[k] \in Nat /\ off[k + 1] = off[k] + backbuf_size[k + 1]
      BY <1>4, <2>2
    <3> QED BY <2>1, <3>1, <3>3, <3>4
  <2>4. f[k + 1] = a \o c
    <3>1. f[k + 1] = f[(k + 1) - 1] \o Chunk(k + 1)
      BY <1>1, <2>2 DEF IsBytes
    <3> QED BY <2>2, <2>3, <3>1
  <2>5. PICK b : b = a \o c
    OBVIOUS
  <2>6. /\ b \in Seq(Bytes) /\ Len(b) = x + y
        /\ \A j \in 1 .. x + y : b[j] = IF j <= x THEN a[j] ELSE c[j - x]
    <3>1. /\ a \o c \in Seq(Bytes) /\ Len(a \o c) = Len(a) + Len(c)
          /\ \A j \in 1 .. Len(a) + Len(c) :
                (a \o c)[j] = IF j <= Len(a) THEN a[j] ELSE c[j - Len(a)]
      BY ConcatProperties
    <3> QED BY <2>3, <2>5, <3>1
  <2>7. ASSUME NEW j \in 1 .. x + y PROVE b[j] = q[j]
    <3>1. CASE j <= x
      <4>1. j \in 1 .. x
        BY <3>1
      <4> QED BY <2>3, <2>6, <3>1, <4>1
    <3>2. CASE ~(j <= x)
      <4>1. PICK i \in Nat : i = j - x /\ i >= 1 /\ i <= y /\ x + i = j
        BY <3>2
      <4>2. i \in 1 .. MaxSize /\ i \in 1 .. y
        <5>1. y \in Nat /\ y <= MaxSize
          BY <2>3
        <5> QED BY <1>0, <4>1, <5>1
      <4>3. q[off[(k + 1) - 1] + i] = backbuf_data[k + 1][i]
        BY <1>4, <2>2, <2>3, <4>1, <4>2
      <4>4. c[i] = backbuf_data[k + 1][i] /\ off[(k + 1) - 1] + i = j
        BY <2>2, <2>3, <4>1, <4>2
      <4> QED BY <2>6, <3>2, <4>1, <4>3, <4>4
    <3> QED BY <3>1, <3>2
  <2>8. Starts(f[k + 1], k + 1)
    BY <2>3, <2>4, <2>5, <2>6, <2>7
  <2> QED BY <2>2, <2>8
<1>7. n \in S
  <2> HIDE DEF S
  <2>1. \A k \in 0 .. n : k \in S
    BY <1>5, <1>6, UpTo
  <2> QED BY <2>1
<1>8. f[n] \in Seq(Bytes) /\ Len(f[n]) = off[n] /\ \A j \in 1 .. off[n] : f[n][j] = q[j]
  BY <1>7
<1>9. f[n] = q
  BY <1>4, <1>8, SeqEqual
<1> QED BY <1>1, <1>2, <1>9

(* The back buffers keep the order of the stream, but for what is written  *)
(* to the message directly, which goes ahead of them                       *)
(* (ClientReliableWrite, SV_SendClientMessages, the signon commands).      *)
THEOREM StreamInOrder == Spec => []InOrder
<1>1. StreamInv => InOrder
  <2> SUFFICES ASSUME StreamInv, ~lost PROVE out \o message \o Queued = log
    BY DEF InOrder
  <2>1. PICK q : Holds(Stream, q) /\ log = (out \o message) \o q
    BY StreamFacts DEF StreamInv, Owed
  <2>2. TypeOK
    BY DEF StreamInv, BackbufInv
  <2>3. Queued = q
    BY <2>1, <2>2, QueuedFacts
  <2> QED BY <2>1, <2>3
<1> QED BY <1>1, StreamInvariant, PTL
=============================================================================
