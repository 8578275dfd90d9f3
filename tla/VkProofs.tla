------------------------------ MODULE VkProofs ------------------------------
(***************************************************************************)
(* Theorems about the Vulkan renderer: its textures (VkTextures) and its   *)
(* frame loop (VkFrames), for any number of frames in flight.              *)
(*                                                                         *)
(* Of the textures, for any textures, objects, pictures and queue lengths: *)
(* the types, that every image and descriptor set has one owner, that no   *)
(* set in use is touched, and that an image shows the picture that was     *)
(* asked for last (vk_texture.c).                                          *)
(*                                                                         *)
(* Of the frame loop, for any number of images in the swapchain: the       *)
(* types, that semaphores are given out only when used up, that no image   *)
(* is kept, and that the loop is a FrameRing (vk_main.c, vk_swapchain.c).  *)
(***************************************************************************)
EXTENDS VkTextures, VkFrames, Integers, TLAPS, WellFoundedInduction

-----------------------------------------------------------------------------
(*                             The textures                                *)

-----------------------------------------------------------------------------
(* The invariant *)

(* The thread: nothing is recorded while the queues are worked off, and a  *)
(* frame that is begun has room among those in flight.                     *)
LoopInv ==
    /\ ~recording => used = NoUse
    /\ stage \notin {"idle", "crashed"} => ~recording
    /\ recording \/ stage # "idle" => Len(flight) < FramesInFlight

(* The set of an object in use is freed only when the queue that puts it   *)
(* off is full.                                                            *)
UsesInv ==
    Len(frees) < MaxFrees => \A o \in Objects : InUse(o) => set[o] # Free

(* The element is current in every stage, unless a refresh is queued.      *)
ElementsInv ==
    Bindless => \A t \in Textures : Ready(t) /\ ~Contains(slots, t) => bindless[t] = object[t]

(* Pending and deferred writes.                                            *)
Deferred(t) == \E i \in DOMAIN uploads : uploads[i].tex = t
LastOf(t, i) ==
    /\ pending[i].tex = t
    /\ \A j \in DOMAIN pending : pending[j].tex = t => j <= i

(* The only upload put off for a texture is of the picture last asked for. *)
UploadsInv ==
    /\ \A i, j \in DOMAIN uploads : uploads[i].tex = uploads[j].tex => i = j
    /\ \A i \in DOMAIN uploads :
          want[uploads[i].tex] \in Versions => uploads[i].pic = want[uploads[i].tex]
PendingInv ==
    \A i \in DOMAIN pending : pending[i].tex # NoTexture => pending[i].pic \in Versions

(* The last copy pending for t writes picture v, or none is pending and    *)
(* the image holds it.                                                     *)
Shows(t, v) ==
    /\ \A i \in DOMAIN pending : LastOf(t, i) => pending[i].pic = v
    /\ (\A i \in DOMAIN pending : pending[i].tex # t) => picture[object[t]] = v
PictureInv ==
    \A t \in Textures : Ready(t) /\ want[t] \in Versions /\ ~Deferred(t) => Shows(t, want[t])
TexturesInv ==
    TexturesTypeOK /\ LoopInv /\ UsesInv /\ ObjectsOwned /\ ElementsInv
    /\ UploadsInv /\ PendingInv /\ PictureInv

-----------------------------------------------------------------------------
(* Queues *)

(* Every set of indices of a queue that is not empty has a last one.       *)
LEMMA LastIndex ==
    ASSUME NEW n \in Nat, NEW S \in SUBSET (1 .. n), S # {}
    PROVE  \E i \in S : \A j \in S : j <= i
<1> DEFINE B == {m \in Nat : \A j \in S : j <= m}
<1>1. n \in B
  OBVIOUS
<1>2. PICK m \in B : \A k \in B : ~(<<k, m>> \in OpToRel(<, Nat))
  BY <1>1, WFMin, NatLessThanWellFounded
<1>3. m \in Nat /\ \A j \in S : j <= m
  BY <1>2
<1>4. \A k \in B : ~(k < m)
  BY <1>2 DEF OpToRel
<1>5. m \in S
  <2>1. SUFFICES ASSUME m \notin S PROVE FALSE
    OBVIOUS
  <2>2. m >= 1
    <3>1. PICK j \in S : TRUE
      OBVIOUS
    <3>2. j \in 1 .. n /\ j <= m
      BY <1>3
    <3> QED BY <1>3, <3>2
  <2>3. \A j \in S : j <= m - 1
    BY <1>3, <2>1
  <2>4. m - 1 \in B /\ m - 1 < m
    BY <1>3, <2>2, <2>3
  <2> QED BY <1>4, <2>4
<1> QED BY <1>3, <1>5

(* What an append adds.                                                    *)
LEMMA AppendFacts ==
    ASSUME NEW S, NEW s \in Seq(S), NEW x \in S
    PROVE  /\ Append(s, x) \in Seq(S) /\ Len(Append(s, x)) = Len(s) + 1 /\ Len(s) \in Nat
           /\ DOMAIN s = 1 .. Len(s) /\ DOMAIN Append(s, x) = 1 .. Len(s) + 1
           /\ \A i \in 1 .. Len(s) : Append(s, x)[i] = s[i]
           /\ Append(s, x)[Len(s) + 1] = x
           /\ \A i \in 1 .. Len(s) + 1 : i \in 1 .. Len(s) \/ i = Len(s) + 1
OBVIOUS

(* What taking the head leaves.                                            *)
LEMMA TailFacts ==
    ASSUME NEW S, NEW s \in Seq(S), s # <<>>
    PROVE  /\ Tail(s) \in Seq(S) /\ Len(Tail(s)) = Len(s) - 1 /\ Len(s) \in Nat /\ Len(s) >= 1
           /\ DOMAIN s = 1 .. Len(s) /\ DOMAIN Tail(s) = 1 .. Len(s) - 1
           /\ \A i \in 1 .. Len(s) - 1 : Tail(s)[i] = s[i + 1] /\ i + 1 \in 1 .. Len(s)
           /\ Head(s) = s[1] /\ Head(s) \in S /\ 1 \in 1 .. Len(s)
           /\ \A i \in 1 .. Len(s) : i = 1 \/ (i - 1 \in 1 .. Len(s) - 1 /\ (i - 1) + 1 = i)
OBVIOUS

(* What is left of the queue of uploads without those of t.                *)
DeferredUploads == [tex : Textures, pic : Versions]

Without(rest, t) ==
    /\ rest \in Seq(DeferredUploads) /\ Len(rest) <= Len(uploads)
    /\ \A i \in DOMAIN rest : rest[i].tex # t /\ \E j \in DOMAIN uploads : rest[i] = uploads[j]
    /\ \A j \in DOMAIN uploads : uploads[j].tex # t => \E i \in DOMAIN rest : rest[i] = uploads[j]
    /\ \A i, j \in DOMAIN rest : rest[i].tex = rest[j].tex => i = j

(* An entry that is dropped takes no other entry with it.                  *)
LEMMA DropFacts ==
    ASSUME UploadsInv, uploads \in Seq(DeferredUploads), NEW t
    PROVE  Without(VK_TextureDropDeferredUpload(t), t)
<1> DEFINE rest == VK_TextureDropDeferredUpload(t)
           n == Len(uploads)
<1>0. n \in Nat /\ DOMAIN uploads = 1 .. n /\ \A j \in 1 .. n : uploads[j] \in DeferredUploads
  OBVIOUS
<1>1. CASE \A i \in DOMAIN uploads : uploads[i].tex # t
  <2>1. rest = uploads
    BY <1>1 DEF VK_TextureDropDeferredUpload
  <2>2. Without(uploads, t)
    BY <1>0, <1>1 DEF UploadsInv, Without
  <2> QED BY <2>1, <2>2
<1>2. CASE ~\A i \in DOMAIN uploads : uploads[i].tex # t
  <2> DEFINE i0 == CHOOSE j \in DOMAIN uploads : uploads[j].tex = t
  <2>1. i0 \in 1 .. n /\ uploads[i0].tex = t
    BY <1>0, <1>2
  <2>2. rest = [j \in 1 .. (n - 1) |-> IF j = i0 THEN uploads[n] ELSE uploads[j]]
    BY <1>2 DEF VK_TextureDropDeferredUpload
  <2> HIDE DEF i0, rest, n
  <2>3. n - 1 \in Nat /\ n \in 1 .. n /\ \A j \in 1 .. (n - 1) : j \in 1 .. n
    BY <1>0, <2>1
  <2>4. rest \in Seq(DeferredUploads) /\ Len(rest) = n - 1 /\ DOMAIN rest = 1 .. (n - 1)
    BY <1>0, <2>2, <2>3
  <2>5. \A j \in 1 .. n : uploads[j].tex = t => j = i0
    BY <1>0, <2>1 DEF UploadsInv
  <2>6. ASSUME NEW i \in 1 .. (n - 1)
        PROVE  rest[i].tex # t /\ \E j \in 1 .. n : rest[i] = uploads[j]
    <3>1. CASE i = i0
      <4>1. rest[i] = uploads[n] /\ n # i0
        BY <1>0, <2>2, <3>1
      <4> QED BY <2>3, <2>5, <4>1
    <3>2. CASE i # i0
      BY <2>2, <2>3, <2>5, <3>2
    <3> QED BY <3>1, <3>2
  <2>7. ASSUME NEW j \in 1 .. n, uploads[j].tex # t PROVE \E i \in 1 .. (n - 1) : rest[i] = uploads[j]
    <3>1. j # i0
      BY <2>1, <2>7
    <3>2. CASE j = n
      <4>1. i0 \in 1 .. (n - 1)
        BY <1>0, <2>1, <3>1, <3>2
      <4> QED BY <2>2, <3>2, <4>1
    <3>3. CASE j # n
      <4>1. j \in 1 .. (n - 1)
        BY <1>0, <3>3
      <4> QED BY <2>2, <3>1, <4>1
    <3> QED BY <3>2, <3>3
  <2>8. ASSUME NEW i \in 1 .. (n - 1), NEW j \in 1 .. (n - 1), rest[i].tex = rest[j].tex PROVE i = j
    <3> DEFINE at(k) == IF k = i0 THEN n ELSE k
    <3>1. \A k \in 1 .. (n - 1) : at(k) \in 1 .. n /\ rest[k] = uploads[at(k)]
      BY <2>2, <2>3
    <3>2. at(i) = at(j)
      BY <1>0, <2>8, <3>1 DEF UploadsInv
    <3> QED BY <1>0, <3>2
  <2>9. n - 1 <= n
    BY <1>0
  <2>10. Without(rest, t)
    BY <1>0, <2>4, <2>6, <2>7, <2>8, <2>9 DEF Without, n
  <2> QED BY <2>10 DEF rest
<1> QED BY <1>1, <1>2

-----------------------------------------------------------------------------
(* Destroying and making objects *)

PendingWrites == [tex : Textures \cup {NoTexture}, pic : Versions \cup {NoPicture}]

(* The types of what an upload changes.                                    *)
TablesTypeOK ==
    /\ flight \in Seq(Uses) /\ Len(flight) <= FramesInFlight
    /\ object \in [Textures -> Objects \cup {NoObject}]
    /\ filter \in [Textures -> Filters]
    /\ set \in [Objects -> Filters \cup {Free}]
    /\ picture \in [Objects -> Versions \cup {NoPicture}]
    /\ bindless \in [Textures -> Objects \cup {NoObject}]
    /\ frees \in Seq(Objects) /\ Len(frees) <= MaxFrees
    /\ slots \in Seq(Textures) /\ Len(slots) <= MaxSlots
    /\ pending \in Seq(PendingWrites) /\ Len(pending) <= MaxPending

(* The bounds are numbers, and a queue has a length.                       *)
LEMMA Bounds ==
    ASSUME TexturesTypeOK
    PROVE  /\ MaxUploads \in Nat /\ MaxRefreshes \in Nat /\ MaxFrees \in Nat /\ MaxSlots \in Nat
           /\ MaxPending \in Nat /\ MaxRequests \in Nat /\ FramesInFlight \in Nat /\ FramesInFlight > 0
           /\ Len(flight) \in Nat /\ Len(uploads) \in Nat /\ Len(refreshes) \in Nat
           /\ Len(frees) \in Nat /\ Len(slots) \in Nat /\ Len(pending) \in Nat
           /\ NoObject \notin Objects /\ NoUse \notin Objects /\ NoTexture \notin Textures
           /\ NoPicture \notin Versions /\ AnyPicture \notin Versions /\ LostPicture \notin Versions
<1>1. /\ MaxUploads \in Nat /\ MaxRefreshes \in Nat /\ MaxFrees \in Nat /\ MaxSlots \in Nat
      /\ MaxPending \in Nat /\ MaxRequests \in Nat /\ FramesInFlight \in Nat /\ FramesInFlight > 0
      /\ NoObject \notin Objects /\ NoUse \notin Objects /\ NoTexture \notin Textures
      /\ NoPicture \notin Versions /\ AnyPicture \notin Versions /\ LostPicture \notin Versions
  BY VkLimitsAssumption, VkTexturesAssumption
<1>2. /\ Len(flight) \in Nat /\ Len(uploads) \in Nat /\ Len(refreshes) \in Nat
      /\ Len(frees) \in Nat /\ Len(slots) \in Nat /\ Len(pending) \in Nat
  BY DEF TexturesTypeOK
<1> QED BY <1>1, <1>2

(* Destroying empties the flight; nothing else leaves it.                  *)
LEMMA DrainedFacts ==
    ASSUME TexturesTypeOK, NEW t \in Textures
    PROVE  /\ Drained(t) \in Seq(Uses) /\ Len(Drained(t)) <= Len(flight)
           /\ Len(Drained(t)) <= FramesInFlight
           /\ Ready(t) => DOMAIN Drained(t) = {}
           /\ ~Ready(t) => Drained(t) = flight
<1>1. flight \in Seq(Uses) /\ Len(flight) <= FramesInFlight /\ Len(flight) \in Nat
  BY DEF TexturesTypeOK
<1>2. CASE Ready(t)
  <2>1. Drained(t) = <<>>
    BY <1>2 DEF Drained
  <2>2. <<>> \in Seq(Uses) /\ Len(<<>>) = 0 /\ DOMAIN <<>> = {}
    OBVIOUS
  <2> QED BY <1>1, <1>2, <2>1, <2>2, Bounds
<1>3. CASE ~Ready(t)
  BY <1>1, <1>3 DEF Drained
<1> QED BY <1>2, <1>3

(* The set of the object of t is freed, or is freed later.                 *)
LEMMA FreedFacts ==
    ASSUME TexturesTypeOK, NEW t \in Textures
    PROVE  /\ Freed(t) \in [Objects -> Filters \cup {Free}]
           /\ Erased(t) \in [Objects -> Versions \cup {NoPicture}]
           /\ \A o \in Objects : Freed(t)[o] =
                 IF Ready(t) /\ ~FreeLater /\ o = object[t] THEN Free ELSE set[o]
           /\ \A o \in Objects : o # object[t] => Erased(t)[o] = picture[o]
<1>1. set \in [Objects -> Filters \cup {Free}] /\ picture \in [Objects -> Versions \cup {NoPicture}]
  BY DEF TexturesTypeOK
<1>2. Freed(t) \in [Objects -> Filters \cup {Free}] /\ Erased(t) \in [Objects -> Versions \cup {NoPicture}]
  BY <1>1 DEF Freed, Erased
<1>3. \A o \in Objects : Freed(t)[o] = IF Ready(t) /\ ~FreeLater /\ o = object[t] THEN Free ELSE set[o]
  BY <1>1 DEF Freed
<1>4. \A o \in Objects : o # object[t] => Erased(t)[o] = picture[o]
  BY <1>1 DEF Erased
<1> QED BY <1>2, <1>3, <1>4

(* The queue of the sets to be freed stays within its bound.               *)
LEMMA QueueFreeFacts ==
    ASSUME TexturesTypeOK, ObjectsOwned, NEW t \in Textures
    PROVE  /\ QueueFree(t) \in Seq(Objects) /\ Len(QueueFree(t)) <= MaxFrees
           /\ Len(frees) <= Len(QueueFree(t))
           /\ \A o : Contains(QueueFree(t), o) <=>
                 Contains(frees, o) \/ (Ready(t) /\ FreeLater /\ o = object[t])
           /\ \A i, j \in DOMAIN QueueFree(t) : i # j => QueueFree(t)[i] # QueueFree(t)[j]
<1>0. frees \in Seq(Objects) /\ Len(frees) \in Nat /\ Len(frees) <= MaxFrees /\ MaxFrees \in Nat
  BY Bounds DEF TexturesTypeOK
<1>1. CASE Ready(t) /\ FreeLater
  <2> DEFINE x == object[t]
             q == Append(frees, x)
             n == Len(frees)
  <2>1. x \in Objects /\ QueueFree(t) = q /\ n < MaxFrees /\ ~Contains(frees, x)
    BY <1>1 DEF TexturesTypeOK, Ready, QueueFree, FreeLater, ObjectsOwned
  <2> HIDE DEF x
  <2>2. /\ q \in Seq(Objects) /\ Len(q) = n + 1 /\ DOMAIN frees = 1 .. n /\ DOMAIN q = 1 .. n + 1
        /\ \A i \in 1 .. n : q[i] = frees[i]
        /\ q[n + 1] = x
        /\ \A i \in 1 .. n + 1 : i \in 1 .. n \/ i = n + 1
    BY <1>0, <2>1, AppendFacts
  <2> HIDE DEF q
  <2>3. \A o : Contains(q, o) <=> Contains(frees, o) \/ o = x
    <3>1. n + 1 \in 1 .. n + 1 /\ \A i \in 1 .. n : i \in 1 .. n + 1
      BY <1>0
    <3> QED BY <2>2, <3>1 DEF Contains
  <2>4. \A i, j \in DOMAIN q : i # j => q[i] # q[j]
    BY <2>1, <2>2 DEF Contains, ObjectsOwned
  <2> QED BY <1>0, <1>1, <2>1, <2>2, <2>3, <2>4 DEF x
<1>2. CASE ~(Ready(t) /\ FreeLater)
  <2>1. QueueFree(t) = frees
    BY <1>2 DEF QueueFree
  <2> QED BY <1>0, <1>2, <2>1 DEF ObjectsOwned
<1> QED BY <1>1, <1>2

(* Copies to t are taken out of the batch, the others stay.                *)
LEMMA InvalidatedFacts ==
    ASSUME TexturesTypeOK, NEW t \in Textures
    PROVE  /\ Invalidated(t) \in Seq(PendingWrites) /\ Len(Invalidated(t)) = Len(pending)
           /\ Len(pending) <= MaxPending /\ DOMAIN pending = 1 .. Len(pending)
           /\ DOMAIN Invalidated(t) = DOMAIN pending
           /\ \A i \in DOMAIN pending : Invalidated(t)[i] =
                 IF pending[i].tex = t THEN [tex |-> NoTexture, pic |-> NoPicture] ELSE pending[i]
<1>1. pending \in Seq(PendingWrites) /\ Len(pending) <= MaxPending
  BY DEF TexturesTypeOK, PendingWrites
<1>2. [tex |-> NoTexture, pic |-> NoPicture] \in PendingWrites
  BY DEF PendingWrites
<1> QED BY <1>1, <1>2 DEF Invalidated

-----------------------------------------------------------------------------
(* What the operations promise to the other textures *)

(* Object, picture and pending copies of u stay.                           *)
Kept(u) ==
    /\ object'[u] = object[u]
    /\ Ready(u) => picture'[object[u]] = picture[object[u]]
    /\ \A i \in DOMAIN pending : pending[i].tex = u => i \in DOMAIN pending' /\ pending'[i] = pending[i]
    /\ \A i \in DOMAIN pending' : pending'[i].tex = u => i \in DOMAIN pending /\ pending[i] = pending'[i]

(* A step does not touch a set in use.                                     *)
Untouched ==
    \A o \in Objects : set'[o] # set[o] /\ InUse(o)' =>
      Len(frees) = MaxFrees /\ (recording \/ set[o] = Free)

(* What an upload of picture v to t leaves.                                *)
Result(t, v) ==
    /\ TablesTypeOK' /\ UsesInv' /\ ObjectsOwned' /\ ElementsInv' /\ PendingInv'
    /\ Len(flight') <= Len(flight) /\ Untouched
    /\ \A u \in Textures \ {t} : Kept(u)
    /\ Ready(t)' /\ want'[t] # LostPicture => Shows(t, v)'

(* A texture that is kept shows what it showed.                            *)
LEMMA KeptShows ==
    ASSUME NEW u, Kept(u), Ready(u), NEW v, Shows(u, v)
    PROVE  Shows(u, v)' /\ Ready(u)'
<1>1. Ready(u)'
  BY DEF Kept, Ready
<1>2. ASSUME NEW i \in DOMAIN pending', LastOf(u, i)' PROVE pending'[i].pic = v
  <2>1. pending'[i].tex = u /\ \A j \in DOMAIN pending' : pending'[j].tex = u => j <= i
    BY <1>2 DEF LastOf
  <2>2. i \in DOMAIN pending /\ pending[i] = pending'[i]
    BY <2>1 DEF Kept
  <2>3. LastOf(u, i)
    BY <2>1, <2>2 DEF Kept, LastOf
  <2> QED BY <2>2, <2>3 DEF Shows
<1>3. ASSUME \A i \in DOMAIN pending' : pending'[i].tex # u PROVE picture'[object'[u]] = v
  BY <1>3 DEF Kept, Shows
<1> QED BY <1>1, <1>2, <1>3 DEF Shows

(* What is in use of the objects, the queue of sets and the flight change  *)
(* alike for the two ways an upload ends.                                  *)
LEMMA DestroyUses ==
    ASSUME TexturesTypeOK, LoopInv, UsesInv, ObjectsOwned, NEW t \in Textures,
           flight' = Drained(t), frees' = QueueFree(t), UNCHANGED <<recording, used>>
    PROVE  /\ \A o \in Objects : InUse(o)' => InUse(o)
           /\ \A o \in Objects : InUse(o)' /\ Len(frees) < MaxFrees => Freed(t)[o] = set[o]
           /\ \A o \in Objects : InUse(o)' /\ Freed(t)[o] # set[o] =>
                 Len(frees) = MaxFrees /\ recording
           /\ \A o \in Objects : InUse(o)' /\ Len(frees') < MaxFrees => Freed(t)[o] = set[o]
<1>0. NoUse \notin Objects /\ MaxFrees \in Nat /\ Len(frees) \in Nat
  BY Bounds
<1>1. /\ Ready(t) => DOMAIN flight' = {}
      /\ ~Ready(t) => flight' = flight
  BY DrainedFacts
<1>2. \A o \in Objects : InUse(o)' => InUse(o)
  BY <1>1 DEF InUse
<1>3. ASSUME NEW o \in Objects, InUse(o)', Freed(t)[o] # set[o]
      PROVE  ~(Len(frees) < MaxFrees) /\ frees' = frees /\ recording
  <2>1. Ready(t) /\ ~FreeLater
    BY <1>3, FreedFacts
  <2>2. o = used
    BY <1>1, <1>3, <2>1 DEF InUse
  <2>3. recording
    BY <1>0, <2>2 DEF LoopInv
  <2> QED BY <2>1, <2>3 DEF FreeLater, QueueFree
<1>4. Len(frees) <= MaxFrees
  BY DEF TexturesTypeOK
<1> QED BY <1>0, <1>2, <1>3, <1>4

(* One owner for each of the objects that are left.                        *)
LEMMA DestroyOwned ==
    ASSUME TexturesTypeOK, ObjectsOwned, NEW t \in Textures
    PROVE  /\ \A u \in Textures : u # t /\ Ready(u) =>
                 /\ object[u] \in Objects /\ object[u] # object[t]
                 /\ Freed(t)[object[u]] # Free /\ ~Contains(QueueFree(t), object[u])
           /\ \A o \in Objects : Contains(QueueFree(t), o) => set[o] # Free /\ Freed(t)[o] # Free
<1>1. ASSUME NEW u \in Textures, u # t, Ready(u)
      PROVE  /\ object[u] \in Objects /\ object[u] # object[t]
             /\ Freed(t)[object[u]] # Free /\ ~Contains(QueueFree(t), object[u])
  <2>1. object[u] \in Objects
    BY <1>1 DEF TexturesTypeOK, Ready
  <2>2. object[u] # object[t] /\ set[object[u]] # Free /\ ~Contains(frees, object[u])
    BY <1>1 DEF ObjectsOwned
  <2> QED BY <2>1, <2>2, FreedFacts, QueueFreeFacts
<1>2. ASSUME NEW o \in Objects, Contains(QueueFree(t), o)
      PROVE  set[o] # Free /\ Freed(t)[o] # Free
  <2>1. CASE Contains(frees, o)
    <3>1. set[o] # Free
      BY <2>1 DEF ObjectsOwned, Contains
    <3>2. Ready(t) => o # object[t]
      BY <2>1 DEF ObjectsOwned
    <3> QED BY <3>1, <3>2, FreedFacts
  <2>2. CASE Ready(t) /\ FreeLater /\ o = object[t]
    <3>1. set[o] # Free
      BY <2>2 DEF ObjectsOwned
    <3> QED BY <2>2, <3>1, FreedFacts
  <2> QED BY <1>2, <2>1, <2>2, QueueFreeFacts
<1> QED BY <1>1, <1>2

(* No copy to t is left, and the others are as they were.                  *)
LEMMA InvalidatedKept ==
    ASSUME TexturesTypeOK, PendingInv, NEW t \in Textures
    PROVE  /\ \A i \in DOMAIN Invalidated(t) : Invalidated(t)[i].tex # t
           /\ \A i \in DOMAIN Invalidated(t) :
                 Invalidated(t)[i].tex # NoTexture => Invalidated(t)[i].pic \in Versions
           /\ \A u \in Textures \ {t}, i \in DOMAIN pending :
                 \/ pending[i] = Invalidated(t)[i]
                 \/ pending[i].tex # u /\ Invalidated(t)[i].tex # u
<1>1. NoTexture \notin Textures
  BY Bounds
<1>2. [tex |-> NoTexture, pic |-> NoPicture].tex = NoTexture
  OBVIOUS
<1> QED BY <1>1, <1>2, InvalidatedFacts DEF PendingInv

(* Destroying the objects of t.                                            *)
LEMMA DestroyInv ==
    ASSUME TexturesTypeOK, LoopInv, UsesInv, ObjectsOwned, ElementsInv, PendingInv, NEW t \in Textures, NEW v,
           VK_TextureDestroyObjects(t), UNCHANGED <<recording, used>>
    PROVE  Result(t, v) /\ ~Ready(t)'
<1>1. /\ flight' = Drained(t) /\ set' = Freed(t) /\ frees' = QueueFree(t)
      /\ object' = [object EXCEPT ![t] = NoObject]
      /\ filter' = [filter EXCEPT ![t] = "linear"]
      /\ pending' = Invalidated(t) /\ picture' = Erased(t)
      /\ UNCHANGED <<bindless, slots>>
  BY DEF VK_TextureDestroyObjects
<1>2. TablesTypeOK'
  <2>1. object' \in [Textures -> Objects \cup {NoObject}] /\ filter' \in [Textures -> Filters]
    BY <1>1 DEF TexturesTypeOK, Filters
  <2>2. bindless' \in [Textures -> Objects \cup {NoObject}] /\ slots' \in Seq(Textures) /\ Len(slots') <= MaxSlots
    BY <1>1 DEF TexturesTypeOK
  <2> QED BY <1>1, <2>1, <2>2, DrainedFacts, FreedFacts, QueueFreeFacts, InvalidatedFacts DEF TablesTypeOK
<1>3. object'[t] = NoObject /\ \A u \in Textures : u # t => object'[u] = object[u]
  BY <1>1 DEF TexturesTypeOK
<1>4. ~Ready(t)' /\ \A u \in Textures : u # t => (Ready(u)' <=> Ready(u))
  BY <1>3 DEF Ready
<1>5. UsesInv' /\ Untouched
  <2>1. Len(frees') < MaxFrees => Len(frees) < MaxFrees
    <3>1. Len(frees) <= Len(frees') /\ frees' \in Seq(Objects)
      BY <1>1, QueueFreeFacts
    <3>2. Len(frees') \in Nat
      BY <3>1
    <3> QED BY <3>1, <3>2, Bounds
  <2>2. UsesInv'
    BY <1>1, <2>1, DestroyUses DEF UsesInv
  <2>3. Untouched
    BY <1>1, DestroyUses DEF Untouched
  <2> QED BY <2>2, <2>3
<1>6. ObjectsOwned'
  <2>1. \A u \in Textures : Ready(u)' => set'[object'[u]] # Free /\ ~Contains(frees', object'[u])
    BY <1>1, <1>3, <1>4, DestroyOwned DEF Contains
  <2>2. \A u, w \in Textures : u # w /\ Ready(u)' => object'[u] # object'[w]
    BY <1>3, <1>4 DEF ObjectsOwned, Ready
  <2>3. \A i, j \in DOMAIN frees' : i # j => frees'[i] # frees'[j]
    BY <1>1, QueueFreeFacts
  <2>4. \A i \in DOMAIN frees' : set'[frees'[i]] # Free
    <3>1. \A i \in DOMAIN frees' : frees'[i] \in Objects
      BY <1>1, QueueFreeFacts
    <3> QED BY <1>1, <3>1, DestroyOwned DEF Contains
  <2> QED BY <2>1, <2>2, <2>3, <2>4 DEF ObjectsOwned, Ready, Contains
<1>7. ElementsInv'
  BY <1>1, <1>3, <1>4 DEF ElementsInv, Contains
<1>8. PendingInv'
  BY <1>1, InvalidatedKept DEF PendingInv
<1>9. Len(flight') <= Len(flight)
  BY <1>1, DrainedFacts
<1>10. ASSUME NEW u \in Textures \ {t} PROVE Kept(u)
  <2>1. Ready(u) => object[u] \in Objects /\ object[u] # object[t]
    BY DestroyOwned
  <2>2. Ready(u) => picture'[object[u]] = picture[object[u]]
    BY <1>1, <2>1, FreedFacts
  <2>3. DOMAIN pending' = DOMAIN pending
    BY <1>1, InvalidatedFacts
  <2> QED BY <1>1, <1>3, <2>2, <2>3, InvalidatedKept DEF Kept
<1> QED BY <1>2, <1>4, <1>5, <1>6, <1>7, <1>8, <1>9, <1>10 DEF Result

(* Making new objects for t, with picture v copied or to be copied.        *)
LEMMA UploadInv ==
    ASSUME TexturesTypeOK, LoopInv, UsesInv, ObjectsOwned, ElementsInv, PendingInv,
           NEW t \in Textures, NEW v \in Versions, NEW w \in Wishes,
           VK_UploadTextureImmediate(t, v, w), UNCHANGED <<recording, used>>
    PROVE  Result(t, v) /\ (Asked(t, w) \/ Asked(t, LostPicture))
<1>1. CASE VK_TextureDestroyObjects(t) /\ Asked(t, w)
  BY <1>1, DestroyInv
<1>2. ASSUME NEW o \in Objects,
             /\ set[o] = Free
             /\ flight' = Drained(t) /\ frees' = QueueFree(t)
             /\ set' = [Freed(t) EXCEPT ![o] = "linear"]
             /\ object' = [object EXCEPT ![t] = o]
             /\ filter' = [filter EXCEPT ![t] = "linear"]
             /\ IF recording /\ (Contains(slots, t) \/ Len(slots) < MaxSlots)
                  THEN /\ slots' = IF Contains(slots, t) THEN slots ELSE Append(slots, t)
                       /\ UNCHANGED bindless
                  ELSE /\ bindless' = [bindless EXCEPT ![t] = IF Bindless THEN o ELSE @]
                       /\ UNCHANGED slots
             /\ \/ /\ Len(pending) < MaxPending
                   /\ pending' = Append(Invalidated(t), [tex |-> t, pic |-> v])
                   /\ picture' = Erased(t) /\ Asked(t, w)
                \/ /\ pending' = Invalidated(t)
                   /\ picture' = [Erased(t) EXCEPT ![o] = v] /\ Asked(t, w)
                \/ /\ pending' = Invalidated(t)
                   /\ picture' = Erased(t) /\ Asked(t, LostPicture)
      PROVE  Result(t, v) /\ (Asked(t, w) \/ Asked(t, LostPicture))
  <2>1. object'[t] = o /\ \A u \in Textures : u # t => object'[u] = object[u]
    BY <1>2 DEF TexturesTypeOK
  <2>2. Ready(t)' /\ \A u \in Textures : u # t => (Ready(u)' <=> Ready(u))
    BY <2>1, Bounds DEF Ready
  <2>3. /\ set'[o] = "linear" /\ set'[o] # Free
        /\ \A x \in Objects : x # o => set'[x] = Freed(t)[x]
    BY <1>2, FreedFacts DEF Free
  <2>4. ~Contains(frees', o) /\ \A u \in Textures : Ready(u) => object[u] # o
    <3>1. \A u \in Textures : Ready(u) => object[u] # o
      BY <1>2 DEF ObjectsOwned
    <3>2. ~Contains(frees', o)
      BY <1>2, DestroyOwned
    <3> QED BY <3>1, <3>2
  <2>5. /\ slots' \in Seq(Textures) /\ Len(slots') <= MaxSlots
        /\ bindless' \in [Textures -> Objects \cup {NoObject}]
        /\ \A u \in Textures : Contains(slots, u) => Contains(slots', u)
        /\ \A u \in Textures : u # t => bindless'[u] = bindless[u]
        /\ Contains(slots', t) \/ (Bindless => bindless'[t] = o)
    <3>0. /\ slots \in Seq(Textures) /\ Len(slots) <= MaxSlots /\ Len(slots) \in Nat /\ MaxSlots \in Nat
          /\ bindless \in [Textures -> Objects \cup {NoObject}]
      BY Bounds DEF TexturesTypeOK
    <3>1. CASE recording /\ (Contains(slots, t) \/ Len(slots) < MaxSlots)
      <4>1. bindless' = bindless /\ slots' = IF Contains(slots, t) THEN slots ELSE Append(slots, t)
        BY <1>2, <3>1
      <4>2. CASE Contains(slots, t)
        BY <3>0, <4>1, <4>2
      <4>3. CASE ~Contains(slots, t)
        <5>1. slots' = Append(slots, t) /\ Len(slots) < MaxSlots
          BY <3>1, <4>1, <4>3
        <5>2. /\ slots' \in Seq(Textures) /\ Len(slots') = Len(slots) + 1
              /\ DOMAIN slots = 1 .. Len(slots) /\ DOMAIN slots' = 1 .. Len(slots) + 1
              /\ \A i \in 1 .. Len(slots) : slots'[i] = slots[i]
              /\ slots'[Len(slots) + 1] = t
          BY <3>0, <5>1, AppendFacts
        <5>3. /\ Len(slots) + 1 \in 1 .. Len(slots) + 1 /\ Len(slots) + 1 <= MaxSlots
              /\ \A i \in 1 .. Len(slots) : i \in 1 .. Len(slots) + 1
          BY <3>0, <5>1
        <5>4. Contains(slots', t) /\ \A u \in Textures : Contains(slots, u) => Contains(slots', u)
          BY <5>2, <5>3 DEF Contains
        <5> QED BY <3>0, <4>1, <5>2, <5>3, <5>4
      <4> QED BY <4>2, <4>3
    <3>2. CASE ~(recording /\ (Contains(slots, t) \/ Len(slots) < MaxSlots))
      <4>1. slots' = slots /\ bindless' = [bindless EXCEPT ![t] = IF Bindless THEN o ELSE @]
        BY <1>2, <3>2
      <4> QED BY <3>0, <4>1
    <3> QED BY <3>1, <3>2
  <2>6. /\ pending' \in Seq(PendingWrites) /\ Len(pending') <= MaxPending
        /\ picture' \in [Objects -> Versions \cup {NoPicture}]
        /\ \A x \in Objects : x # o => picture'[x] = Erased(t)[x]
        /\ \A i \in DOMAIN pending : i \in DOMAIN pending' /\ pending'[i] = Invalidated(t)[i]
        /\ \A i \in DOMAIN pending' : i \notin DOMAIN pending =>
              pending'[i] = [tex |-> t, pic |-> v] /\ \A j \in DOMAIN pending' : j <= i
        /\ \/ picture'[o] = v \/ \E i \in DOMAIN pending' : i \notin DOMAIN pending
           \/ Asked(t, LostPicture)
    <3> DEFINE inv == Invalidated(t)
               put == [tex |-> t, pic |-> v]
               n == Len(pending)
    <3>0. /\ inv \in Seq(PendingWrites) /\ put \in PendingWrites /\ Len(inv) = n /\ n <= MaxPending
          /\ DOMAIN inv = DOMAIN pending /\ DOMAIN pending = 1 .. n
          /\ n \in Nat /\ MaxPending \in Nat
          /\ Erased(t) \in [Objects -> Versions \cup {NoPicture}]
      BY InvalidatedFacts, FreedFacts, Bounds DEF PendingWrites
    <3>1. CASE n < MaxPending /\ pending' = Append(inv, put) /\ picture' = Erased(t)
      <4>1. pending' = Append(inv, put) /\ picture' = Erased(t)
        BY <3>1
      <4> HIDE DEF inv, put, n
      <4>2. /\ pending' \in Seq(PendingWrites) /\ Len(pending') = n + 1
            /\ DOMAIN pending' = 1 .. n + 1
            /\ \A i \in 1 .. n : pending'[i] = inv[i]
            /\ pending'[n + 1] = put
            /\ \A i \in 1 .. n + 1 : i \in 1 .. n \/ i = n + 1
        BY <3>0, <4>1, AppendFacts
      <4>3. /\ n + 1 <= MaxPending /\ n + 1 \in 1 .. n + 1 /\ n + 1 \notin 1 .. n
            /\ \A i \in 1 .. n : i \in 1 .. n + 1
            /\ \A j \in 1 .. n + 1 : j <= n + 1
        BY <3>0, <3>1
      <4>4. \A i \in DOMAIN pending' : i \notin DOMAIN pending =>
              pending'[i] = put /\ \A j \in DOMAIN pending' : j <= i
        BY <3>0, <4>2, <4>3
      <4> QED BY <3>0, <4>1, <4>2, <4>3, <4>4 DEF inv, put
    <3>2. CASE pending' = inv /\ picture' = [Erased(t) EXCEPT ![o] = v]
      BY <3>0, <3>2
    <3>3. CASE pending' = inv /\ picture' = Erased(t) /\ Asked(t, LostPicture)
      BY <3>0, <3>3
    <3> QED BY <1>2, <3>1, <3>2, <3>3
  <2>7. TablesTypeOK'
    <3>1. object' \in [Textures -> Objects \cup {NoObject}] /\ filter' \in [Textures -> Filters]
      BY <1>2 DEF TexturesTypeOK, Filters
    <3>2. set' \in [Objects -> Filters \cup {Free}]
      BY <1>2, FreedFacts DEF Filters
    <3> QED BY <1>2, <2>5, <2>6, <3>1, <3>2, DrainedFacts, QueueFreeFacts DEF TablesTypeOK
  <2>8. UsesInv' /\ Untouched
    <3>1. Len(frees') < MaxFrees => Len(frees) < MaxFrees
      <4>1. Len(frees) <= Len(frees') /\ frees' \in Seq(Objects)
        BY <1>2, QueueFreeFacts
      <4>2. Len(frees') \in Nat
        BY <4>1
      <4> QED BY <4>1, <4>2, Bounds
    <3>2. Len(frees) < MaxFrees => ~InUse(o)
      BY <1>2 DEF UsesInv
    <3>3. UsesInv'
      BY <1>2, <2>3, <3>1, DestroyUses DEF UsesInv
    <3>4. Untouched
      <4>1. ASSUME NEW x \in Objects, set'[x] # set[x], InUse(x)', x # o
            PROVE  Len(frees) = MaxFrees /\ recording
        BY <1>2, <2>3, <4>1, DestroyUses
      <4>2. InUse(o)' => Len(frees) = MaxFrees
        <5>1. InUse(o)' => InUse(o)
          BY <1>2, DestroyUses
        <5>2. Len(frees) <= MaxFrees
          BY DEF TexturesTypeOK
        <5> QED BY <3>2, <5>1, <5>2, Bounds
      <4> QED BY <1>2, <4>1, <4>2 DEF Untouched
    <3> QED BY <3>3, <3>4
  <2>9. ObjectsOwned'
    <3>1. \A u \in Textures : Ready(u)' => set'[object'[u]] # Free /\ ~Contains(frees', object'[u])
      <4>1. ASSUME NEW u \in Textures, Ready(u)', u # t
            PROVE  set'[object[u]] # Free /\ ~Contains(frees', object[u])
        BY <1>2, <2>2, <2>3, <4>1, DestroyOwned DEF Contains
      <4> QED BY <2>1, <2>3, <2>4, <4>1
    <3>2. \A u, x \in Textures : u # x /\ Ready(u)' => object'[u] # object'[x]
      BY <2>1, <2>2, <2>4, Bounds DEF ObjectsOwned, Ready
    <3>3. \A i, j \in DOMAIN frees' : i # j => frees'[i] # frees'[j]
      BY <1>2, QueueFreeFacts
    <3>4. \A i \in DOMAIN frees' : set'[frees'[i]] # Free
      <4>1. \A i \in DOMAIN frees' : frees'[i] \in Objects
        BY <1>2, QueueFreeFacts
      <4> QED BY <1>2, <2>3, <4>1, DestroyOwned DEF Contains
    <3> QED BY <3>1, <3>2, <3>3, <3>4 DEF ObjectsOwned, Ready, Contains
  <2>10. ElementsInv'
    BY <2>1, <2>2, <2>5 DEF ElementsInv
  <2>11. PendingInv'
    <3>1. DOMAIN Invalidated(t) = DOMAIN pending
      BY InvalidatedFacts
    <3> QED BY <2>6, <3>1, InvalidatedKept DEF PendingInv
  <2>12. Len(flight') <= Len(flight)
    BY <1>2, DrainedFacts
  <2>13. ASSUME NEW u \in Textures \ {t} PROVE Kept(u)
    <3>1. Ready(u) => object[u] \in Objects /\ object[u] # object[t] /\ object[u] # o
      BY <2>4, DestroyOwned
    <3>2. Ready(u) => picture'[object[u]] = picture[object[u]]
      BY <2>6, <3>1, FreedFacts
    <3>3. \A i \in DOMAIN pending : pending[i].tex = u => i \in DOMAIN pending' /\ pending'[i] = pending[i]
      BY <2>6, InvalidatedKept
    <3>4. \A i \in DOMAIN pending' : pending'[i].tex = u => i \in DOMAIN pending /\ pending[i] = pending'[i]
      BY <2>6, InvalidatedKept
    <3> QED BY <2>1, <3>2, <3>3, <3>4 DEF Kept
  <2>14. want'[t] # LostPicture => Shows(t, v)'
    <3>1. \A i \in DOMAIN pending' : LastOf(t, i)' => pending'[i].pic = v
      <4>1. DOMAIN Invalidated(t) = DOMAIN pending
        BY InvalidatedFacts
      <4> QED BY <2>6, <4>1, InvalidatedKept DEF LastOf
    <3>2. Asked(t, LostPicture) => want'[t] = LostPicture
      BY DEF Asked, TexturesTypeOK
    <3>3. ASSUME want'[t] # LostPicture, \A i \in DOMAIN pending' : pending'[i].tex # t
          PROVE  picture'[object'[t]] = v
      BY <2>1, <2>6, <3>2, <3>3
    <3> QED BY <3>1, <3>3 DEF Shows
  <2> QED BY <1>2, <2>7, <2>8, <2>9, <2>10, <2>11, <2>12, <2>13, <2>14 DEF Result
<1> QED BY <1>1, <1>2 DEF VK_UploadTextureImmediate

-----------------------------------------------------------------------------
(* The steps                                                               *)

(* What of the invariant only the tables and the queues decide.            *)
LEMMA TablesSame ==
    ASSUME TexturesInv, UNCHANGED <<tables, uploads, frees, slots, pending, want>>
    PROVE  /\ ObjectsOwned' /\ ElementsInv' /\ UploadsInv' /\ PendingInv' /\ PictureInv' /\ Untouched
           /\ (\A o \in Objects : InUse(o)' => set[o] # Free \/ InUse(o)) => UsesInv'
<1>1. /\ object' = object /\ set' = set /\ picture' = picture /\ bindless' = bindless
      /\ uploads' = uploads /\ frees' = frees /\ slots' = slots /\ pending' = pending /\ want' = want
  BY DEF tables
<1>2. ObjectsOwned'
  BY <1>1 DEF TexturesInv, ObjectsOwned, Ready, Contains
<1>3. ElementsInv'
  BY <1>1 DEF TexturesInv, ElementsInv, Ready, Contains
<1>4. UploadsInv' /\ PendingInv'
  BY <1>1 DEF TexturesInv, UploadsInv, PendingInv
<1>5. PictureInv'
  BY <1>1 DEF TexturesInv, PictureInv, Ready, Deferred, Shows, LastOf
<1>6. Untouched
  BY <1>1 DEF Untouched
<1>7. (\A o \in Objects : InUse(o)' => set[o] # Free \/ InUse(o)) => UsesInv'
  BY <1>1 DEF TexturesInv, UsesInv
<1> QED BY <1>2, <1>3, <1>4, <1>5, <1>6, <1>7

(* Textures that are kept show what was asked for, and so does the other.  *)
LEMMA KeptPicture ==
    ASSUME TexturesInv, NEW t \in Textures,
           \A u \in Textures \ {t} : Kept(u) /\ want'[u] = want[u] /\ (Deferred(u) => Deferred(u)'),
           (Ready(t) /\ want[t] \in Versions /\ ~Deferred(t) => Shows(t, want[t]))'
    PROVE  PictureInv'
<1>1. ASSUME NEW u \in Textures, u # t, (Ready(u) /\ want[u] \in Versions /\ ~Deferred(u))'
      PROVE  Shows(u, want[u])'
  <2>1. Kept(u) /\ want'[u] = want[u] /\ Ready(u) /\ ~Deferred(u) /\ want[u] \in Versions
    BY <1>1 DEF Kept, Ready
  <2>2. Shows(u, want[u])
    BY <2>1 DEF TexturesInv, PictureInv
  <2> DEFINE w == want[u]
  <2>3. Shows(u, w)
    BY <2>2
  <2>4. w = want[u] /\ w = want'[u]
    BY <2>1
  <2> HIDE DEF w
  <2>5. \A i \in DOMAIN pending' : LastOf(u, i)' => pending'[i].pic = w
    BY <2>1, <2>3 DEF Kept, LastOf, Shows
  <2>6. (\A i \in DOMAIN pending' : pending'[i].tex # u) => picture'[object'[u]] = w
    BY <2>1, <2>3 DEF Kept, Shows
  <2> QED BY <2>4, <2>5, <2>6 DEF Shows
<1> QED BY <1>1 DEF PictureInv

(* A slot that is handed out has no objects of its own.                    *)
LEMMA NextTextureSlotStep ==
    ASSUME TexturesInv, NEW t \in Textures, R_NextTextureSlot(t)
    PROVE  TexturesInv' /\ Untouched
<1>1. /\ UNCHANGED <<loop, tables, queues, want, asked>> /\ live' = [live EXCEPT ![t] = TRUE]
  BY DEF R_NextTextureSlot
<1>2. UsesInv' /\ ObjectsOwned' /\ ElementsInv' /\ UploadsInv' /\ PendingInv' /\ PictureInv' /\ Untouched
  BY <1>1, TablesSame DEF InUse, loop, queues
<1>3. TexturesTypeOK'
  BY <1>1 DEF TexturesInv, TexturesTypeOK, loop, tables, queues
<1>4. LoopInv'
  BY <1>1 DEF TexturesInv, LoopInv, loop
<1> QED BY <1>2, <1>3, <1>4 DEF TexturesInv

(* A frame begins only when there is room among those in flight.           *)
LEMMA BeginFrameStep ==
    ASSUME TexturesInv, VK_TextureApplyDeferredUploads
    PROVE  TexturesInv' /\ Untouched
<1>1. /\ UNCHANGED <<recording, used, flight, tables, queues, live, want>>
      /\ stage = "idle" /\ ~recording /\ Len(flight) < FramesInFlight /\ stage' = "free" /\ asked' = 0
  BY DEF VK_TextureApplyDeferredUploads
<1>2. UsesInv' /\ ObjectsOwned' /\ ElementsInv' /\ UploadsInv' /\ PendingInv' /\ PictureInv' /\ Untouched
  BY <1>1, TablesSame DEF InUse, queues
<1>3. TexturesTypeOK'
  <2>1. 0 \in 0 .. MaxRequests
    BY Bounds DEF TexturesInv
  <2> QED BY <1>1, <2>1 DEF TexturesInv, TexturesTypeOK, tables, queues
<1>4. LoopInv'
  BY <1>1 DEF TexturesInv, LoopInv
<1> QED BY <1>2, <1>3, <1>4 DEF TexturesInv

(* A draw uses an object that belongs to a texture.                        *)
LEMMA DrawStep ==
    ASSUME TexturesInv, NEW t \in Textures, Draw(t)
    PROVE  TexturesInv' /\ Untouched
<1>1. /\ UNCHANGED <<stage, recording, flight, tables, queues, history>>
      /\ stage = "idle" /\ recording /\ Ready(t) /\ used' = object[t]
  BY DEF Draw
<1>2. object[t] \in Objects /\ set[object[t]] # Free
  BY <1>1 DEF TexturesInv, TexturesTypeOK, ObjectsOwned, Ready
<1>3. \A o \in Objects : InUse(o)' => set[o] # Free \/ InUse(o)
  BY <1>1, <1>2 DEF InUse
<1>4. UsesInv' /\ ObjectsOwned' /\ ElementsInv' /\ UploadsInv' /\ PendingInv' /\ PictureInv' /\ Untouched
  BY <1>1, <1>3, TablesSame DEF queues, history
<1>5. TexturesTypeOK'
  BY <1>1, <1>2 DEF TexturesInv, TexturesTypeOK, Uses, tables, queues, history
<1>6. LoopInv'
  BY <1>1 DEF TexturesInv, LoopInv
<1> QED BY <1>4, <1>5, <1>6 DEF TexturesInv

(* What the recorded frame uses is in use while the frame is in flight.    *)
LEMMA EndFrameStep ==
    ASSUME TexturesInv, SubmitFrame
    PROVE  TexturesInv' /\ Untouched
<1>1. /\ UNCHANGED <<stage, tables, queues, history>>
      /\ stage = "idle" /\ recording /\ recording' = FALSE
      /\ flight' = Append(flight, used) /\ used' = NoUse
  BY DEF SubmitFrame
<1>2. /\ flight \in Seq(Uses) /\ used \in Uses /\ Len(flight) \in Nat /\ FramesInFlight \in Nat
      /\ Len(flight) < FramesInFlight
  BY <1>1, Bounds DEF TexturesInv, TexturesTypeOK, LoopInv
<1>3. /\ flight' \in Seq(Uses) /\ Len(flight') = Len(flight) + 1
      /\ DOMAIN flight = 1 .. Len(flight) /\ DOMAIN flight' = 1 .. Len(flight) + 1
      /\ \A i \in 1 .. Len(flight) : flight'[i] = flight[i]
      /\ flight'[Len(flight) + 1] = used
      /\ \A i \in 1 .. Len(flight) + 1 : i \in 1 .. Len(flight) \/ i = Len(flight) + 1
  BY <1>1, <1>2, AppendFacts
<1>4. Len(flight') <= FramesInFlight
  BY <1>2, <1>3
<1>5. \A o \in Objects : InUse(o)' => set[o] # Free \/ InUse(o)
  BY <1>1, <1>3, Bounds DEF TexturesInv, InUse
<1>6. UsesInv' /\ ObjectsOwned' /\ ElementsInv' /\ UploadsInv' /\ PendingInv' /\ PictureInv' /\ Untouched
  BY <1>1, <1>5, TablesSame DEF queues, history
<1>7. TexturesTypeOK'
  BY <1>1, <1>3, <1>4 DEF TexturesInv, TexturesTypeOK, Uses, tables, queues, history
<1>8. LoopInv'
  BY <1>1 DEF LoopInv
<1> QED BY <1>6, <1>7, <1>8 DEF TexturesInv

(* The oldest frame ends.                                                  *)
LEMMA FinishStep ==
    ASSUME TexturesInv, GPU_Finish
    PROVE  TexturesInv' /\ Untouched
<1>1. /\ UNCHANGED <<stage, recording, used, tables, queues, history>>
      /\ flight # <<>> /\ flight' = Tail(flight)
  BY DEF GPU_Finish
<1>2. /\ flight \in Seq(Uses) /\ Len(flight) <= FramesInFlight /\ FramesInFlight \in Nat
  BY Bounds DEF TexturesInv, TexturesTypeOK
<1>3. /\ flight' \in Seq(Uses) /\ Len(flight') = Len(flight) - 1 /\ Len(flight) \in Nat
      /\ DOMAIN flight = 1 .. Len(flight) /\ DOMAIN flight' = 1 .. Len(flight) - 1
      /\ \A i \in 1 .. Len(flight) - 1 : flight'[i] = flight[i + 1] /\ i + 1 \in 1 .. Len(flight)
  BY <1>1, <1>2, TailFacts
<1>4. Len(flight') <= FramesInFlight /\ (Len(flight) < FramesInFlight => Len(flight') < FramesInFlight)
  BY <1>2, <1>3
<1>5. \A o \in Objects : InUse(o)' => InUse(o)
  BY <1>1, <1>3 DEF InUse
<1>6. UsesInv' /\ ObjectsOwned' /\ ElementsInv' /\ UploadsInv' /\ PendingInv' /\ PictureInv' /\ Untouched
  BY <1>1, <1>5, TablesSame DEF queues, history
<1>7. TexturesTypeOK'
  BY <1>1, <1>3, <1>4 DEF TexturesInv, TexturesTypeOK, tables, queues, history
<1>8. LoopInv'
  BY <1>1, <1>4 DEF TexturesInv, LoopInv
<1> QED BY <1>6, <1>7, <1>8 DEF TexturesInv

(* A descriptor set is rewritten only when nothing is in use.              *)
LEMMA RewriteInv ==
    ASSUME TexturesInv, ~recording, NEW t \in Textures, NEW f \in Filters, RewriteDescriptor(t, f),
           UNCHANGED <<used, object, frees, slots>>
    PROVE  /\ flight' \in Seq(Uses) /\ Len(flight') <= Len(flight)
           /\ set' \in [Objects -> Filters \cup {Free}]
           /\ bindless' \in [Textures -> Objects \cup {NoObject}]
           /\ UsesInv' /\ ObjectsOwned' /\ ElementsInv' /\ Untouched
<1>0. /\ set \in [Objects -> Filters \cup {Free}] /\ bindless \in [Textures -> Objects \cup {NoObject}]
      /\ flight \in Seq(Uses) /\ Len(flight) \in Nat /\ used = NoUse /\ NoUse \notin Objects
      /\ object \in [Textures -> Objects \cup {NoObject}]
  BY Bounds DEF TexturesInv, TexturesTypeOK, LoopInv
<1>1. CASE ~Ready(t)
  <2>1. flight' = flight /\ set' = set /\ bindless' = bindless
    BY <1>1 DEF RewriteDescriptor
  <2>2. UsesInv' /\ Untouched
    BY <2>1 DEF TexturesInv, UsesInv, Untouched, InUse
  <2>3. ObjectsOwned'
    BY <2>1 DEF TexturesInv, ObjectsOwned, Ready, Contains
  <2>4. ElementsInv'
    BY <2>1 DEF TexturesInv, ElementsInv, Ready, Contains
  <2> QED BY <1>0, <2>1, <2>2, <2>3, <2>4
<1>2. CASE Ready(t)
  <2>1. flight' = <<>> /\ set' = [set EXCEPT ![object[t]] = f] /\ VK_TextureBindlessUpdateSlot(t)
    BY <1>2 DEF RewriteDescriptor
  <2>2. flight' \in Seq(Uses) /\ Len(flight') = 0 /\ DOMAIN flight' = {}
    BY <2>1
  <2>3. \A o \in Objects : ~InUse(o)'
    BY <1>0, <2>2 DEF InUse
  <2>4. object[t] \in Objects /\ f # Free
    BY <1>0, <1>2 DEF Ready, Filters, Free
  <2>5. /\ set' \in [Objects -> Filters \cup {Free}]
        /\ \A o \in Objects : set'[o] = IF o = object[t] THEN f ELSE set[o]
    BY <1>0, <2>1, <2>4
  <2>6. /\ bindless' \in [Textures -> Objects \cup {NoObject}]
        /\ \A u \in Textures : u # t => bindless'[u] = bindless[u]
        /\ Bindless => bindless'[t] = object[t]
    BY <1>0, <1>2, <2>1 DEF VK_TextureBindlessUpdateSlot
  <2>7. UsesInv' /\ Untouched
    BY <2>3 DEF UsesInv, Untouched
  <2>8. ObjectsOwned'
    <3>1. \A u \in Textures : Ready(u) => object[u] \in Objects
      BY <1>0 DEF Ready
    <3>2. \A i \in DOMAIN frees : frees[i] \in Objects
      BY DEF TexturesInv, TexturesTypeOK
    <3> QED BY <2>4, <2>5, <3>1, <3>2 DEF TexturesInv, ObjectsOwned, Ready, Contains
  <2>9. ElementsInv'
    BY <2>6 DEF TexturesInv, ElementsInv, Ready, Contains
  <2> QED BY <1>0, <2>2, <2>5, <2>6, <2>7, <2>8, <2>9
<1> QED BY <1>1, <1>2

(* A picture that comes in a frame waits, any other is uploaded at once.   *)
LEMMA UploadStep ==
    ASSUME TexturesInv, NEW t \in Textures, NEW v \in Versions, VK_UploadTexture(t, v)
    PROVE  TexturesInv' /\ Untouched
<1> DEFINE rest == VK_TextureDropDeferredUpload(t)
           e == [tex |-> t, pic |-> v]
<1>0. /\ TexturesTypeOK /\ LoopInv /\ UsesInv /\ ObjectsOwned /\ ElementsInv /\ UploadsInv /\ PendingInv
      /\ uploads \in Seq(DeferredUploads) /\ Len(uploads) <= MaxUploads
      /\ want \in [Textures -> Wishes]
  BY DEF TexturesInv, TexturesTypeOK, DeferredUploads
<1>1. /\ UNCHANGED <<stage, recording, used, live, refreshes>>
      /\ asked < MaxRequests /\ asked' = asked + 1
      /\ \/ /\ Len(rest) < MaxUploads /\ uploads' = Append(rest, e) /\ Asked(t, v)
            /\ UNCHANGED <<flight, tables, frees, slots, pending>>
         \/ uploads' = rest /\ VK_UploadTextureImmediate(t, v, v)
  BY DEF VK_UploadTexture, Asks
<1>2. /\ want'[t] \in {v, LostPicture} /\ \A u \in Textures : u # t => want'[u] = want[u]
      /\ want' \in [Textures -> Wishes]
  <2>1. v \in Wishes /\ LostPicture \in Wishes
    BY DEF Wishes
  <2>2. Asked(t, v) \/ Asked(t, LostPicture)
    BY <1>0, <1>1, <2>1, UploadInv
  <2> QED BY <1>0, <2>1, <2>2 DEF Asked
<1>3. Without(rest, t)
  BY <1>0, DropFacts
<1>4. rest \in Seq(DeferredUploads) /\ Len(rest) \in Nat /\ e \in DeferredUploads /\ MaxUploads \in Nat
  BY <1>0, <1>3, Bounds DEF Without, DeferredUploads
<1>5. /\ \A i \in DOMAIN rest : /\ rest[i].tex \in Textures /\ rest[i].tex # t
                                /\ want'[rest[i].tex] \in Versions => rest[i].pic = want'[rest[i].tex]
      /\ \A i, j \in DOMAIN rest : rest[i].tex = rest[j].tex => i = j
  <2>1. ASSUME NEW i \in DOMAIN rest
        PROVE  /\ rest[i].tex \in Textures /\ rest[i].tex # t
               /\ want'[rest[i].tex] \in Versions => rest[i].pic = want'[rest[i].tex]
    <3>1. PICK j \in DOMAIN uploads : rest[i] = uploads[j]
      BY <1>3 DEF Without
    <3>2. uploads[j].tex \in Textures /\ rest[i].tex # t
      <4>1. uploads[j] \in DeferredUploads
        BY <1>0
      <4>2. rest[i].tex # t
        BY <1>3 DEF Without
      <4> QED BY <4>1, <4>2 DEF DeferredUploads
    <3>3. want[uploads[j].tex] \in Versions => uploads[j].pic = want[uploads[j].tex]
      BY <1>0 DEF UploadsInv
    <3> HIDE DEF rest
    <3> QED BY <1>2, <3>1, <3>2, <3>3
  <2> QED BY <1>3, <2>1 DEF Without
<1>6. \A u \in Textures : u # t /\ Deferred(u) => \E i \in DOMAIN rest : rest[i].tex = u
  BY <1>3 DEF Without, Deferred
<1> HIDE DEF rest
<1>7. live' \in [Textures -> BOOLEAN] /\ asked' \in 0 .. MaxRequests
  <2>1. asked' \in 0 .. MaxRequests
    BY <1>0, <1>1, Bounds DEF TexturesTypeOK
  <2> QED BY <1>0, <1>1, <2>1 DEF TexturesTypeOK
<1>8. CASE /\ Len(rest) < MaxUploads /\ uploads' = Append(rest, e) /\ Asked(t, v)
           /\ UNCHANGED <<flight, tables, frees, slots, pending>>
  <2>1. /\ UNCHANGED <<flight, object, filter, set, picture, bindless, frees, slots, pending>>
    BY <1>8 DEF tables
  <2> DEFINE n == Len(rest)
  <2>2. /\ uploads' \in Seq(DeferredUploads) /\ Len(uploads') = n + 1
        /\ DOMAIN rest = 1 .. n /\ DOMAIN uploads' = 1 .. n + 1
        /\ \A i \in 1 .. n : uploads'[i] = rest[i]
        /\ uploads'[n + 1] = e
        /\ \A i \in 1 .. n + 1 : i \in 1 .. n \/ i = n + 1
    BY <1>4, <1>8, AppendFacts
  <2>3. Len(uploads') <= MaxUploads /\ n + 1 \in 1 .. n + 1 /\ \A i \in 1 .. n : i \in 1 .. n + 1
    BY <1>4, <1>8, <2>2
  <2> HIDE DEF n
  <2>4. UploadsInv'
    <3>1. \A i, j \in DOMAIN uploads' : uploads'[i].tex = uploads'[j].tex => i = j
      BY <1>5, <2>2
    <3>2. \A i \in DOMAIN uploads' :
            want'[uploads'[i].tex] \in Versions => uploads'[i].pic = want'[uploads'[i].tex]
      <4>1. want'[t] = v
        BY <1>0, <1>8 DEF Asked
      <4> QED BY <1>5, <2>2, <4>1
    <3> QED BY <3>1, <3>2 DEF UploadsInv
  <2>5. Deferred(t)' /\ \A u \in Textures : u # t /\ Deferred(u) => Deferred(u)'
    BY <1>6, <2>2, <2>3 DEF Deferred
  <2>6. \A u \in Textures : Kept(u)
    BY <2>1 DEF Kept
  <2>7. PictureInv'
    BY <1>2, <2>5, <2>6, KeptPicture
  <2>8. ObjectsOwned' /\ PendingInv' /\ UsesInv' /\ Untouched
    BY <1>0, <1>1, <2>1 DEF ObjectsOwned, PendingInv, UsesInv, Untouched, InUse, Ready, Contains
  <2>9. ElementsInv' /\ LoopInv'
    BY <1>0, <1>1, <2>1 DEF ElementsInv, LoopInv, Ready, Contains
  <2>10. TexturesTypeOK'
    BY <1>0, <1>1, <1>2, <1>7, <2>1, <2>2, <2>3 DEF TexturesTypeOK, DeferredUploads
  <2> QED BY <2>4, <2>7, <2>8, <2>9, <2>10 DEF TexturesInv
<1>9. CASE uploads' = rest /\ VK_UploadTextureImmediate(t, v, v)
  <2>1. Result(t, v)
    <3>1. v \in Wishes
      BY DEF Wishes
    <3> QED BY <1>0, <1>1, <1>9, <3>1, UploadInv
  <2>2. UploadsInv'
    BY <1>5, <1>9 DEF UploadsInv
  <2>3. \A u \in Textures : u # t /\ Deferred(u) => Deferred(u)'
    BY <1>6, <1>9 DEF Deferred
  <2>4. Ready(t)' /\ want'[t] # LostPicture => Shows(t, v)'
    BY <2>1 DEF Result
  <2>5. Ready(t)' /\ want'[t] \in Versions => Shows(t, want[t])'
    BY <1>0, <1>2, <2>4, Bounds DEF Shows
  <2>6. PictureInv'
    <3>1. \A u \in Textures \ {t} : Kept(u) /\ want'[u] = want[u] /\ (Deferred(u) => Deferred(u)')
      BY <1>2, <2>1, <2>3 DEF Result
    <3> QED BY <2>5, <3>1, KeptPicture
  <2>7. LoopInv'
    <3>1. TablesTypeOK' /\ Len(flight') <= Len(flight)
      BY <2>1 DEF Result
    <3>2. Len(flight') \in Nat
      BY <3>1 DEF TablesTypeOK
    <3>3. Len(flight) < FramesInFlight => Len(flight') < FramesInFlight
      BY <1>0, <3>1, <3>2, Bounds
    <3> QED BY <1>0, <1>1, <3>3 DEF LoopInv
  <2>8. TexturesTypeOK'
    <3>1. uploads' \in Seq(DeferredUploads) /\ Len(uploads') <= MaxUploads
      BY <1>0, <1>3, <1>4, <1>9, Bounds DEF Without
    <3>2. TablesTypeOK'
      BY <2>1 DEF Result
    <3> QED BY <1>0, <1>1, <1>2, <1>7, <3>1, <3>2 DEF TexturesTypeOK, TablesTypeOK, DeferredUploads, PendingWrites
  <2> QED BY <2>1, <2>2, <2>6, <2>7, <2>8 DEF TexturesInv, Result
<1> QED BY <1>1, <1>8, <1>9

(* The objects go, an upload put off stays and is for no picture.          *)
LEMMA DeleteStep ==
    ASSUME TexturesInv, NEW t \in Textures, VK_TextureDelete(t)
    PROVE  TexturesInv' /\ Untouched
<1>0. /\ TexturesTypeOK /\ LoopInv /\ UsesInv /\ ObjectsOwned /\ ElementsInv /\ UploadsInv /\ PendingInv
      /\ uploads \in Seq(DeferredUploads)
      /\ want \in [Textures -> Wishes]
  BY DEF TexturesInv, TexturesTypeOK, DeferredUploads
<1>1. /\ UNCHANGED <<stage, recording, used, uploads, refreshes>>
      /\ asked < MaxRequests /\ asked' = asked + 1
      /\ live' = [live EXCEPT ![t] = FALSE]
      /\ Asked(t, NoPicture) /\ VK_TextureDestroyObjects(t)
  BY DEF VK_TextureDelete, Asks
<1>2. /\ want'[t] = NoPicture /\ \A u \in Textures : u # t => want'[u] = want[u]
      /\ want' \in [Textures -> Wishes]
  BY <1>0, <1>1 DEF Asked, Wishes
<1>3. Result(t, NoPicture) /\ ~Ready(t)'
  BY <1>0, <1>1, DestroyInv
<1>4. UploadsInv'
  <2>1. \A i \in DOMAIN uploads : uploads[i].tex \in Textures
    <3>1. \A i \in DOMAIN uploads : uploads[i] \in DeferredUploads
      BY <1>0
    <3> QED BY <3>1 DEF DeferredUploads
  <2>2. NoPicture \notin Versions
    BY <1>0, Bounds
  <2> QED BY <1>0, <1>1, <1>2, <2>1, <2>2 DEF UploadsInv
<1>5. PictureInv'
  <2>1. \A u \in Textures \ {t} : Kept(u) /\ want'[u] = want[u] /\ (Deferred(u) => Deferred(u)')
    BY <1>1, <1>2, <1>3 DEF Result, Deferred
  <2> QED BY <1>3, <2>1, KeptPicture
<1>6. LoopInv'
  <2>1. TablesTypeOK' /\ Len(flight') <= Len(flight)
    BY <1>3 DEF Result
  <2>2. Len(flight') \in Nat
    BY <2>1 DEF TablesTypeOK
  <2>3. Len(flight) < FramesInFlight => Len(flight') < FramesInFlight
    BY <1>0, <2>1, <2>2, Bounds
  <2> QED BY <1>0, <1>1, <2>3 DEF LoopInv
<1>7. TexturesTypeOK'
  <2>1. asked' \in 0 .. MaxRequests
    BY <1>0, <1>1, Bounds DEF TexturesTypeOK
  <2>2. TablesTypeOK'
    BY <1>3 DEF Result
  <2> QED BY <1>0, <1>1, <1>2, <2>1, <2>2 DEF TexturesTypeOK, TablesTypeOK, PendingWrites
<1> QED BY <1>3, <1>4, <1>5, <1>6, <1>7 DEF TexturesInv, Result

(* The oldest upload put off is done.                                      *)
LEMMA ApplyUploadsStep ==
    ASSUME TexturesInv, ApplyUploads
    PROVE  TexturesInv' /\ Untouched
<1>0. /\ TexturesTypeOK /\ LoopInv /\ UsesInv /\ ObjectsOwned /\ ElementsInv /\ UploadsInv /\ PendingInv
      /\ uploads \in Seq(DeferredUploads) /\ Len(uploads) <= MaxUploads
  BY DEF TexturesInv, TexturesTypeOK, DeferredUploads
<1>1. UNCHANGED <<recording, used, live, asked>> /\ stage = "upload"
  BY DEF ApplyUploads
<1>2. CASE uploads = <<>>
  <2>1. stage' = "refresh" /\ UNCHANGED <<flight, tables, queues, want>>
    BY <1>2 DEF ApplyUploads
  <2>2. UsesInv' /\ ObjectsOwned' /\ ElementsInv' /\ UploadsInv' /\ PendingInv' /\ PictureInv' /\ Untouched
    BY <1>1, <2>1, TablesSame DEF InUse, queues
  <2>3. TexturesTypeOK'
    BY <1>0, <1>1, <2>1 DEF TexturesTypeOK, tables, queues
  <2>4. LoopInv'
    BY <1>0, <1>1, <2>1 DEF LoopInv
  <2> QED BY <2>2, <2>3, <2>4 DEF TexturesInv
<1>3. CASE uploads # <<>>
  <2> DEFINE n == Len(uploads)
  <2>1. /\ Tail(uploads) \in Seq(DeferredUploads) /\ Len(Tail(uploads)) = n - 1 /\ n \in Nat /\ n >= 1
        /\ DOMAIN uploads = 1 .. n /\ DOMAIN Tail(uploads) = 1 .. n - 1
        /\ \A i \in 1 .. n - 1 : Tail(uploads)[i] = uploads[i + 1] /\ i + 1 \in 1 .. n
        /\ Head(uploads) = uploads[1] /\ Head(uploads) \in DeferredUploads /\ 1 \in 1 .. n
        /\ \A i \in 1 .. n : i = 1 \/ (i - 1 \in 1 .. n - 1 /\ (i - 1) + 1 = i)
    BY <1>0, <1>3, TailFacts
  <2>2. PICK e \in DeferredUploads : e = Head(uploads) /\ e = uploads[1]
    BY <2>1
  <2>3. /\ VK_UploadTextureImmediate(e.tex, e.pic, want[e.tex])
        /\ uploads' = Tail(uploads) /\ UNCHANGED <<stage, refreshes>>
    BY <1>3, <2>2 DEF ApplyUploads
  <2>4. PICK t \in Textures, v \in Versions : e.tex = t /\ e.pic = v
    BY <2>2 DEF DeferredUploads
  <2>5. /\ Result(t, v)
        /\ \A u \in Textures : u # t => want'[u] = want[u]
        /\ want'[t] \in {want[t], LostPicture} /\ want' \in [Textures -> Wishes]
    <3>1. want \in [Textures -> Wishes] /\ LostPicture \in Wishes
      BY <1>0 DEF TexturesTypeOK, Wishes
    <3>2. PICK w \in Wishes : w = want[t]
      BY <3>1
    <3>3. Result(t, v) /\ (Asked(t, w) \/ Asked(t, LostPicture))
      BY <1>0, <1>1, <2>3, <2>4, <3>2, UploadInv
    <3> QED BY <3>1, <3>2, <3>3 DEF Asked
  <2>12. \A u \in Textures : want'[u] \in Versions => want'[u] = want[u]
    BY <1>0, <2>5, Bounds
  <2>6. UploadsInv'
    <3>1. \A i, j \in 1 .. n : uploads[i].tex = uploads[j].tex => i = j
      BY <1>0, <2>1 DEF UploadsInv
    <3>2. \A i, j \in 1 .. n - 1 : i + 1 = j + 1 => i = j
      OBVIOUS
    <3>3. \A i, j \in DOMAIN uploads' : uploads'[i].tex = uploads'[j].tex => i = j
      BY <2>1, <2>3, <3>1, <3>2
    <3>4. \A i \in 1 .. n : want[uploads[i].tex] \in Versions => uploads[i].pic = want[uploads[i].tex]
      BY <1>0, <2>1 DEF UploadsInv
    <3>5. \A i \in DOMAIN uploads' :
            want'[uploads'[i].tex] \in Versions => uploads'[i].pic = want'[uploads'[i].tex]
      <4>1. \A i \in 1 .. n : uploads[i] \in DeferredUploads
        BY <1>0, <2>1
      <4>2. \A i \in 1 .. n : uploads[i].tex \in Textures
        BY <4>1 DEF DeferredUploads
      <4> QED BY <2>1, <2>3, <2>12, <3>4, <4>2
    <3> QED BY <3>3, <3>5 DEF UploadsInv
  <2>7. \A u \in Textures : u # t /\ Deferred(u) => Deferred(u)'
    <3>1. ASSUME NEW u \in Textures, u # t, NEW j \in 1 .. n, uploads[j].tex = u PROVE Deferred(u)'
      <4>1. j # 1
        BY <2>2, <2>4, <3>1
      <4>2. j - 1 \in 1 .. n - 1 /\ Tail(uploads)[j - 1] = uploads[j]
        BY <2>1, <4>1
      <4> QED BY <2>1, <2>3, <3>1, <4>2 DEF Deferred
    <3> QED BY <2>1, <3>1 DEF Deferred
  <2>8. want[t] \in Versions => v = want[t]
    BY <1>0, <2>1, <2>2, <2>4 DEF UploadsInv
  <2>9. PictureInv'
    <3>1. \A u \in Textures \ {t} : Kept(u) /\ want'[u] = want[u] /\ (Deferred(u) => Deferred(u)')
      BY <2>5, <2>7 DEF Result
    <3>2. Ready(t)' /\ want'[t] # LostPicture => Shows(t, v)'
      BY <2>5 DEF Result
    <3>3. want'[t] \in Versions => want'[t] = v
      BY <2>8, <2>12
    <3>4. (Ready(t) /\ want[t] \in Versions /\ ~Deferred(t) => Shows(t, want[t]))'
      BY <1>0, <3>2, <3>3, Bounds DEF Shows
    <3> QED BY <3>1, <3>4, KeptPicture
  <2>10. LoopInv'
    <3>1. TablesTypeOK' /\ Len(flight') <= Len(flight)
      BY <2>5 DEF Result
    <3>2. Len(flight') \in Nat
      BY <3>1 DEF TablesTypeOK
    <3>3. Len(flight) < FramesInFlight => Len(flight') < FramesInFlight
      BY <1>0, <3>1, <3>2, Bounds
    <3> QED BY <1>0, <1>1, <2>3, <3>3 DEF LoopInv
  <2>11. TexturesTypeOK'
    <3>1. uploads' \in Seq(DeferredUploads) /\ Len(uploads') <= MaxUploads
      BY <1>0, <2>1, <2>3, Bounds
    <3>2. TablesTypeOK'
      BY <2>5 DEF Result
    <3> QED BY <1>0, <1>1, <2>3, <2>5, <3>1, <3>2 DEF TexturesTypeOK, TablesTypeOK, DeferredUploads, PendingWrites
  <2> QED BY <2>5, <2>6, <2>9, <2>10, <2>11 DEF TexturesInv, Result
<1> QED BY <1>2, <1>3

(* Pixels are written to the object that t has now.                        *)
LEMMA ReplaceStep ==
    ASSUME TexturesInv, NEW t \in Textures, NEW v \in Versions, VK_TextureReplaceSubImageRGBA(t, v)
    PROVE  TexturesInv' /\ Untouched
<1> DEFINE w == [tex |-> t, pic |-> v]
           n == Len(pending)
<1>0. /\ TexturesTypeOK /\ LoopInv /\ UsesInv /\ ObjectsOwned /\ ElementsInv /\ UploadsInv /\ PendingInv
      /\ want \in [Textures -> Wishes]
      /\ object \in [Textures -> Objects \cup {NoObject}]
      /\ picture \in [Objects -> Versions \cup {NoPicture}]
      /\ pending \in Seq(PendingWrites) /\ n \in Nat /\ n <= MaxPending /\ DOMAIN pending = 1 .. n
      /\ uploads \in Seq(DeferredUploads)
  BY DEF TexturesInv, TexturesTypeOK, PendingWrites, DeferredUploads
<1>1. /\ UNCHANGED <<loop, object, filter, set, bindless, uploads, refreshes, frees, slots, live>>
      /\ Ready(t) /\ asked < MaxRequests /\ asked' = asked + 1
  BY DEF VK_TextureReplaceSubImageRGBA, Asks
<1> DEFINE batched == \E i \in DOMAIN pending : pending[i].tex = t
           appended == n < MaxPending /\ pending' = Append(pending, w) /\ picture' = picture
           overtook(x) == /\ pending' = pending /\ picture' = [picture EXCEPT ![object[t]] = v]
                          /\ x = v => ~batched
           failed(x) == /\ pending' = pending /\ x = LostPicture
                        /\ picture' \in {picture, [picture EXCEPT ![object[t]] = NoPicture]}
<1>13. PICK x \in {v, AnyPicture, LostPicture} :
          /\ Asked(t, x) /\ (x = v => ~Deferred(t))
          /\ appended \/ overtook(x) \/ failed(x)
  <2>1. v # AnyPicture /\ v # LostPicture
    BY <1>0, Bounds
  <2>2. CASE n < MaxPending
    BY <2>1, <2>2 DEF VK_TextureReplaceSubImageRGBA, Deferred
  <2>3. CASE ~(n < MaxPending)
    BY <2>1, <2>3 DEF VK_TextureReplaceSubImageRGBA, Deferred
  <2> QED BY <2>2, <2>3
<1>2. /\ want'[t] = x /\ want' \in [Textures -> Wishes]
      /\ \A u \in Textures : u # t => want'[u] = want[u]
      /\ x \in Versions => x = v /\ ~Deferred(t)
  <2>1. x \in Wishes /\ (x \in Versions => x = v)
    BY <1>0, Bounds DEF Wishes
  <2> QED BY <1>0, <1>13, <2>1 DEF Asked
<1>3. object[t] \in Objects /\ w \in PendingWrites /\ AnyPicture \notin Versions /\ LostPicture \notin Versions /\ MaxPending \in Nat
      /\ NoTexture \notin Textures
  BY <1>0, <1>1, Bounds DEF Ready, PendingWrites
<1>4. /\ pending' \in Seq(PendingWrites) /\ Len(pending') <= MaxPending
      /\ picture' \in [Objects -> Versions \cup {NoPicture}]
      /\ \A o \in Objects : o # object[t] => picture'[o] = picture[o]
      /\ \A i \in DOMAIN pending : i \in DOMAIN pending' /\ pending'[i] = pending[i]
      /\ \A i \in DOMAIN pending' : i \notin DOMAIN pending =>
            pending'[i] = w /\ \A j \in DOMAIN pending' : j <= i
      /\ x = v => \/ \E i \in DOMAIN pending' : i \notin DOMAIN pending
                  \/ /\ pending' = pending /\ picture'[object[t]] = v
                     /\ \A i \in DOMAIN pending : pending[i].tex # t
  <2>1. CASE appended
    <3> HIDE DEF w
    <3>1. /\ pending' \in Seq(PendingWrites) /\ Len(pending') = n + 1
          /\ DOMAIN pending' = 1 .. n + 1
          /\ \A i \in 1 .. n : pending'[i] = pending[i]
          /\ pending'[n + 1] = w
          /\ \A i \in 1 .. n + 1 : i \in 1 .. n \/ i = n + 1
      BY <1>0, <1>3, <2>1, AppendFacts
    <3> HIDE DEF n
    <3>2. /\ n + 1 <= MaxPending /\ n + 1 \in 1 .. n + 1 /\ n + 1 \notin 1 .. n
          /\ \A i \in 1 .. n : i \in 1 .. n + 1
          /\ \A j \in 1 .. n + 1 : j <= n + 1
      BY <1>0, <1>3, <2>1
    <3>3. \A i \in DOMAIN pending' : i \notin DOMAIN pending =>
             pending'[i] = w /\ \A j \in DOMAIN pending' : j <= i
      BY <1>0, <3>1, <3>2
    <3> QED BY <1>0, <2>1, <3>1, <3>2, <3>3
  <2>2. CASE overtook(x)
    BY <1>0, <1>3, <2>2
  <2>3. CASE failed(x)
    <3>1. x # v
      BY <1>0, <2>3, Bounds
    <3> QED BY <1>0, <1>3, <2>3, <3>1
  <2> QED BY <1>13, <2>1, <2>2, <2>3
<1> HIDE DEF batched, appended, overtook, failed
<1>5. \A u \in Textures \ {t} : Kept(u)
  <2>1. ASSUME NEW u \in Textures, u # t PROVE Kept(u)
    <3>1. Ready(u) => object[u] \in Objects /\ object[u] # object[t]
      BY <1>0, <2>1 DEF ObjectsOwned, Ready
    <3>2. object'[u] = object[u] /\ (Ready(u) => picture'[object[u]] = picture[object[u]])
      BY <1>1, <1>4, <3>1
    <3>3. w.tex # u
      BY <2>1
    <3> QED BY <1>4, <3>2, <3>3 DEF Kept
  <2> QED BY <2>1
<1>6. PictureInv'
  <2>1. ASSUME want'[t] \in Versions PROVE Shows(t, want[t])'
    <3>1. x = v /\ want'[t] = v
      BY <1>2, <2>1
    <3>0. CASE /\ pending' = pending /\ picture'[object[t]] = v
               /\ \A i \in DOMAIN pending : pending[i].tex # t
      BY <1>1, <3>0, <3>1 DEF Shows, LastOf
    <3> SUFFICES ASSUME \E i \in DOMAIN pending' : i \notin DOMAIN pending PROVE Shows(t, want[t])'
      BY <1>4, <3>0, <3>1
    <3>2. PICK k \in DOMAIN pending' : k \notin DOMAIN pending
      OBVIOUS
    <3>3. pending'[k] = w /\ pending'[k].tex = t /\ \A j \in DOMAIN pending' : j <= k
      BY <1>4, <3>2
    <3>4. \A i \in DOMAIN pending' : LastOf(t, i)' => i \notin DOMAIN pending
      <4>1. ASSUME NEW i \in DOMAIN pending', LastOf(t, i)', i \in DOMAIN pending PROVE FALSE
        <5>1. k <= i /\ i <= k
          BY <3>2, <3>3, <4>1 DEF LastOf
        <5>2. k \in Nat /\ i \in Nat
          <6>1. DOMAIN pending' = 1 .. Len(pending') /\ Len(pending') \in Nat
            BY <1>4
          <6> QED BY <3>2, <6>1
        <5>3. k = i
          BY <5>1, <5>2
        <5> QED BY <3>2, <4>1, <5>3
      <4> QED BY <4>1
    <3>5. \A i \in DOMAIN pending' : LastOf(t, i)' => pending'[i].pic = v
      BY <1>4, <3>4
    <3> QED BY <3>1, <3>2, <3>3, <3>5 DEF Shows
  <2>2. \A u \in Textures \ {t} : Kept(u) /\ want'[u] = want[u] /\ (Deferred(u) => Deferred(u)')
    BY <1>1, <1>2, <1>5 DEF Deferred
  <2> QED BY <2>1, <2>2, KeptPicture
<1>7. UploadsInv'
  <2>1. ASSUME NEW i \in DOMAIN uploads, want'[uploads[i].tex] \in Versions
        PROVE  uploads[i].pic = want'[uploads[i].tex]
    <3>1. uploads[i] \in DeferredUploads
      BY <1>0
    <3>2. uploads[i].tex \in Textures
      BY <3>1 DEF DeferredUploads
    <3>3. uploads[i].tex # t
      BY <1>2, <2>1 DEF Deferred
    <3>4. want'[uploads[i].tex] = want[uploads[i].tex]
      BY <1>2, <3>2, <3>3
    <3> QED BY <1>0, <2>1, <3>4 DEF UploadsInv
  <2> QED BY <1>0, <1>1, <2>1 DEF UploadsInv
<1>8. PendingInv'
  <2>1. w.pic \in Versions
    OBVIOUS
  <2> QED BY <1>0, <1>4, <2>1 DEF PendingInv
<1>9. /\ object' = object /\ set' = set /\ bindless' = bindless /\ frees' = frees /\ slots' = slots
      /\ flight' = flight /\ used' = used /\ stage' = stage /\ recording' = recording
  BY <1>1 DEF loop
<1>10. ObjectsOwned' /\ ElementsInv'
  BY <1>0, <1>9 DEF ObjectsOwned, ElementsInv, Ready, Contains
<1>11. UsesInv' /\ Untouched /\ LoopInv'
  BY <1>0, <1>9 DEF UsesInv, Untouched, LoopInv, InUse
<1>12. TexturesTypeOK'
  <2>1. asked' \in 0 .. MaxRequests
    BY <1>0, <1>1, Bounds DEF TexturesTypeOK
  <2> HIDE DEF n, w
  <2> QED BY <1>0, <1>1, <1>2, <1>4, <1>9, <2>1 DEF TexturesTypeOK, PendingWrites
<1> QED BY <1>6, <1>7, <1>8, <1>10, <1>11, <1>12 DEF TexturesInv

(* Writes to sets and elements leave objects and pictures.                 *)
LEMMA PicturesSame ==
    ASSUME TexturesInv, UNCHANGED <<object, picture, uploads, pending, want>>
    PROVE  UploadsInv' /\ PendingInv' /\ PictureInv'
<1>1. UploadsInv' /\ PendingInv'
  BY DEF TexturesInv, UploadsInv, PendingInv
<1>2. PictureInv'
  BY DEF TexturesInv, PictureInv, Ready, Deferred, Shows, LastOf
<1> QED BY <1>1, <1>2

(* A set is rewritten at once between two frames, and in a frame later.    *)
LEMMA FilteringStep ==
    ASSUME TexturesInv, NEW t \in Textures, NEW f \in Filters, VK_TextureSetFiltering(t, f)
    PROVE  TexturesInv' /\ Untouched
<1>0. /\ TexturesTypeOK /\ LoopInv /\ UsesInv /\ ObjectsOwned /\ ElementsInv
  BY DEF TexturesInv
<1>1. /\ UNCHANGED <<recording, used, object, picture, uploads, frees, slots, pending, live, want>>
      /\ stage = "idle" /\ asked < MaxRequests /\ asked' = asked + 1
      /\ filter' = [filter EXCEPT ![t] = f]
  BY DEF VK_TextureSetFiltering, Asks
<1>2. UploadsInv' /\ PendingInv' /\ PictureInv'
  BY <1>1, PicturesSame
<1>3. asked' \in 0 .. MaxRequests /\ filter' \in [Textures -> Filters]
  BY <1>0, <1>1, Bounds DEF TexturesTypeOK
<1>4. CASE ~recording
  <2>1. RewriteDescriptor(t, f) /\ UNCHANGED <<stage, refreshes>>
    BY <1>4 DEF VK_TextureSetFiltering
  <2>2. /\ flight' \in Seq(Uses) /\ Len(flight') <= Len(flight)
        /\ set' \in [Objects -> Filters \cup {Free}]
        /\ bindless' \in [Textures -> Objects \cup {NoObject}]
        /\ UsesInv' /\ ObjectsOwned' /\ ElementsInv' /\ Untouched
    BY <1>1, <1>4, <2>1, RewriteInv
  <2>3. Len(flight') <= FramesInFlight
    <3>1. Len(flight') \in Nat /\ Len(flight) <= FramesInFlight
      BY <1>0, <2>2 DEF TexturesTypeOK
    <3> QED BY <1>0, <2>2, <3>1, Bounds
  <2>4. LoopInv'
    BY <1>0, <1>1, <1>4, <2>1 DEF LoopInv
  <2>5. TexturesTypeOK'
    BY <1>0, <1>1, <1>3, <2>1, <2>2, <2>3 DEF TexturesTypeOK
  <2> QED BY <1>2, <2>2, <2>4, <2>5 DEF TexturesInv
<1>5. CASE recording
  <2>1. UNCHANGED <<flight, set, bindless>>
    BY <1>5 DEF VK_TextureSetFiltering
  <2>2. /\ refreshes' \in Seq(Textures) /\ Len(refreshes') <= MaxRefreshes
        /\ stage' \in {"idle", "crashed"}
    <3>0. refreshes \in Seq(Textures) /\ Len(refreshes) <= MaxRefreshes /\ Len(refreshes) \in Nat
          /\ MaxRefreshes \in Nat
      BY <1>0, Bounds DEF TexturesTypeOK
    <3>1. CASE refreshes' = refreshes
      BY <1>1, <1>5, <3>0, <3>1 DEF VK_TextureSetFiltering
    <3>2. CASE refreshes' = Append(refreshes, t) /\ Len(refreshes) < MaxRefreshes /\ stage' = stage
      <4>1. refreshes' \in Seq(Textures) /\ Len(refreshes') = Len(refreshes) + 1
        BY <3>0, <3>2, AppendFacts
      <4> QED BY <1>1, <3>0, <3>2, <4>1
    <3> QED BY <1>5, <3>1, <3>2 DEF VK_TextureSetFiltering
  <2>3. ObjectsOwned' /\ ElementsInv'
    BY <1>0, <1>1, <2>1 DEF ObjectsOwned, ElementsInv, Ready, Contains
  <2>4. UsesInv' /\ Untouched
    BY <1>0, <1>1, <2>1 DEF UsesInv, Untouched, InUse
  <2>5. LoopInv'
    BY <1>0, <1>1, <1>5, <2>1, <2>2 DEF LoopInv
  <2>6. TexturesTypeOK'
    BY <1>0, <1>1, <1>3, <2>1, <2>2 DEF TexturesTypeOK
  <2> QED BY <1>2, <2>3, <2>4, <2>5, <2>6 DEF TexturesInv
<1> QED BY <1>0, <1>4, <1>5 DEF TexturesTypeOK

(* The sets put off are freed once the device is idle.                     *)
LEMMA ApplyFreesStep ==
    ASSUME TexturesInv, ApplyFrees
    PROVE  TexturesInv' /\ Untouched
<1>0. /\ TexturesTypeOK /\ LoopInv /\ UsesInv /\ ObjectsOwned /\ ElementsInv
  BY DEF TexturesInv
<1>1. /\ UNCHANGED <<recording, used, object, filter, picture, bindless, uploads, refreshes, slots, pending, live, want, asked>>
      /\ stage = "free" /\ stage' = "upload" /\ frees' = <<>>
      /\ flight' = IF frees = <<>> THEN flight ELSE <<>>
      /\ set' = [o \in Objects |-> IF Contains(frees, o) THEN Free ELSE set[o]]
  BY DEF ApplyFrees, history
<1>2. ~recording /\ used = NoUse /\ NoUse \notin Objects /\ used' = used
  BY <1>0, <1>1, Bounds DEF LoopInv
<1>3. /\ frees' \in Seq(Objects) /\ Len(frees') = 0 /\ DOMAIN frees' = {}
      /\ DOMAIN <<>> = {} /\ <<>> \in Seq(Uses) /\ Len(<<>>) = 0
  BY <1>1
<1>4. \A o \in Objects : InUse(o)' => InUse(o) /\ frees = <<>>
  BY <1>1, <1>2, <1>3 DEF InUse
<1>5. \A o \in Objects : InUse(o)' => set'[o] = set[o] /\ frees = <<>>
  BY <1>1, <1>3, <1>4 DEF Contains
<1>6. Untouched
  BY <1>5 DEF Untouched
<1>7. UsesInv'
  BY <1>0, <1>3, <1>4, <1>5 DEF UsesInv
<1>8. ObjectsOwned'
  <2>1. \A u \in Textures : Ready(u) => object[u] \in Objects /\ set'[object[u]] = set[object[u]]
    BY <1>0, <1>1 DEF TexturesTypeOK, Ready, ObjectsOwned
  <2> QED BY <1>0, <1>1, <1>3, <2>1 DEF ObjectsOwned, Ready, Contains
<1>9. ElementsInv'
  BY <1>0, <1>1 DEF ElementsInv, Ready, Contains
<1>10. UploadsInv' /\ PendingInv' /\ PictureInv'
  BY <1>1, PicturesSame
<1>11. LoopInv'
  BY <1>0, <1>1, <1>2, <1>3, Bounds DEF LoopInv
<1>12. TexturesTypeOK'
  <2>1. set' \in [Objects -> Filters \cup {Free}]
    BY <1>0, <1>1 DEF TexturesTypeOK
  <2>2. flight' \in Seq(Uses) /\ Len(flight') <= FramesInFlight
    BY <1>0, <1>1, <1>3, Bounds DEF TexturesTypeOK
  <2>3. Len(frees') <= MaxFrees
    BY <1>0, <1>3, Bounds
  <2> QED BY <1>0, <1>1, <1>3, <2>1, <2>2, <2>3 DEF TexturesTypeOK
<1> QED BY <1>6, <1>7, <1>8, <1>9, <1>10, <1>11, <1>12 DEF TexturesInv

(* The sets whose filters changed in the frame are rewritten.              *)
LEMMA ApplyRefreshesStep ==
    ASSUME TexturesInv, ApplyRefreshes
    PROVE  TexturesInv' /\ Untouched
<1>0. /\ TexturesTypeOK /\ LoopInv /\ UsesInv /\ ObjectsOwned /\ ElementsInv
  BY DEF TexturesInv
<1>1. /\ UNCHANGED <<recording, used, object, filter, picture, uploads, frees, slots, pending, live, want, asked>>
      /\ stage = "refresh"
  BY DEF ApplyRefreshes, history
<1>2. UploadsInv' /\ PendingInv' /\ PictureInv'
  BY <1>1, PicturesSame
<1>3. ~recording
  BY <1>0, <1>1 DEF LoopInv
<1>4. CASE refreshes = <<>>
  <2>1. stage' = "slots" /\ UNCHANGED <<flight, set, bindless, refreshes>>
    BY <1>4 DEF ApplyRefreshes
  <2>2. ObjectsOwned' /\ ElementsInv'
    BY <1>0, <1>1, <2>1 DEF ObjectsOwned, ElementsInv, Ready, Contains
  <2>3. UsesInv' /\ Untouched
    BY <1>0, <1>1, <2>1 DEF UsesInv, Untouched, InUse
  <2>4. LoopInv'
    BY <1>0, <1>1, <2>1 DEF LoopInv
  <2>5. TexturesTypeOK'
    BY <1>0, <1>1, <2>1 DEF TexturesTypeOK
  <2> QED BY <1>2, <2>2, <2>3, <2>4, <2>5 DEF TexturesInv
<1>5. CASE refreshes # <<>>
  <2>0. refreshes \in Seq(Textures) /\ Len(refreshes) <= MaxRefreshes /\ MaxRefreshes \in Nat
        /\ filter \in [Textures -> Filters]
    BY <1>0, Bounds DEF TexturesTypeOK
  <2>1. /\ Head(refreshes) \in Textures /\ Tail(refreshes) \in Seq(Textures)
        /\ Len(Tail(refreshes)) = Len(refreshes) - 1 /\ Len(refreshes) \in Nat
    BY <1>5, <2>0, TailFacts
  <2>2. PICK t \in Textures : t = Head(refreshes)
    BY <2>1
  <2>3. RewriteDescriptor(t, filter[t]) /\ refreshes' = Tail(refreshes) /\ stage' = stage
    BY <1>5, <2>2 DEF ApplyRefreshes
  <2>4. PICK f \in Filters : f = filter[t]
    BY <2>0
  <2>5. /\ flight' \in Seq(Uses) /\ Len(flight') <= Len(flight)
        /\ set' \in [Objects -> Filters \cup {Free}]
        /\ bindless' \in [Textures -> Objects \cup {NoObject}]
        /\ UsesInv' /\ ObjectsOwned' /\ ElementsInv' /\ Untouched
    BY <1>1, <1>3, <2>3, <2>4, RewriteInv
  <2>6. Len(flight') \in Nat
    BY <2>5
  <2>7. Len(flight') <= FramesInFlight /\ (Len(flight) < FramesInFlight => Len(flight') < FramesInFlight)
    <3>1. Len(flight) <= FramesInFlight /\ Len(flight) \in Nat
      BY <1>0 DEF TexturesTypeOK
    <3> QED BY <1>0, <2>5, <2>6, <3>1, Bounds
  <2>8. LoopInv'
    BY <1>0, <1>1, <2>3, <2>7 DEF LoopInv
  <2>9. TexturesTypeOK'
    <3>1. refreshes' \in Seq(Textures) /\ Len(refreshes') <= MaxRefreshes
      BY <2>0, <2>1, <2>3
    <3> QED BY <1>0, <1>1, <2>3, <2>5, <2>7, <3>1 DEF TexturesTypeOK
  <2> QED BY <1>2, <2>5, <2>8, <2>9 DEF TexturesInv
<1> QED BY <1>4, <1>5

(* The elements of the textures uploaded in the frame are written.         *)
LEMMA ApplySlotsStep ==
    ASSUME TexturesInv, ApplySlots
    PROVE  TexturesInv' /\ Untouched
<1>0. /\ TexturesTypeOK /\ LoopInv /\ UsesInv /\ ObjectsOwned /\ ElementsInv
      /\ slots \in Seq(Textures) /\ Len(slots) <= MaxSlots /\ MaxSlots \in Nat
      /\ bindless \in [Textures -> Objects \cup {NoObject}]
      /\ object \in [Textures -> Objects \cup {NoObject}]
  BY Bounds DEF TexturesInv, TexturesTypeOK
<1>1. /\ UNCHANGED <<recording, used, flight, object, filter, set, picture, uploads, refreshes, frees, pending, live, want, asked>>
      /\ stage = "slots"
  BY DEF ApplySlots, history
<1>2. UploadsInv' /\ PendingInv' /\ PictureInv'
  BY <1>1, PicturesSame
<1>3. ObjectsOwned'
  BY <1>0, <1>1 DEF ObjectsOwned, Ready, Contains
<1>4. UsesInv' /\ Untouched
  BY <1>0, <1>1 DEF UsesInv, Untouched, InUse
<1>5. CASE slots = <<>>
  <2>1. stage' = "flush" /\ UNCHANGED <<bindless, slots>>
    BY <1>5 DEF ApplySlots
  <2>2. ElementsInv'
    BY <1>0, <1>1, <2>1 DEF ElementsInv, Ready, Contains
  <2>3. LoopInv'
    BY <1>0, <1>1, <2>1 DEF LoopInv
  <2>4. TexturesTypeOK'
    BY <1>0, <1>1, <2>1 DEF TexturesTypeOK
  <2> QED BY <1>2, <1>3, <1>4, <2>2, <2>3, <2>4 DEF TexturesInv
<1>6. CASE slots # <<>>
  <2> DEFINE n == Len(slots)
  <2>1. /\ Tail(slots) \in Seq(Textures) /\ Len(Tail(slots)) = n - 1 /\ n \in Nat
        /\ DOMAIN slots = 1 .. n /\ DOMAIN Tail(slots) = 1 .. n - 1
        /\ \A i \in 1 .. n - 1 : Tail(slots)[i] = slots[i + 1] /\ i + 1 \in 1 .. n
        /\ Head(slots) = slots[1] /\ Head(slots) \in Textures
        /\ \A i \in 1 .. n : i = 1 \/ (i - 1 \in 1 .. n - 1 /\ (i - 1) + 1 = i)
    BY <1>0, <1>6, TailFacts
  <2>2. PICK t \in Textures : t = Head(slots) /\ t = slots[1]
    BY <2>1
  <2>3. VK_TextureBindlessUpdateSlot(t) /\ slots' = Tail(slots) /\ stage' = stage
    BY <1>6, <2>2 DEF ApplySlots
  <2>4. /\ bindless' \in [Textures -> Objects \cup {NoObject}]
        /\ \A u \in Textures : u # t => bindless'[u] = bindless[u]
        /\ Bindless /\ Ready(t) => bindless'[t] = object[t]
    BY <1>0, <2>3 DEF VK_TextureBindlessUpdateSlot, Ready
  <2>5. ASSUME NEW u \in Textures, u # t, Contains(slots, u) PROVE Contains(slots', u)
    <3>1. PICK i \in 1 .. n : slots[i] = u
      BY <2>1, <2>5 DEF Contains
    <3>2. i # 1
      BY <2>2, <2>5, <3>1
    <3>3. i - 1 \in 1 .. n - 1 /\ Tail(slots)[i - 1] = u
      BY <2>1, <3>1, <3>2
    <3> QED BY <2>1, <2>3, <3>3 DEF Contains
  <2>6. ElementsInv'
    BY <1>0, <1>1, <2>4, <2>5 DEF ElementsInv, Ready
  <2>7. LoopInv'
    BY <1>0, <1>1, <2>3 DEF LoopInv
  <2>8. TexturesTypeOK'
    <3>1. slots' \in Seq(Textures) /\ Len(slots') <= MaxSlots
      BY <1>0, <2>1, <2>3
    <3> QED BY <1>0, <1>1, <2>3, <2>4, <3>1 DEF TexturesTypeOK
  <2> QED BY <1>2, <1>3, <1>4, <2>6, <2>7, <2>8 DEF TexturesInv
<1> QED BY <1>5, <1>6

(* The last copy pending for the texture that owns o is what o shows.      *)
LEMMA CopiedFacts ==
    ASSUME TexturesInv
    PROVE  /\ \A o \in Objects : Copied(o) \in Versions \cup {NoPicture}
           /\ \A u \in Textures : \A v : Ready(u) /\ Shows(u, v) => Copied(object[u]) = v
<1> DEFINE mine(o) == {i \in DOMAIN pending : pending[i].tex # NoTexture /\ object[pending[i].tex] = o}
           n == Len(pending)
<1>0. /\ pending \in Seq(PendingWrites) /\ n \in Nat /\ DOMAIN pending = 1 .. n
      /\ object \in [Textures -> Objects \cup {NoObject}] /\ picture \in [Objects -> Versions \cup {NoPicture}]
      /\ NoTexture \notin Textures /\ NoObject \notin Objects
  BY Bounds DEF TexturesInv, TexturesTypeOK, PendingWrites
<1>1. ASSUME NEW o \in Objects, mine(o) # {}
      PROVE  \E i \in mine(o) : /\ \A j \in mine(o) : j <= i
                                /\ Copied(o) = pending[i].pic
  <2>1. mine(o) \in SUBSET (1 .. n)
    BY <1>0
  <2> HIDE DEF n
  <2>2. \E i \in mine(o) : \A j \in mine(o) : j <= i
    BY <1>0, <1>1, <2>1, LastIndex
  <2> DEFINE i0 == CHOOSE i \in mine(o) : \A j \in mine(o) : j <= i
  <2>3. i0 \in mine(o) /\ \A j \in mine(o) : j <= i0
    BY <2>2
  <2>4. Copied(o) = pending[i0].pic
    BY <1>1 DEF Copied
  <2> QED BY <2>3, <2>4
<1>2. ASSUME NEW o \in Objects, mine(o) = {} PROVE Copied(o) = picture[o]
  BY <1>2 DEF Copied
<1>3. ASSUME NEW o \in Objects PROVE Copied(o) \in Versions \cup {NoPicture}
  <2>1. CASE mine(o) = {}
    BY <1>0, <1>2, <2>1
  <2>2. CASE mine(o) # {}
    <3>1. PICK i \in DOMAIN pending : Copied(o) = pending[i].pic
      BY <1>1, <2>2
    <3>2. pending[i] \in PendingWrites
      BY <1>0
    <3> QED BY <3>1, <3>2 DEF PendingWrites
  <2> QED BY <2>1, <2>2
<1>4. ASSUME NEW u \in Textures, NEW v, Ready(u), Shows(u, v) PROVE Copied(object[u]) = v
  <2>1. PICK o \in Objects : o = object[u]
    BY <1>0, <1>4 DEF Ready
  <2>2. ASSUME NEW i \in DOMAIN pending PROVE i \in mine(o) <=> pending[i].tex = u
    <3>1. pending[i] \in PendingWrites
      BY <1>0
    <3>2. pending[i].tex \in Textures \cup {NoTexture}
      BY <3>1 DEF PendingWrites
    <3>3. CASE pending[i].tex = u
      BY <1>0, <2>1, <3>3
    <3>4. CASE pending[i].tex # u
      <4>1. ASSUME i \in mine(o) PROVE FALSE
        <5>1. pending[i].tex \in Textures /\ object[pending[i].tex] = object[u]
          BY <2>1, <3>2, <4>1
        <5> QED BY <1>4, <3>4, <5>1 DEF TexturesInv, ObjectsOwned
      <4> QED BY <3>4, <4>1
    <3> QED BY <3>3, <3>4
  <2>3. CASE mine(o) = {}
    BY <1>2, <1>4, <2>1, <2>2, <2>3 DEF Shows
  <2>4. CASE mine(o) # {}
    <3>1. PICK i \in mine(o) : (\A j \in mine(o) : j <= i) /\ Copied(o) = pending[i].pic
      BY <1>1, <2>4
    <3>2. i \in DOMAIN pending /\ LastOf(u, i)
      BY <2>2, <3>1 DEF LastOf
    <3> QED BY <1>4, <2>1, <3>1, <3>2 DEF Shows
  <2> QED BY <2>3, <2>4
<1> QED BY <1>3, <1>4

(* The batch is copied ahead of the frame, or waits for the next one.      *)
LEMMA FlushStep ==
    ASSUME TexturesInv, VK_TextureFlushPendingUploads
    PROVE  TexturesInv' /\ Untouched
<1>0. /\ TexturesTypeOK /\ LoopInv /\ UsesInv /\ ObjectsOwned /\ ElementsInv /\ UploadsInv /\ PendingInv
  BY DEF TexturesInv
<1>1. /\ UNCHANGED <<used, flight, object, filter, set, bindless, uploads, refreshes, frees, slots, live, want, asked>>
      /\ stage = "flush" /\ stage' = "idle" /\ recording' = TRUE
      /\ \/ picture' = [o \in Objects |-> Copied(o)] /\ pending' = <<>>
         \/ picture' = picture /\ pending' = pending
  BY DEF VK_TextureFlushPendingUploads, history
<1>2. ObjectsOwned' /\ ElementsInv'
  BY <1>0, <1>1 DEF ObjectsOwned, ElementsInv, Ready, Contains
<1>3. UsesInv' /\ Untouched
  BY <1>0, <1>1 DEF UsesInv, Untouched, InUse
<1>4. LoopInv'
  BY <1>0, <1>1 DEF LoopInv
<1>5. UploadsInv'
  BY <1>0, <1>1 DEF UploadsInv
<1>6. CASE picture' = [o \in Objects |-> Copied(o)] /\ pending' = <<>>
  <2>1. /\ DOMAIN pending' = {} /\ Len(pending') = 0 /\ pending' \in Seq(PendingWrites)
    BY <1>6
  <2>2. picture' \in [Objects -> Versions \cup {NoPicture}]
    BY <1>6, CopiedFacts
  <2>3. PendingInv'
    BY <2>1 DEF PendingInv
  <2>4. PictureInv'
    <3>1. ASSUME NEW u \in Textures, (Ready(u) /\ want[u] \in Versions /\ ~Deferred(u))'
          PROVE  Shows(u, want[u])'
      <4>1. Ready(u) /\ want[u] \in Versions /\ ~Deferred(u) /\ object'[u] = object[u] /\ want'[u] = want[u]
        BY <1>1, <3>1 DEF Ready, Deferred
      <4>2. Shows(u, want[u])
        BY <4>1 DEF TexturesInv, PictureInv
      <4>3. Copied(object[u]) = want[u]
        BY <4>1, <4>2, CopiedFacts
      <4>4. object[u] \in Objects
        BY <1>0, <4>1 DEF TexturesTypeOK, Ready
      <4>5. picture'[object[u]] = want[u]
        BY <1>6, <4>3, <4>4
      <4> QED BY <2>1, <4>1, <4>5 DEF Shows
    <3> QED BY <3>1 DEF PictureInv
  <2>5. TexturesTypeOK'
    <3>1. Len(pending') <= MaxPending
      BY <1>0, <2>1, Bounds
    <3> QED BY <1>0, <1>1, <2>1, <2>2, <3>1 DEF TexturesTypeOK, PendingWrites
  <2> QED BY <1>2, <1>3, <1>4, <1>5, <2>3, <2>4, <2>5 DEF TexturesInv
<1>7. CASE picture' = picture /\ pending' = pending
  <2>1. PendingInv' /\ PictureInv'
    BY <1>1, <1>7, PicturesSame
  <2>2. TexturesTypeOK'
    BY <1>0, <1>1, <1>7 DEF TexturesTypeOK
  <2> QED BY <1>2, <1>3, <1>4, <1>5, <2>1, <2>2 DEF TexturesInv
<1> QED BY <1>1, <1>6, <1>7

-----------------------------------------------------------------------------
(* The theorems                                                            *)

(* Nothing is loaded when the renderer starts.                             *)
LEMMA InitTextures == TexturesInit => TexturesInv
<1> SUFFICES ASSUME TexturesInit PROVE TexturesInv
  OBVIOUS
<1>0. /\ DOMAIN <<>> = {} /\ Len(<<>>) = 0 /\ \A S : <<>> \in Seq(S)
      /\ {MaxUploads, MaxRefreshes, MaxFrees, MaxSlots, MaxPending, MaxRequests} \subseteq Nat
      /\ FramesInFlight \in Nat \ {0}
  BY VkLimitsAssumption, VkTexturesAssumption
<1>1. \A t \in Textures : ~Ready(t)
  BY DEF TexturesInit, Ready
<1>2. TexturesTypeOK
  <2>1. /\ stage \in {"idle", "free", "upload", "refresh", "slots", "flush", "crashed"}
        /\ recording \in BOOLEAN /\ used \in Uses /\ flight = <<>>
        /\ live \in [Textures -> BOOLEAN]
        /\ object \in [Textures -> Objects \cup {NoObject}]
        /\ filter \in [Textures -> Filters]
        /\ set \in [Objects -> Filters \cup {Free}]
        /\ picture \in [Objects -> Versions \cup {NoPicture}]
        /\ bindless \in [Textures -> Objects \cup {NoObject}]
        /\ uploads = <<>> /\ refreshes = <<>> /\ frees = <<>> /\ slots = <<>> /\ pending = <<>>
        /\ asked = 0 /\ want \in [Textures -> Wishes]
    BY DEF TexturesInit, Uses, Filters, Wishes
  <2>2. /\ 0 <= FramesInFlight /\ 0 <= MaxUploads /\ 0 <= MaxRefreshes /\ 0 <= MaxFrees
        /\ 0 <= MaxSlots /\ 0 <= MaxPending /\ 0 \in 0 .. MaxRequests
    BY <1>0
  <2> QED BY <1>0, <2>1, <2>2 DEF TexturesTypeOK
<1>3. LoopInv
  BY <1>0 DEF TexturesInit, LoopInv
<1>4. UsesInv
  <2>1. \A o \in Objects : ~InUse(o)
    BY <1>0, VkLimitsAssumption, VkTexturesAssumption DEF TexturesInit, InUse
  <2> QED BY <2>1 DEF UsesInv
<1>5. ObjectsOwned /\ ElementsInv
  BY <1>0, <1>1 DEF TexturesInit, ObjectsOwned, ElementsInv
<1>6. UploadsInv /\ PendingInv
  BY <1>0 DEF TexturesInit, UploadsInv, PendingInv
<1>7. PictureInv
  BY <1>1 DEF PictureInv
<1> QED BY <1>2, <1>3, <1>4, <1>5, <1>6, <1>7 DEF TexturesInv

(* Every step keeps the invariant and touches no set in use.               *)
LEMMA TexturesStep == TexturesInv /\ [TexturesNext]_texturesVars => TexturesInv' /\ (Untouched \/ UNCHANGED texturesVars)
<1> SUFFICES ASSUME TexturesInv, [TexturesNext]_texturesVars PROVE TexturesInv' /\ (Untouched \/ UNCHANGED texturesVars)
  OBVIOUS
<1>1. CASE UNCHANGED texturesVars
  <2>1. UNCHANGED <<loop, tables, queues, live, want, asked>>
    BY <1>1 DEF texturesVars, history
  <2>2. UsesInv' /\ ObjectsOwned' /\ ElementsInv' /\ UploadsInv' /\ PendingInv' /\ PictureInv'
    BY <2>1, TablesSame DEF InUse, loop, queues
  <2>3. TexturesTypeOK'
    BY <2>1 DEF TexturesInv, TexturesTypeOK, loop, tables, queues
  <2>4. LoopInv'
    BY <2>1 DEF TexturesInv, LoopInv, loop
  <2> QED BY <1>1, <2>2, <2>3, <2>4 DEF TexturesInv
<1>2. ASSUME NEW t \in Textures, R_NextTextureSlot(t) \/ VK_TextureDelete(t) \/ Draw(t)
      PROVE  TexturesInv' /\ Untouched
  BY <1>2, NextTextureSlotStep, DeleteStep, DrawStep
<1>3. ASSUME NEW t \in Textures, NEW v \in Versions, VK_UploadTexture(t, v) \/ VK_TextureReplaceSubImageRGBA(t, v)
      PROVE  TexturesInv' /\ Untouched
  BY <1>3, UploadStep, ReplaceStep
<1>4. ASSUME NEW t \in Textures, NEW f \in Filters, VK_TextureSetFiltering(t, f)
      PROVE  TexturesInv' /\ Untouched
  BY <1>4, FilteringStep
<1>5. CASE VK_TextureApplyDeferredUploads \/ ApplyFrees \/ ApplyUploads \/ ApplyRefreshes \/ ApplySlots
  BY <1>5, BeginFrameStep, ApplyFreesStep, ApplyUploadsStep, ApplyRefreshesStep, ApplySlotsStep
<1>6. CASE VK_TextureFlushPendingUploads \/ SubmitFrame \/ GPU_Finish
  BY <1>6, FlushStep, EndFrameStep, FinishStep
<1> QED BY <1>1, <1>2, <1>3, <1>4, <1>5, <1>6 DEF TexturesNext

(* The invariant of the textures holds in every state.                     *)
THEOREM TexturesInvariant == TexturesSpec => []TexturesInv
<1>1. TexturesInv /\ [TexturesNext]_texturesVars => TexturesInv'
  BY TexturesStep
<1> QED BY InitTextures, <1>1, PTL DEF TexturesSpec

(* Every image and every descriptor set has one owner, a set is freed only *)
(* once, and outside VK_BeginFrame the bindless element of *)
(* a texture is its image, unless it is queued.                            *)
THEOREM TexturesCorrect == TexturesSpec => []TextureInv
<1>1. TexturesInv => TextureInv
  BY DEF TexturesInv, TextureInv, ElementsInv, ElementsCurrent
<1> QED BY TexturesInvariant, <1>1, PTL

(* No descriptor set is freed or rewritten while a draw that has bound it  *)
(* is recorded or executed, but for the set that a frame frees at once     *)
(* because VK_MAX_DEFERRED_DESCRIPTOR_FREES sets are waiting already.      *)
THEOREM NoSetInUseTouched == TexturesSpec => SetsUntouched
<1>1. TexturesInv /\ [TexturesNext]_texturesVars =>
        [\A o \in Objects : set'[o] # set[o] /\ InUse(o)' =>
           Len(frees) = MaxFrees /\ (recording \/ set[o] = Free)]_texturesVars
  BY TexturesStep DEF Untouched
<1> QED BY TexturesInvariant, <1>1, PTL DEF TexturesSpec, SetsUntouched

(* When no upload and no copy of a texture is put off, its image shows the *)
(* picture that was asked for last, if the copy of that one could be made. *)
THEOREM LatestPicture == TexturesSpec => []LatestPictureWins
<1>1. TexturesInv => LatestPictureWins
  BY DEF TexturesInv, PictureInv, LatestPictureWins, Deferred, Shows
<1> QED BY TexturesInvariant, <1>1, PTL

-----------------------------------------------------------------------------
(*                            The frame loop                               *)
-----------------------------------------------------------------------------
(* The inductive invariant *)

\* Only a complete swapchain is drawn to, and without one nothing is in flight.
ChainInv ==
  /\ active => pc = "draw"
  /\ pc \in {"wait", "acquire", "image wait"} \/ active => handle
  /\ handle => surface
  /\ ~handle => queue = <<>>

\* The fence of a submitted frame is not signaled, frames in flight have
\* different slots, and the semaphore of an acquire is waited for or is to be.
FencesInv ==
  /\ \A i \in DOMAIN queue : ~fence[queue[i].slot]
  /\ \A i, j \in DOMAIN queue : queue[i].slot = queue[j].slot => i = j
  /\ pc \in {"acquire", "image wait"} \/ active => fence[current]
  /\ \A s \in Slots : available[s] # "no" =>
       \/ \E i \in DOMAIN queue : queue[i].slot = s
       \/ s = current /\ (pc \in {"image wait", "restart"} \/ active)

\* Every submitted image waits to be presented, on its own semaphore, and is
\* lent to nobody.
PresentsInv ==
  /\ \A i \in DOMAIN presents :
       presents[i].sem = presents[i].image /\ owner[presents[i].image] = "queued"
  /\ \A i, j \in DOMAIN presents : presents[i].image = presents[j].image => i = j
  /\ \A i \in DOMAIN queue : \E j \in DOMAIN presents : presents[j].image = queue[i].image
  /\ \A i, j \in DOMAIN queue : queue[i].image = queue[j].image => i = j
  /\ \A x \in Slots \cup Images : finished[x] =>
       /\ \E i \in DOMAIN presents : presents[i].image = x
       /\ \A i \in DOMAIN queue : queue[i].image # x

\* An image that is lent to the program is the one of the frame.
OwnersInv ==
  /\ pc = "image wait" \/ active => owner[image] = "app"
  /\ \A i \in Images : owner[i] = "app" =>
       i = image /\ (pc \in {"image wait", "restart"} \/ active)

FramesInv == FramesTypeOK /\ ChainInv /\ FencesInv /\ PresentsInv /\ OwnersInv

-----------------------------------------------------------------------------
(* The initial state *)

\* The invariant holds when the renderer has started (VK_Init).
LEMMA InitFrames == FramesInit => FramesInv
<1> SUFFICES ASSUME FramesInit PROVE FramesInv
  OBVIOUS
<1>1. LoopTypeOK
  BY DEF FramesInit, LoopTypeOK
<1>2. FrameTypeOK
  <2>1. 0 \in Slots /\ 0 \in Images
    BY VkLimitsAssumption, VkFramesAssumption DEF Slots, Images
  <2> QED BY <2>1 DEF FramesInit, FrameTypeOK
<1>3. DeviceTypeOK
  BY DEF FramesInit, DeviceTypeOK
<1>4. ChainInv
  BY DEF FramesInit, ChainInv
<1>5. FencesInv
  BY DEF FramesInit, FencesInv
<1>6. PresentsInv
  BY DEF FramesInit, PresentsInv
<1>7. OwnersInv
  BY DEF FramesInit, OwnersInv
<1> QED BY <1>1, <1>2, <1>3, <1>4, <1>5, <1>6, <1>7 DEF FramesInv, FramesTypeOK

-----------------------------------------------------------------------------
(* Types *)

\* The next frame index is one.
LEMMA NextFrameType == ASSUME NEW s \in Slots PROVE NextFrame(s) \in Slots
BY VkLimitsAssumption, VkFramesAssumption DEF NextFrame, Slots

\* What is made anew has its type.
LEMMA FreshType == FreshFrame /\ FreshDevice => FrameTypeOK' /\ DeviceTypeOK'
<1> SUFFICES ASSUME FreshFrame, FreshDevice PROVE FrameTypeOK' /\ DeviceTypeOK'
  OBVIOUS
<1>1. FrameTypeOK'
  <2>1. 0 \in Slots /\ 0 \in Images
    BY VkLimitsAssumption, VkFramesAssumption DEF Slots, Images
  <2> QED BY <2>1 DEF FreshFrame, FrameTypeOK
<1>2. DeviceTypeOK'
  BY DEF FreshDevice, DeviceTypeOK
<1> QED BY <1>1, <1>2

\* No step of the frame loop or of the device breaks a type.
LEMMA LoopType == FramesTypeOK /\ [FramesNext]_framesVars => LoopTypeOK'
<1> SUFFICES ASSUME FramesTypeOK, [FramesNext]_framesVars PROVE LoopTypeOK'
  OBVIOUS
<1>1. CASE VK_BeginFrame
  BY <1>1 DEF VK_BeginFrame, FramesTypeOK, LoopTypeOK, chain
<1>2. CASE VK_RecreateSwapChain
  BY <1>2 DEF VK_RecreateSwapChain, FramesTypeOK, LoopTypeOK, requests
<1>3. CASE WaitFrameFence \/ AcquireImage \/ WaitImageFence
  BY <1>3 DEF WaitFrameFence, AcquireImage, WaitImageFence, FramesTypeOK, LoopTypeOK, requests, chain
<1>4. CASE R_EndRendering
  BY <1>4 DEF R_EndRendering, FramesTypeOK, LoopTypeOK, chain
<1>5. CASE VK_AbandonActiveFrame
  BY <1>5 DEF VK_AbandonActiveFrame, FramesTypeOK, LoopTypeOK, requests, chain
<1>6. CASE VK_Restart
  BY <1>6 DEF VK_Restart, FramesTypeOK, LoopTypeOK, requests
<1>7. CASE UNCHANGED <<pc, requests, chain>>
  BY <1>7 DEF FramesTypeOK, LoopTypeOK, requests, chain
<1> QED
  BY <1>1, <1>2, <1>3, <1>4, <1>5, <1>6, <1>7
  DEF FramesNext, BeginFrame, Engine, GPU_Execute, Engine_Show, Engine_Signal, framesVars

\* The same for the state of the frame.
LEMMA FrameType == FramesTypeOK /\ [FramesNext]_framesVars => FrameTypeOK'
<1> SUFFICES ASSUME FramesTypeOK, [FramesNext]_framesVars PROVE FrameTypeOK'
  OBVIOUS
<1>1. CASE UNCHANGED frame
  BY <1>1 DEF FramesTypeOK, FrameTypeOK, frame
<1>2. CASE FreshFrame /\ FreshDevice
  BY <1>2, FreshType
<1>3. CASE AcquireImage
  BY <1>3 DEF AcquireImage, FramesTypeOK, FrameTypeOK
<1>4. CASE WaitImageFence
  BY <1>4 DEF WaitImageFence, FramesTypeOK, FrameTypeOK
<1>5. CASE VK_EndFrame
  BY <1>5, NextFrameType DEF VK_EndFrame, FramesTypeOK, FrameTypeOK
<1>6. CASE VK_AbandonActiveFrame
  BY <1>6 DEF VK_AbandonActiveFrame, FramesTypeOK, FrameTypeOK
<1>7. CASE GPU_Execute
  BY <1>7 DEF GPU_Execute, FramesTypeOK, FrameTypeOK
<1> QED
  BY <1>1, <1>2, <1>3, <1>4, <1>5, <1>6, <1>7
  DEF FramesNext, BeginFrame, Engine, Engine_Show, Engine_Signal, framesVars, VK_BeginFrame, WaitFrameFence,
      VK_RecreateSwapChain, VK_Restart, R_EndRendering, frame

\* What is in a sequence over S is in S.
LEMMA Element == ASSUME NEW S, NEW q \in Seq(S), NEW i \in DOMAIN q PROVE q[i] \in S
OBVIOUS

\* Setting one of several flags leaves them flags.
LEMMA FlagSet ==
  ASSUME NEW S, NEW f \in [S -> BOOLEAN], NEW x, NEW b \in BOOLEAN
  PROVE  [f EXCEPT ![x] = b] \in [S -> BOOLEAN]
<1>1. [f EXCEPT ![x] = b] = [y \in S |-> IF y = x THEN b ELSE f[y]]
  OBVIOUS
<1>2. \A y \in S : (IF y = x THEN b ELSE f[y]) \in BOOLEAN
  OBVIOUS
<1> QED BY <1>1, <1>2

\* The same for the device.
LEMMA DeviceType == FramesTypeOK /\ [FramesNext]_framesVars => DeviceTypeOK'
<1> SUFFICES ASSUME FramesTypeOK, [FramesNext]_framesVars PROVE DeviceTypeOK'
  OBVIOUS
<1>1. CASE UNCHANGED device
  BY <1>1 DEF FramesTypeOK, DeviceTypeOK, device
<1>2. CASE FreshFrame /\ FreshDevice
  BY <1>2, FreshType
<1>3. CASE AcquireImage
  BY <1>3 DEF AcquireImage, FramesTypeOK, DeviceTypeOK
<1>4. CASE VK_EndFrame
  <2>1. queue' \in Seq([slot : Slots, image : Images])
    BY <1>4 DEF VK_EndFrame, FramesTypeOK, FrameTypeOK, DeviceTypeOK
  <2>2. presents' \in Seq([image : Images, sem : Slots \cup Images])
    BY <1>4 DEF VK_EndFrame, RenderFinished, FramesTypeOK, FrameTypeOK, DeviceTypeOK
  <2>3. owner' \in [Images -> {"free", "app", "queued", "shown"}]
    BY <1>4 DEF VK_EndFrame, FramesTypeOK, FrameTypeOK, DeviceTypeOK
  <2> QED BY <1>4, <2>1, <2>2, <2>3 DEF VK_EndFrame, FramesTypeOK, DeviceTypeOK
<1>5. CASE GPU_Execute
  <2>1. queue' \in Seq([slot : Slots, image : Images])
    BY <1>5 DEF GPU_Execute, FramesTypeOK, DeviceTypeOK
  <2>2. available' \in [Slots -> {"no", "coming", "signaled"}]
    BY <1>5 DEF GPU_Execute, FramesTypeOK, DeviceTypeOK
  <2>3. finished' \in [Slots \cup Images -> BOOLEAN]
    <3>1. PICK x : finished' = [finished EXCEPT ![x] = TRUE]
      BY <1>5 DEF GPU_Execute
    <3>2. finished \in [Slots \cup Images -> BOOLEAN]
      BY DEF FramesTypeOK, DeviceTypeOK
    <3> QED BY <3>1, <3>2, FlagSet
  <2> QED BY <1>5, <2>1, <2>2, <2>3 DEF GPU_Execute, FramesTypeOK, DeviceTypeOK
<1>6. CASE Engine_Show
  <2>1. presents' \in Seq([image : Images, sem : Slots \cup Images])
    BY <1>6 DEF Engine_Show, FramesTypeOK, DeviceTypeOK
  <2>2. owner' \in [Images -> {"free", "app", "queued", "shown"}]
    BY <1>6 DEF Engine_Show, FramesTypeOK, DeviceTypeOK
  <2>3. finished' \in [Slots \cup Images -> BOOLEAN]
    <3>1. finished \in [Slots \cup Images -> BOOLEAN]
      BY DEF FramesTypeOK, DeviceTypeOK
    <3> QED BY <1>6, <3>1, FlagSet DEF Engine_Show
  <2>4. UNCHANGED <<available, queue>>
    BY <1>6 DEF Engine_Show
  <2> QED BY <2>1, <2>2, <2>3, <2>4 DEF FramesTypeOK, DeviceTypeOK
<1>7. ASSUME NEW s \in Slots, Engine_Signal(s) PROVE DeviceTypeOK'
  BY <1>7 DEF Engine_Signal, FramesTypeOK, DeviceTypeOK
<1> QED
  BY <1>1, <1>2, <1>3, <1>4, <1>5, <1>6, <1>7
  DEF FramesNext, BeginFrame, Engine, framesVars, VK_BeginFrame, WaitFrameFence, WaitImageFence,
      VK_AbandonActiveFrame, VK_RecreateSwapChain, VK_Restart, R_EndRendering, device

\* No step breaks a type.
LEMMA NextFramesType == FramesTypeOK /\ [FramesNext]_framesVars => FramesTypeOK'
BY LoopType, FrameType, DeviceType DEF FramesTypeOK

\* Every variable of the frame loop keeps its type (vk_main.c).
THEOREM FramesTypes == FramesSpec => []FramesTypeOK
<1>1. FramesInit => FramesTypeOK
  BY InitFrames DEF FramesInv
<1> QED BY <1>1, NextFramesType, PTL DEF FramesSpec

-----------------------------------------------------------------------------
(* The invariant is kept *)

\* Everything made anew is idle (VK_CreateFrameResources).
LEMMA FreshInv ==
  ASSUME FreshFrame, FreshDevice
  PROVE  /\ queue' = <<>> /\ ~active'
         /\ (pc' \notin {"acquire", "image wait"} => FencesInv')
         /\ PresentsInv'
         /\ (pc' # "image wait" => OwnersInv')
<1>1. queue' = <<>> /\ presents' = <<>> /\ active' = FALSE
  BY DEF FreshFrame, FreshDevice
<1>2. ASSUME pc' \notin {"acquire", "image wait"} PROVE FencesInv'
  <2>1. \A s \in Slots : available'[s] = "no"
    BY DEF FreshDevice
  <2>2. DOMAIN queue' = {}
    BY <1>1
  <2> QED BY <1>1, <1>2, <2>1, <2>2 DEF FencesInv
<1>3. PresentsInv'
  BY <1>1 DEF FreshDevice, PresentsInv
<1>4. ASSUME pc' # "image wait" PROVE OwnersInv'
  BY <1>1, <1>4 DEF FreshDevice, OwnersInv
<1> QED BY <1>1, <1>2, <1>3, <1>4

\* A frame is begun and recorded only on a complete swapchain.
LEMMA NextChain ==
  ASSUME FramesTypeOK, ChainInv, [FramesNext]_framesVars
  PROVE  ChainInv'
<1> USE DEF ChainInv
<1>1. CASE VK_BeginFrame
  BY <1>1 DEF VK_BeginFrame, FramesTypeOK, LoopTypeOK, chain, frame, device
<1>2. CASE VK_RecreateSwapChain
  <2>1. queue' = <<>> /\ ~active'
    BY <1>2, FreshInv DEF VK_RecreateSwapChain
  <2>2. handle' => surface'
    BY <1>2 DEF VK_RecreateSwapChain
  <2>3. pc' = "draw" \/ (pc' = "wait" /\ handle')
    <3>1. ready' = FALSE \/ ready' = handle'
      BY <1>2 DEF VK_RecreateSwapChain
    <3>2. pc' = IF ready' THEN "wait" ELSE "draw"
      BY <1>2 DEF VK_RecreateSwapChain
    <3>3. CASE ready' = FALSE
      BY <3>2, <3>3
    <3>4. CASE ready' = handle'
      <4>1. pc' = IF handle' THEN "wait" ELSE "draw"
        BY <3>2, <3>4
      <4> QED BY <4>1
    <3> QED BY <3>1, <3>3, <3>4
  <2> QED BY <2>1, <2>2, <2>3
<1>3. CASE WaitFrameFence
  BY <1>3 DEF WaitFrameFence, chain, frame, device
<1>4. CASE AcquireImage
  BY <1>4 DEF AcquireImage, chain
<1>5. CASE WaitImageFence
  BY <1>5 DEF WaitImageFence, chain, device
<1>6. CASE R_EndRendering
  BY <1>6 DEF R_EndRendering, VK_EndFrame, chain, frame, device
<1>7. CASE VK_AbandonActiveFrame
  BY <1>7 DEF VK_AbandonActiveFrame, chain, device
<1>8. CASE VK_Restart
  BY <1>8, FreshInv DEF VK_Restart
<1>9. CASE GPU_Execute
  BY <1>9 DEF GPU_Execute, chain
<1>10. CASE Engine_Show
  BY <1>10 DEF Engine_Show, chain, frame
<1>11. ASSUME NEW s \in Slots, Engine_Signal(s) PROVE ChainInv'
  BY <1>11 DEF Engine_Signal, chain, frame
<1>12. CASE UNCHANGED framesVars
  BY <1>12 DEF framesVars, chain, frame, device
<1> QED
  BY <1>1, <1>2, <1>3, <1>4, <1>5, <1>6, <1>7, <1>8, <1>9, <1>10, <1>11, <1>12
  DEF FramesNext, BeginFrame, Engine

\* The frame that is submitted is the only one in flight with its slot.
LEMMA NextFences ==
  ASSUME FramesTypeOK, ChainInv, FencesInv, [FramesNext]_framesVars
  PROVE  FencesInv'
<1>t. /\ current \in Slots /\ fence \in [Slots -> BOOLEAN]
      /\ available \in [Slots -> {"no", "coming", "signaled"}]
      /\ queue \in Seq([slot : Slots, image : Images])
  BY DEF FramesTypeOK, FrameTypeOK, DeviceTypeOK
<1>q. \A i \in DOMAIN queue : queue[i].slot \in Slots
  <2>1. queue \in Seq([slot : Slots, image : Images])
    BY <1>t
  <2>2. ASSUME NEW i \in DOMAIN queue PROVE queue[i] \in [slot : Slots, image : Images]
    BY <2>1, Element
  <2> QED BY <2>2
<1>f. /\ \A i \in DOMAIN queue : ~fence[queue[i].slot]
      /\ \A i, j \in DOMAIN queue : queue[i].slot = queue[j].slot => i = j
  BY DEF FencesInv
<1>1. CASE VK_BeginFrame
  BY <1>1 DEF VK_BeginFrame, FencesInv, frame, device
<1>2. CASE VK_RecreateSwapChain
  BY <1>2, FreshInv DEF VK_RecreateSwapChain
<1>3. CASE WaitFrameFence
  BY <1>3 DEF WaitFrameFence, FencesInv, ChainInv, frame, device
<1>4. CASE AcquireImage
  BY <1>4, <1>t DEF AcquireImage, FencesInv, ChainInv
<1>5. CASE WaitImageFence
  BY <1>5 DEF WaitImageFence, FencesInv, device
<1>6. CASE R_EndRendering
  <2>1. CASE VK_EndFrame
    <3>1. /\ queue' = Append(queue, [slot |-> current, image |-> image])
          /\ fence' = [fence EXCEPT ![current] = FALSE]
          /\ active /\ active' = FALSE /\ available' = available /\ pc = "draw" /\ pc' = "idle"
      BY <1>6, <2>1 DEF R_EndRendering, VK_EndFrame
    <3>2. \A i \in DOMAIN queue : queue[i].slot # current
      BY <3>1 DEF FencesInv
    <3>3. DOMAIN queue' = 1 .. (Len(queue) + 1) /\ DOMAIN queue = 1 .. Len(queue) /\ Len(queue) \in Nat
      BY <3>1, <1>t
    <3>4. queue'[Len(queue) + 1].slot = current /\ \A i \in DOMAIN queue : queue'[i] = queue[i]
      BY <3>1, <3>3, <1>t
    <3>5. \A i \in DOMAIN queue' : ~fence'[queue'[i].slot]
      BY <3>1, <3>2, <3>3, <3>4, <1>t DEF FencesInv
    <3>6. \A i, j \in DOMAIN queue' : queue'[i].slot = queue'[j].slot => i = j
      <4>1. \A i \in DOMAIN queue' : i = Len(queue) + 1 \/ i \in DOMAIN queue
        BY <3>3
      <4> QED BY <1>f, <3>2, <3>4, <4>1
    <3>7. \A s \in Slots : available'[s] # "no" => \E i \in DOMAIN queue' : queue'[i].slot = s
      BY <3>1, <3>3, <3>4 DEF FencesInv
    <3> QED BY <3>1, <3>5, <3>6, <3>7 DEF FencesInv
  <2>2. CASE ~active /\ UNCHANGED <<frame, device>>
    BY <1>6, <2>2 DEF R_EndRendering, FencesInv, frame, device
  <2> QED BY <1>6, <2>1, <2>2 DEF R_EndRendering
<1>7. CASE VK_AbandonActiveFrame
  BY <1>7 DEF VK_AbandonActiveFrame, FencesInv, device
<1>8. CASE VK_Restart
  BY <1>8, FreshInv DEF VK_Restart
<1>9. CASE GPU_Execute
  <2>1. /\ queue # <<>> /\ queue' = Tail(queue)
        /\ fence' = [fence EXCEPT ![queue[1].slot] = TRUE]
        /\ available' = [available EXCEPT ![queue[1].slot] = "no"]
        /\ UNCHANGED <<pc, current, active>>
    <3>1. queue # <<>> /\ Head(queue) = queue[1]
      BY <1>9, <1>t DEF GPU_Execute
    <3>2. UNCHANGED <<pc, current>>
      BY <1>9 DEF GPU_Execute
    <3>3. active' = active
      BY <1>9 DEF GPU_Execute
    <3> QED BY <1>9, <3>1, <3>2, <3>3 DEF GPU_Execute
  <2>2. \A i \in DOMAIN queue' : i + 1 \in DOMAIN queue /\ i + 1 # 1 /\ queue'[i] = queue[i + 1]
    BY <2>1, <1>t
  <2>3. 1 \in DOMAIN queue /\ \A i \in DOMAIN queue : i = 1 \/ (i - 1 \in DOMAIN queue' /\ queue'[i - 1] = queue[i])
    BY <2>1, <1>t
  <2>4. \A i \in DOMAIN queue' : ~fence'[queue'[i].slot]
    <3>1. \A i \in DOMAIN queue' : queue'[i].slot # queue[1].slot /\ ~fence[queue'[i].slot]
      BY <1>f, <2>2, <2>3
    <3> QED BY <1>t, <2>1, <3>1
  <2>5. \A i, j \in DOMAIN queue' : queue'[i].slot = queue'[j].slot => i = j
    <3>1. ASSUME NEW i \in DOMAIN queue', NEW j \in DOMAIN queue', queue'[i].slot = queue'[j].slot
          PROVE  i = j
      <4>1. i + 1 = j + 1
        BY <1>f, <2>2, <3>1
      <4>2. i \in Nat /\ j \in Nat
        BY <2>1, <1>t
      <4> QED BY <4>1, <4>2
    <3> QED BY <3>1
  <2>6. pc' \in {"acquire", "image wait"} \/ active' => fence'[current']
    BY <2>1, <1>t DEF FencesInv
  <2>7. \A s \in Slots : available'[s] # "no" =>
          \/ \E i \in DOMAIN queue' : queue'[i].slot = s
          \/ s = current' /\ (pc' \in {"image wait", "restart"} \/ active')
    <3>1. SUFFICES ASSUME NEW s \in Slots, available'[s] # "no"
                   PROVE  \/ \E i \in DOMAIN queue' : queue'[i].slot = s
                          \/ s = current /\ (pc \in {"image wait", "restart"} \/ active)
      BY <2>1
    <3>2. s # queue[1].slot /\ available[s] # "no"
      BY <1>t, <2>1, <3>1
    <3>3. ASSUME NEW i \in DOMAIN queue, queue[i].slot = s
          PROVE  \E j \in DOMAIN queue' : queue'[j].slot = s
      BY <2>3, <3>2, <3>3
    <3> QED BY <3>2, <3>3 DEF FencesInv
  <2> QED BY <2>4, <2>5, <2>6, <2>7 DEF FencesInv
<1>10. CASE Engine_Show
  BY <1>10 DEF Engine_Show, FencesInv, frame
<1>11. ASSUME NEW s \in Slots, Engine_Signal(s) PROVE FencesInv'
  BY <1>11, <1>t DEF Engine_Signal, FencesInv, frame
<1>12. CASE UNCHANGED framesVars
  BY <1>12 DEF framesVars, FencesInv, frame, device
<1> QED
  BY <1>1, <1>2, <1>3, <1>4, <1>5, <1>6, <1>7, <1>8, <1>9, <1>10, <1>11, <1>12
  DEF FramesNext, BeginFrame, Engine

\* What is in the queues has its type.
LEMMA QueueElements ==
  ASSUME FramesTypeOK
  PROVE  /\ \A i \in DOMAIN queue : queue[i].slot \in Slots /\ queue[i].image \in Images
         /\ \A i \in DOMAIN presents : presents[i].image \in Images
<1>1. ASSUME NEW i \in DOMAIN queue PROVE queue[i] \in [slot : Slots, image : Images]
  BY Element DEF FramesTypeOK, DeviceTypeOK
<1>2. ASSUME NEW i \in DOMAIN presents PROVE presents[i] \in [image : Images, sem : Slots \cup Images]
  BY Element DEF FramesTypeOK, DeviceTypeOK
<1> QED BY <1>1, <1>2

\* The queues lose their first element, and keep the others.
LEMMA Shift ==
  ASSUME NEW S, NEW q \in Seq(S), q # <<>>
  PROVE  /\ 1 \in DOMAIN q /\ Head(q) = q[1]
         /\ \A i \in DOMAIN Tail(q) : i \in Nat /\ i + 1 \in DOMAIN q /\ i + 1 # 1 /\ Tail(q)[i] = q[i + 1]
         /\ \A i \in DOMAIN q : i = 1 \/ (i - 1 \in DOMAIN Tail(q) /\ Tail(q)[i - 1] = q[i])
OBVIOUS

\* The queues gain an element at the end.
LEMMA Grow ==
  ASSUME NEW S, NEW q \in Seq(S), NEW x \in S
  PROVE  /\ Len(q) + 1 \in DOMAIN Append(q, x) /\ Append(q, x)[Len(q) + 1] = x
         /\ \A i \in DOMAIN Append(q, x) : i = Len(q) + 1 \/ i \in DOMAIN q
         /\ \A i \in DOMAIN q : i \in DOMAIN Append(q, x) /\ Append(q, x)[i] = q[i]
OBVIOUS

\* The image of a frame that is submitted is one that no present waits for.
LEMMA EndFramePresents ==
  ASSUME FramesTypeOK, PresentsInv, OwnersInv, VK_EndFrame
  PROVE  PresentsInv'
<1> DEFINE n == Len(queue) + 1
           m == Len(presents) + 1
<1>1. active /\ owner[image] = "app" /\ image \in Images
  BY DEF VK_EndFrame, OwnersInv, FramesTypeOK, FrameTypeOK
<1>2. /\ queue' = Append(queue, [slot |-> current, image |-> image])
      /\ presents' = Append(presents, [image |-> image, sem |-> image])
      /\ owner' = [owner EXCEPT ![image] = "queued"]
      /\ finished' = finished
  BY DEF VK_EndFrame, RenderFinished
<1>3. /\ n \in DOMAIN queue' /\ queue'[n].image = image
      /\ \A i \in DOMAIN queue' : i = n \/ i \in DOMAIN queue
      /\ \A i \in DOMAIN queue : i \in DOMAIN queue' /\ queue'[i] = queue[i]
  <2>1. [slot |-> current, image |-> image] \in [slot : Slots, image : Images]
    BY DEF FramesTypeOK, FrameTypeOK
  <2>2. queue \in Seq([slot : Slots, image : Images])
    BY DEF FramesTypeOK, DeviceTypeOK
  <2> QED BY <1>2, <2>1, <2>2, Grow
<1>4. /\ m \in DOMAIN presents' /\ presents'[m].image = image /\ presents'[m].sem = image
      /\ \A i \in DOMAIN presents' : i = m \/ i \in DOMAIN presents
      /\ \A i \in DOMAIN presents : i \in DOMAIN presents' /\ presents'[i] = presents[i]
  <2>1. [image |-> image, sem |-> image] \in [image : Images, sem : Slots \cup Images]
    BY <1>1
  <2>2. presents \in Seq([image : Images, sem : Slots \cup Images])
    BY DEF FramesTypeOK, DeviceTypeOK
  <2> QED BY <1>2, <2>1, <2>2, Grow
<1> HIDE DEF n, m
<1>5. \A i \in DOMAIN presents : presents[i].image # image
  BY <1>1 DEF PresentsInv
<1>6. \A i \in DOMAIN queue : queue[i].image # image
  BY <1>5 DEF PresentsInv
<1>7. \A i \in DOMAIN presents' :
        presents'[i].sem = presents'[i].image /\ owner'[presents'[i].image] = "queued"
  <2>1. \A i \in DOMAIN presents : presents[i].image \in Images
    BY QueueElements
  <2>2. owner \in [Images -> {"free", "app", "queued", "shown"}]
    BY DEF FramesTypeOK, DeviceTypeOK
  <2> QED BY <1>1, <1>2, <1>4, <1>5, <2>1, <2>2 DEF PresentsInv
<1>8. \A i, j \in DOMAIN presents' : presents'[i].image = presents'[j].image => i = j
  BY <1>4, <1>5 DEF PresentsInv
<1>9. \A i \in DOMAIN queue' : \E j \in DOMAIN presents' : presents'[j].image = queue'[i].image
  BY <1>3, <1>4 DEF PresentsInv
<1>10. \A i, j \in DOMAIN queue' : queue'[i].image = queue'[j].image => i = j
  BY <1>3, <1>6 DEF PresentsInv
<1>11. ASSUME NEW x \in Slots \cup Images, finished'[x]
       PROVE  /\ \E i \in DOMAIN presents' : presents'[i].image = x
              /\ \A i \in DOMAIN queue' : queue'[i].image # x
  <2>1. finished[x]
    BY <1>2, <1>11
  <2>2. PICK i \in DOMAIN presents : presents[i].image = x
    BY <2>1 DEF PresentsInv
  <2>3. x # image /\ \A k \in DOMAIN queue : queue[k].image # x
    BY <1>5, <2>1, <2>2 DEF PresentsInv
  <2>4. i \in DOMAIN presents' /\ presents'[i].image = x
    BY <1>4, <2>2
  <2>5. \A k \in DOMAIN queue' : queue'[k].image # x
    BY <1>3, <2>3
  <2> QED BY <2>4, <2>5
<1> QED BY <1>7, <1>8, <1>9, <1>10, <1>11 DEF PresentsInv

\* A frame that is executed signals the semaphore of a present that waits.
LEMMA ExecutePresents ==
  ASSUME FramesTypeOK, PresentsInv, GPU_Execute
  PROVE  PresentsInv'
<1>1. /\ queue # <<>> /\ queue' = Tail(queue)
      /\ finished' = [finished EXCEPT ![Head(queue).image] = TRUE]
      /\ UNCHANGED <<presents, owner>>
  BY DEF GPU_Execute, RenderFinished
<1>2. queue \in Seq([slot : Slots, image : Images])
  BY DEF FramesTypeOK, DeviceTypeOK
<1>3. /\ 1 \in DOMAIN queue /\ Head(queue) = queue[1]
      /\ \A i \in DOMAIN queue' : i \in Nat /\ i + 1 \in DOMAIN queue /\ i + 1 # 1 /\ queue'[i] = queue[i + 1]
  BY <1>1, <1>2, Shift
<1>4. \A i \in DOMAIN queue' : queue'[i].image # queue[1].image
  BY <1>3 DEF PresentsInv
<1>5. \A i \in DOMAIN queue' : \E j \in DOMAIN presents : presents[j].image = queue'[i].image
  BY <1>3 DEF PresentsInv
<1>6. ASSUME NEW i \in DOMAIN queue', NEW j \in DOMAIN queue', queue'[i].image = queue'[j].image
      PROVE  i = j
  <2>1. i + 1 = j + 1
    BY <1>3, <1>6 DEF PresentsInv
  <2> QED BY <1>3, <2>1
<1>7. ASSUME NEW x \in Slots \cup Images, finished'[x]
      PROVE  /\ \E i \in DOMAIN presents : presents[i].image = x
             /\ \A i \in DOMAIN queue' : queue'[i].image # x
  <2>1. CASE x = queue[1].image
    BY <1>3, <1>4, <2>1 DEF PresentsInv
  <2>2. CASE x # queue[1].image
    <3>1. finished[x]
      BY <1>1, <1>3, <1>7, <2>2 DEF FramesTypeOK, DeviceTypeOK
    <3> QED BY <1>3, <3>1 DEF PresentsInv
  <2> QED BY <2>1, <2>2
<1> QED BY <1>1, <1>5, <1>6, <1>7 DEF PresentsInv

\* The image that is shown is the one of the oldest present and of no other.
LEMMA ShowPresents ==
  ASSUME FramesTypeOK, PresentsInv, Engine_Show
  PROVE  PresentsInv'
<1>1. /\ presents # <<>> /\ presents' = Tail(presents) /\ queue' = queue
      /\ finished[Head(presents).sem]
      /\ finished' = [finished EXCEPT ![Head(presents).sem] = FALSE]
      /\ owner' = [i \in Images |-> IF i = Head(presents).image THEN "shown"
                                    ELSE IF owner[i] = "shown" THEN "free" ELSE owner[i]]
  BY DEF Engine_Show
<1>2. presents \in Seq([image : Images, sem : Slots \cup Images])
  BY DEF FramesTypeOK, DeviceTypeOK
<1>3. /\ 1 \in DOMAIN presents /\ Head(presents) = presents[1]
      /\ \A i \in DOMAIN presents' :
           i \in Nat /\ i + 1 \in DOMAIN presents /\ i + 1 # 1 /\ presents'[i] = presents[i + 1]
      /\ \A i \in DOMAIN presents : i = 1 \/ (i - 1 \in DOMAIN presents' /\ presents'[i - 1] = presents[i])
  BY <1>1, <1>2, Shift
<1>4. presents[1].sem = presents[1].image /\ presents[1].image \in Images
  BY <1>3, QueueElements DEF PresentsInv
<1>5. \A i \in DOMAIN queue : queue[i].image # presents[1].image
  BY <1>1, <1>3, <1>4 DEF PresentsInv
<1>6. \A i \in DOMAIN presents' : presents'[i].image # presents[1].image
  BY <1>3 DEF PresentsInv
<1>7. \A i \in DOMAIN presents' :
        presents'[i].sem = presents'[i].image /\ owner'[presents'[i].image] = "queued"
  <2>1. \A i \in DOMAIN presents : presents[i].image \in Images
    BY QueueElements
  <2> QED BY <1>1, <1>3, <1>6, <2>1 DEF PresentsInv
<1>8. ASSUME NEW i \in DOMAIN presents', NEW j \in DOMAIN presents',
             presents'[i].image = presents'[j].image
      PROVE  i = j
  <2>1. i + 1 = j + 1
    BY <1>3, <1>8 DEF PresentsInv
  <2> QED BY <1>3, <2>1
<1>9. \A x : x # presents[1].image /\ (\E i \in DOMAIN presents : presents[i].image = x)
               => \E j \in DOMAIN presents' : presents'[j].image = x
  BY <1>3
<1>10. \A i \in DOMAIN queue : \E j \in DOMAIN presents' : presents'[j].image = queue[i].image
  BY <1>5, <1>9 DEF PresentsInv
<1>11. ASSUME NEW x \in Slots \cup Images, finished'[x]
       PROVE  /\ \E i \in DOMAIN presents' : presents'[i].image = x
              /\ \A i \in DOMAIN queue : queue[i].image # x
  <2>1. x # presents[1].image
    BY <1>1, <1>3, <1>4, <1>11 DEF FramesTypeOK, DeviceTypeOK
  <2>2. finished[x]
    BY <1>1, <1>3, <1>4, <1>11, <2>1 DEF FramesTypeOK, DeviceTypeOK
  <2> QED BY <1>9, <2>1, <2>2 DEF PresentsInv
<1>12. \A i, j \in DOMAIN queue : queue[i].image = queue[j].image => i = j
  BY DEF PresentsInv
<1> QED BY <1>1, <1>7, <1>8, <1>10, <1>11, <1>12 DEF PresentsInv

\* No step breaks what is said of submitted images.
LEMMA NextPresents ==
  ASSUME FramesTypeOK, PresentsInv, OwnersInv, [FramesNext]_framesVars
  PROVE  PresentsInv'
<1>1. CASE UNCHANGED <<finished, queue, presents, owner>>
  BY <1>1 DEF PresentsInv
<1>2. CASE FreshFrame /\ FreshDevice
  BY <1>2, FreshInv
<1>3. CASE AcquireImage
  <2>1. UNCHANGED <<finished, queue, presents>>
    BY <1>3 DEF AcquireImage
  <2>2. \A i \in Images : owner[i] = "queued" => owner'[i] = "queued"
    BY <1>3 DEF AcquireImage, FramesTypeOK, DeviceTypeOK
  <2>3. \A i \in DOMAIN presents : presents[i].image \in Images
    BY QueueElements
  <2> QED BY <2>1, <2>2, <2>3 DEF PresentsInv
<1> QED
  BY <1>1, <1>2, <1>3, EndFramePresents, ExecutePresents, ShowPresents
  DEF FramesNext, BeginFrame, Engine, Engine_Signal, framesVars, VK_BeginFrame, WaitFrameFence,
      WaitImageFence, VK_AbandonActiveFrame, VK_RecreateSwapChain, VK_Restart, R_EndRendering,
      device

\* An image is lent to the program from its acquisition to the submit.
LEMMA NextOwners ==
  ASSUME FramesTypeOK, ChainInv, PresentsInv, OwnersInv, [FramesNext]_framesVars
  PROVE  OwnersInv'
<1>t. owner \in [Images -> {"free", "app", "queued", "shown"}] /\ image \in Images
  BY DEF FramesTypeOK, FrameTypeOK, DeviceTypeOK
<1>1. CASE VK_BeginFrame
  BY <1>1 DEF VK_BeginFrame, OwnersInv, frame, device
<1>2. CASE VK_RecreateSwapChain \/ VK_Restart
  <2>1. pc' # "image wait"
    BY <1>2 DEF VK_RecreateSwapChain, VK_Restart
  <2> QED BY <1>2, <2>1, FreshInv DEF VK_RecreateSwapChain, VK_Restart
<1>3. CASE WaitFrameFence
  BY <1>3 DEF WaitFrameFence, OwnersInv, frame, device
<1>4. CASE AcquireImage
  <2>1. pc = "acquire" /\ ~active /\ active' = active
    BY <1>4 DEF AcquireImage, ChainInv
  <2>2. \A i \in Images : owner[i] # "app"
    BY <2>1 DEF OwnersInv
  <2>3. CASE pc' = "draw"
    BY <1>4, <2>1, <2>2, <2>3 DEF AcquireImage, OwnersInv
  <2>4. CASE pc' = "image wait"
    <3>1. image' \in Images /\ owner' = [owner EXCEPT ![image'] = "app"]
      BY <1>4, <2>4 DEF AcquireImage
    <3> QED BY <1>t, <2>2, <2>4, <3>1 DEF OwnersInv
  <2> QED BY <1>4, <2>3, <2>4 DEF AcquireImage
<1>5. CASE WaitImageFence
  BY <1>5 DEF WaitImageFence, OwnersInv, device
<1>6. CASE R_EndRendering
  <2>1. CASE VK_EndFrame
    <3>1. /\ active /\ active' = FALSE /\ pc' = "idle" /\ image' = image
          /\ owner' = [owner EXCEPT ![image] = "queued"]
      BY <1>6, <2>1 DEF R_EndRendering, VK_EndFrame
    <3>2. \A i \in Images : owner'[i] # "app"
      BY <1>t, <3>1 DEF OwnersInv
    <3> QED BY <3>1, <3>2 DEF OwnersInv
  <2>2. CASE ~active /\ UNCHANGED <<frame, device>>
    BY <1>6, <2>2 DEF R_EndRendering, OwnersInv, frame, device
  <2> QED BY <1>6, <2>1, <2>2 DEF R_EndRendering
<1>7. CASE VK_AbandonActiveFrame
  BY <1>7 DEF VK_AbandonActiveFrame, OwnersInv, device
<1>8. CASE GPU_Execute
  BY <1>8 DEF GPU_Execute, OwnersInv
<1>9. CASE Engine_Show
  <2>1. /\ UNCHANGED <<pc, image>> /\ active' = active
        /\ \A i \in Images : owner'[i] = "app" => owner[i] = "app"
    BY <1>9 DEF Engine_Show, frame
  <2>2. ASSUME owner[image] = "app" PROVE owner'[image] = "app"
    <3>1. Head(presents).image # image
      <4>1. Head(presents) = presents[1] /\ 1 \in DOMAIN presents
        BY <1>9, Shift DEF Engine_Show, FramesTypeOK, DeviceTypeOK
      <4> QED BY <2>2, <4>1 DEF PresentsInv
    <3> QED BY <1>9, <1>t, <2>2, <3>1 DEF Engine_Show
  <2> QED BY <2>1, <2>2 DEF OwnersInv
<1>10. ASSUME NEW s \in Slots, Engine_Signal(s) PROVE OwnersInv'
  BY <1>10 DEF Engine_Signal, OwnersInv, frame
<1>11. CASE UNCHANGED framesVars
  BY <1>11 DEF framesVars, OwnersInv, frame, device
<1> QED
  BY <1>1, <1>2, <1>3, <1>4, <1>5, <1>6, <1>7, <1>8, <1>9, <1>10, <1>11
  DEF FramesNext, BeginFrame, Engine

-----------------------------------------------------------------------------
(* The theorems *)

\* The invariant of the frame loop (VK_BeginFrame, VK_EndFrame).
THEOREM FramesInvariant == FramesSpec => []FramesInv
<1>1. FramesInv /\ [FramesNext]_framesVars => FramesInv'
  BY NextFramesType, NextChain, NextFences, NextPresents, NextOwners DEF FramesInv
<1> QED BY <1>1, InitFrames, PTL DEF FramesSpec

\* A semaphore is given to the driver only when whoever waited for it has done
\* so: the one of an acquire, as the fence of its frame is waited for; the one a
\* submit signals, as it goes with an image (VK_BeginFrame, VK_EndFrame).
THEOREM SemaphoresUsedUpOnce == FramesSpec => []FrameInv
<1>1. FramesInv => FrameInv
  <2> SUFFICES ASSUME FramesInv PROVE SemaphoresUsedUp
    BY DEF FramesInv, FrameInv
  <2>1. pc = "acquire" => available[current] = "no"
    BY DEF FramesInv, ChainInv, FencesInv, FramesTypeOK, FrameTypeOK
  <2>2. ASSUME active
        PROVE  /\ ~finished[image]
               /\ \A i \in DOMAIN presents : presents[i].sem # image
    <3>1. owner[image] = "app" /\ image \in Images
      BY <2>2 DEF FramesInv, OwnersInv, FramesTypeOK, FrameTypeOK
    <3>2. \A i \in DOMAIN presents : presents[i].image # image /\ presents[i].sem # image
      BY <3>1 DEF FramesInv, PresentsInv
    <3> QED BY <3>1, <3>2 DEF FramesInv, PresentsInv
  <2> QED BY <2>1, <2>2 DEF SemaphoresUsedUp, RenderFinished
<1> QED BY <1>1, FramesInvariant, PTL

\* An acquired image is recorded and submitted, or everything is made anew
\* (VK_BeginFrame, VK_AbandonActiveFrame).
THEOREM NoImageLost == FramesSpec => []ImagesNotLost
<1>1. FramesInv => ImagesNotLost
  <2> SUFFICES ASSUME FramesInv PROVE ImagesNotLost
    OBVIOUS
  <2>1. ASSUME active, NEW i \in DOMAIN queue PROVE queue[i].image # image
    <3>1. owner[image] = "app"
      BY <2>1 DEF FramesInv, OwnersInv
    <3>2. PICK j \in DOMAIN presents : presents[j].image = queue[i].image
      BY DEF FramesInv, PresentsInv
    <3> QED BY <3>1, <3>2 DEF FramesInv, PresentsInv
  <2>2. \A i \in Images : owner[i] = "app" =>
          i = image /\ (pc = "image wait" \/ active \/ pc = "restart")
    BY DEF FramesInv, OwnersInv
  <2> QED BY <2>1, <2>2 DEF ImagesNotLost
<1> QED BY <1>1, FramesInvariant, PTL

-----------------------------------------------------------------------------
(* The frame loop as a ring of copies *)

Held == pc \in {"acquire", "image wait", "draw"}
Pending == [i \in DOMAIN queue |-> queue[i].slot]

\* No submitted frame uses the slot of the frame that is begun.
LEMMA CurrentIsFree ==
  ASSUME FramesInv, queue = <<>> \/ fence[current]
  PROVE  ~Ring!Reading(current)
<1>1. CASE queue = <<>>
  BY <1>1 DEF Ring!Reading
<1>2. CASE fence[current]
  BY <1>2 DEF FramesInv, FencesInv, Ring!Reading
<1> QED BY <1>1, <1>2

\* Two truth values are equal when they are equivalent; Held is one.
LEMMA HeldValue ==
  /\ Held <=> Held' => Held' = Held
  /\ Held' => Held' = TRUE
  /\ ~Held' => Held' = FALSE
  /\ ~Held => Held = FALSE
<1>1. \A p, q \in BOOLEAN : (p <=> q) => q = p
  OBVIOUS
<1>2. Held \in BOOLEAN /\ Held' \in BOOLEAN
  BY DEF Held
<1> QED BY <1>1, <1>2

\* Beginning a frame holds its copy of the buffers.
LEMMA BeginFrameRing ==
  ASSUME FramesInv, BeginFrame
  PROVE  [Ring!Next]_(Ring!vars)
<1> USE DEF Held, Pending
<1>1. CASE UNCHANGED <<Held, current, queue>>
  BY <1>1 DEF Ring!vars
<1>2. CASE ~Held' /\ UNCHANGED <<current, queue>>
  <2>1. Held' = FALSE
    BY <1>2, HeldValue
  <2> QED BY <1>2, <2>1 DEF Ring!Next, Ring!LetGo
<1>3. CASE Held' /\ UNCHANGED <<current, queue>> /\ (queue = <<>> \/ fence[current])
  <2>1. Held' = TRUE
    BY <1>3
  <2> QED BY <1>3, <2>1, CurrentIsFree DEF Ring!Next, Ring!Hold
<1>4. CASE VK_RecreateSwapChain
  <2>1. queue = <<>> /\ queue' = <<>> /\ current' = 0
    BY <1>4 DEF VK_RecreateSwapChain, FreshFrame, FreshDevice
  <2>2. Pending = <<>> /\ Pending' = <<>>
    BY <2>1
  <2>3. Held' \in BOOLEAN
    OBVIOUS
  <2> QED BY <2>1, <2>2, <2>3 DEF Ring!Next, Ring!Renew
<1>5. CASE VK_BeginFrame
  <2>1. UNCHANGED <<current, queue>> /\ pc' \in {"new surface", "new swapchain", "wait", "ended", "draw"}
    BY <1>5 DEF VK_BeginFrame, frame, device
  <2>2. pc' = "draw" => queue = <<>>
    BY <1>5 DEF VK_BeginFrame, FramesInv, ChainInv
  <2>3. CASE pc' = "draw"
    BY <1>3, <2>1, <2>2, <2>3
  <2>4. CASE pc' # "draw"
    BY <1>2, <2>1, <2>4
  <2> QED BY <2>3, <2>4
<1>6. CASE WaitFrameFence
  BY <1>3, <1>6 DEF WaitFrameFence, frame, device
<1>7. CASE AcquireImage \/ WaitImageFence
  <2>1. Held /\ Held' /\ UNCHANGED <<current, queue>>
    BY <1>7 DEF AcquireImage, WaitImageFence, device
  <2>2. Held' = Held
    BY <2>1, HeldValue
  <2> QED BY <1>1, <2>1, <2>2
<1> QED BY <1>4, <1>5, <1>6, <1>7 DEF BeginFrame

\* Submitting it hands the copy to the processor.
LEMMA EndRenderingRing ==
  ASSUME FramesInv, R_EndRendering
  PROVE  [Ring!Next]_(Ring!vars)
<1> USE DEF Held, Pending
<1>1. Held = TRUE /\ Held' = FALSE
  BY DEF R_EndRendering
<1>2. CASE VK_EndFrame
  <2>1. queue' = Append(queue, [slot |-> current, image |-> image]) /\ current' = NextFrame(current)
    BY <1>2 DEF VK_EndFrame
  <2>2. queue \in Seq([slot : Slots, image : Images]) /\ current \in Slots /\ image \in Images
    BY DEF FramesInv, FramesTypeOK, FrameTypeOK, DeviceTypeOK
  <2>3. Pending' = Append(Pending, current)
    BY <2>1, <2>2
  <2> QED BY <1>1, <2>1, <2>3 DEF NextFrame, Ring!Next, Ring!Submit
<1>3. CASE UNCHANGED <<frame, device>>
  BY <1>1, <1>3 DEF frame, device, Ring!Next, Ring!LetGo
<1> QED BY <1>2, <1>3 DEF R_EndRendering

\* The processor finishes the frames in the order of submission.
LEMMA ExecuteRing ==
  ASSUME FramesInv, GPU_Execute
  PROVE  [Ring!Next]_(Ring!vars)
<1>1. queue # <<>> /\ queue' = Tail(queue) /\ UNCHANGED <<pc, current>>
  BY DEF GPU_Execute
<1>2. queue \in Seq([slot : Slots, image : Images])
  BY DEF FramesInv, FramesTypeOK, DeviceTypeOK
<1>3. Pending # <<>> /\ Pending' = Tail(Pending)
  BY <1>1, <1>2 DEF Pending
<1>4. Held' = Held
  BY <1>1 DEF Held
<1> QED BY <1>1, <1>3, <1>4 DEF Held, Pending, Ring!Next, Ring!Finish

\* A restart makes everything anew.
LEMMA RestartRing ==
  ASSUME VK_AbandonActiveFrame \/ VK_Restart
  PROVE  [Ring!Next]_(Ring!vars)
<1> USE DEF Held, Pending
<1>1. Held' = FALSE
  <2>1. ~Held'
    BY DEF VK_AbandonActiveFrame, VK_Restart
  <2> QED BY <2>1, HeldValue
<1>2. CASE VK_AbandonActiveFrame
  BY <1>1, <1>2 DEF VK_AbandonActiveFrame, device, Ring!Next, Ring!LetGo
<1>3. CASE VK_Restart
  <2>1. queue = <<>> /\ queue' = <<>> /\ current' = 0
    BY <1>3 DEF VK_Restart, FreshFrame, FreshDevice
  <2>2. Pending = <<>> /\ Pending' = <<>>
    BY <2>1
  <2> QED BY <1>1, <2>1, <2>2 DEF Ring!Next, Ring!Renew
<1> QED BY <1>2, <1>3

\* The processor writes a copy of a buffer only while no submitted frame reads
\* it, however the swapchain comes and goes (VK_BeginFrame).
THEOREM ImplementsFrameRing == FramesSpec => ImplementsRing
<1>1. FramesInit => Ring!Init
  <2> SUFFICES ASSUME FramesInit PROVE Ring!Init
    OBVIOUS
  <2>1. Held = FALSE /\ Pending = <<>>
    BY DEF FramesInit, Held, Pending
  <2> QED BY <2>1 DEF FramesInit, Held, Pending, Ring!Init
<1>2. FramesInv /\ [FramesNext]_framesVars => [Ring!Next]_(Ring!vars)
  <2> SUFFICES ASSUME FramesInv, [FramesNext]_framesVars PROVE [Ring!Next]_(Ring!vars)
    OBVIOUS
  <2>1. CASE UNCHANGED <<pc, current, queue>>
    BY <2>1 DEF Ring!vars
  <2> QED
    BY <2>1, BeginFrameRing, EndRenderingRing, ExecuteRing, RestartRing
    DEF FramesNext, Engine, Engine_Show, Engine_Signal, framesVars, frame, device
<1> QED BY <1>1, <1>2, FramesInvariant, PTL DEF FramesSpec, ImplementsRing, Ring!Spec
=============================================================================
