----------------------------- MODULE VkTextures -----------------------------
(***************************************************************************)
(* The textures of the Vulkan renderer.  A texture is loaded, changed and  *)
(* deleted both between frames and while a frame is recorded.  In the      *)
(* second case the draws recorded so far, and in both cases the frames the *)
(* graphics processor still executes, use its objects; four queues put off *)
(* the work to the next VK_BeginFrame, where nothing is recorded.          *)
(*                                                                         *)
(* An upload makes an image and its descriptor set together, so one object *)
(* stands for both.  The contents of an image are the last write to one of *)
(* its pixels; settings are the filter of its sampler.                     *)
(***************************************************************************)
EXTENDS Sequences, FiniteSets, VkLimits

CONSTANTS Textures,     \* slots of gltextures and textureData
          Objects,      \* images with their descriptor sets
          Versions,     \* pictures
          MaxUploads,   \* VK_MAX_DEFERRED_TEXTURE_UPLOADS
          MaxRefreshes, \* VK_MAX_DEFERRED_DESCRIPTOR_REFRESHES
          MaxFrees,     \* VK_MAX_DEFERRED_DESCRIPTOR_FREES
          MaxSlots,     \* VK_MAX_DEFERRED_BINDLESS_SLOT_REFRESHES
          MaxPending,   \* VK_MAX_PENDING_TEXTURE_UPLOADS
          Bindless,     \* vk_options.supportsDescriptorIndexing
          MaxRequests   \* bound: requests from one VK_BeginFrame to the next

NoObject == "no object"
NoTexture == "no texture"
NoUse == "no use"
NoPicture == "no picture"
AnyPicture == "any picture"
LostPicture == "lost picture"
Filters == {"linear", "nearest"}
Wishes == Versions \cup {NoPicture, AnyPicture, LostPicture}
Free == "free"

ASSUME VkTexturesAssumption ==
  /\ NoObject \notin Objects /\ NoTexture \notin Textures
  /\ NoUse \notin Objects
  /\ {NoPicture, AnyPicture, LostPicture} \cap Versions = {}
  /\ {MaxUploads, MaxRefreshes, MaxFrees, MaxSlots, MaxPending, MaxRequests} \subseteq Nat
  /\ Bindless \in BOOLEAN

VARIABLES
  stage,     \* part of VK_TextureApplyDeferredUploads the main thread is in
  recording, \* frame.active
  used,      \* the object one draw of the recorded frame uses
  flight,    \* the same of the submitted frames, oldest first
  live,      \* slots handed out by R_NextTextureSlot
  object,    \* image, view and descriptor set in textureData
  filter,    \* minFilter and magFilter in textureData
  set,       \* descriptor sets: the filter written, or Free
  picture,   \* contents of the images
  bindless,  \* elements of the bindless array
  uploads, refreshes, frees, slots, pending,   \* the queues
  want,      \* history: the picture last asked for, LostPicture if its copy
             \* could not be made, AnyPicture if two requests were mixed
  asked      \* requests since VK_BeginFrame

tables == <<object, filter, set, picture, bindless>>
queues == <<uploads, refreshes, frees, slots, pending>>
loop   == <<stage, recording, used, flight>>
history == <<live, want, asked>>
texturesVars == <<loop, tables, queues, history>>

Ready(t) == object[t] # NoObject
Contains(q, t) == \E i \in DOMAIN q : q[i] = t

TexturesInit ==
  /\ stage = "idle" /\ recording = FALSE /\ used = NoUse /\ flight = <<>>
  /\ live = [t \in Textures |-> FALSE]
  /\ object = [t \in Textures |-> NoObject]
  /\ filter = [t \in Textures |-> "linear"]
  /\ set = [o \in Objects |-> Free]
  /\ picture = [o \in Objects |-> NoPicture]
  /\ bindless = [t \in Textures |-> NoObject]
  /\ uploads = <<>> /\ refreshes = <<>> /\ frees = <<>> /\ slots = <<>>
  /\ pending = <<>>
  /\ want = [t \in Textures |-> NoPicture] /\ asked = 0

-----------------------------------------------------------------------------
(* Pieces of the operations *)

\* VK_TextureInvalidatePendingUploads: the entries stay and count.
Invalidated(t) ==
  [i \in DOMAIN pending |->
     IF pending[i].tex = t THEN [tex |-> NoTexture, pic |-> NoPicture] ELSE pending[i]]

\* The descriptor set of an object destroyed is freed at the next frame.
FreeLater == recording /\ Len(frees) < MaxFrees

Freed(t) == IF Ready(t) /\ ~FreeLater THEN [set EXCEPT ![object[t]] = Free] ELSE set
QueueFree(t) == IF Ready(t) /\ FreeLater THEN Append(frees, object[t]) ELSE frees

Erased(t) == IF Ready(t) THEN [picture EXCEPT ![object[t]] = NoPicture] ELSE picture

\* vkDeviceWaitIdle, if there is an object to destroy.
Drained(t) == IF Ready(t) THEN <<>> ELSE flight

VK_TextureDestroyObjects(t) ==
  /\ flight' = Drained(t) /\ set' = Freed(t) /\ frees' = QueueFree(t)
  /\ object' = [object EXCEPT ![t] = NoObject]
  /\ filter' = [filter EXCEPT ![t] = "linear"]
  /\ pending' = Invalidated(t) /\ picture' = Erased(t)
  /\ UNCHANGED <<bindless, slots>>

Asked(t, w) == want' = [want EXCEPT ![t] = w]

\* The objects of t are destroyed and new ones are made, and v is queued for a
\* copy, or copied at once if it has mipmaps or the batch is full.  The new set
\* is written; the bindless element is too unless a frame is recorded.  If image
\* or set cannot be made, the texture is left without objects; if the staging
\* buffer, its mapping or the command buffer of the copy cannot, it keeps
\* them with nothing of v in them.  The picture asked for is w.
VK_UploadTextureImmediate(t, v, w) ==
  \/ VK_TextureDestroyObjects(t) /\ Asked(t, w)
  \/ \E o \in Objects :
       /\ set[o] = Free
       /\ flight' = Drained(t) /\ frees' = QueueFree(t)
       /\ set' = [Freed(t) EXCEPT ![o] = "linear"]
       /\ object' = [object EXCEPT ![t] = o]
       /\ filter' = [filter EXCEPT ![t] = "linear"]
       /\ IF recording /\ (Contains(slots, t) \/ Len(slots) < MaxSlots)
            THEN /\ slots' = IF Contains(slots, t) THEN slots ELSE Append(slots, t)
                 /\ UNCHANGED bindless
            ELSE /\ bindless' = [bindless EXCEPT ![t] = IF Bindless THEN o ELSE @]
                 /\ UNCHANGED slots
       /\ \/ /\ Len(pending) < MaxPending
             /\ pending' = Append(Invalidated(t), [tex |-> t, pic |-> v])
             /\ picture' = Erased(t) /\ Asked(t, w)
          \/ /\ pending' = Invalidated(t)
             /\ picture' = [Erased(t) EXCEPT ![o] = v] /\ Asked(t, w)
          \/ /\ pending' = Invalidated(t)
             /\ picture' = Erased(t) /\ Asked(t, LostPicture)

\* The element is rewritten together with the set it belongs to.
VK_TextureBindlessUpdateSlot(t) ==
  bindless' = IF Bindless /\ Ready(t) THEN [bindless EXCEPT ![t] = object[t]] ELSE bindless

\* VK_TextureUpdateDescriptor between two frames, for a texture that is ready;
\* it waits for the device first.
RewriteDescriptor(t, f) ==
  IF Ready(t)
    THEN /\ flight' = <<>> /\ set' = [set EXCEPT ![object[t]] = f]
         /\ VK_TextureBindlessUpdateSlot(t)
    ELSE UNCHANGED <<flight, set, bindless>>

\* Mutant: A newer request leaves an older one in the queue.
VK_TextureDropDeferredUpload_Not(t) == uploads

\* The last entry takes the place of the one that is dropped.
VK_TextureDropDeferredUpload(t) ==
  IF \A i \in DOMAIN uploads : uploads[i].tex # t THEN uploads
  ELSE LET i == CHOOSE j \in DOMAIN uploads : uploads[j].tex = t
           n == Len(uploads)
       IN [j \in 1 .. (n - 1) |-> IF j = i THEN uploads[n] ELSE uploads[j]]

-----------------------------------------------------------------------------
(* What the game asks for *)

Asks == stage = "idle" /\ asked < MaxRequests /\ asked' = asked + 1

R_NextTextureSlot(t) ==
  /\ stage = "idle" /\ ~live[t] /\ live' = [live EXCEPT ![t] = TRUE]
  /\ UNCHANGED <<loop, tables, queues, want, asked>>

\* Between frames the upload is done at once, in a frame it is put off, unless
\* the queue is full.
VK_UploadTexture(t, v) ==
  /\ Asks /\ live[t]
  /\ LET rest == VK_TextureDropDeferredUpload(t) IN
       IF recording /\ Len(rest) < MaxUploads
         THEN /\ uploads' = Append(rest, [tex |-> t, pic |-> v]) /\ Asked(t, v)
              /\ UNCHANGED <<flight, tables, refreshes, frees, slots, pending>>
         ELSE /\ uploads' = rest
              /\ VK_UploadTextureImmediate(t, v, v) /\ UNCHANGED refreshes
  /\ UNCHANGED <<stage, recording, used, live>>

\* The pixels of a texture whose upload is put off are written to the image
\* that it will replace; those that do not fit in the batch overtake it, or are
\* lost, or written as noise, when the copy cannot be made.
VK_TextureReplaceSubImageRGBA(t, v) ==
  LET deferred == \E i \in DOMAIN uploads : uploads[i].tex = t
      batched  == \E i \in DOMAIN pending : pending[i].tex = t
  IN
  /\ Asks /\ Ready(t)
  /\ IF Len(pending) < MaxPending
       THEN /\ pending' = Append(pending, [tex |-> t, pic |-> v])
            /\ Asked(t, IF deferred THEN AnyPicture ELSE v)
            /\ UNCHANGED picture
       ELSE /\ \/ /\ picture' = [picture EXCEPT ![object[t]] = v]
                  /\ Asked(t, IF deferred \/ batched THEN AnyPicture ELSE v)
               \/ /\ picture' \in {picture, [picture EXCEPT ![object[t]] = NoPicture]}
                  /\ Asked(t, LostPicture)
            /\ UNCHANGED pending
  /\ UNCHANGED <<loop, object, filter, set, bindless, uploads, refreshes, frees, slots, live>>

\* Also VK_TextureSetAnisotropy and VK_TextureWrapModeClamp.  When the queue of
\* refreshes is full, the set of a texture that is ready is sent back and
\* forth between the queue and VK_TextureUpdateDescriptor without an end.
VK_TextureSetFiltering(t, f) ==
  /\ Asks /\ live[t]
  /\ filter' = [filter EXCEPT ![t] = f]
  /\ IF ~recording THEN RewriteDescriptor(t, f) /\ UNCHANGED <<stage, refreshes>>
     ELSE /\ UNCHANGED <<flight, set, bindless>>
          /\ IF Contains(refreshes, t) THEN UNCHANGED <<stage, refreshes>>
             ELSE IF Len(refreshes) < MaxRefreshes
               THEN refreshes' = Append(refreshes, t) /\ UNCHANGED stage
               ELSE stage' = (IF Ready(t) THEN "crashed" ELSE stage) /\ UNCHANGED refreshes
  /\ UNCHANGED <<recording, used, object, picture, uploads, frees, slots, pending, live, want>>

\* R_DeleteTexture; an upload that is put off stays in the queue.
VK_TextureDelete(t) ==
  /\ Asks /\ live[t] /\ live' = [live EXCEPT ![t] = FALSE]
  /\ VK_TextureDestroyObjects(t) /\ Asked(t, NoPicture)
  /\ UNCHANGED <<stage, recording, used, uploads, refreshes>>

-----------------------------------------------------------------------------
(* The frame *)

\* Called by VK_BeginFrame after the frame fence: the oldest of FramesInFlight
\* frames is over.
VK_TextureApplyDeferredUploads ==
  /\ stage = "idle" /\ ~recording /\ Len(flight) < FramesInFlight
  /\ stage' = "free" /\ asked' = 0
  /\ UNCHANGED <<recording, used, flight, tables, queues, live, want>>

\* Mutant: The sets are freed without waiting for the frames in flight.
ApplyFrees_NoWait ==
  /\ stage = "free" /\ stage' = "upload" /\ frees' = <<>>
  /\ set' = [o \in Objects |-> IF Contains(frees, o) THEN Free ELSE set[o]]
  /\ UNCHANGED <<recording, used, flight, object, filter, picture, bindless, uploads, refreshes, slots, pending, history>>

\* Mutant: The queue is not emptied.
ApplyFrees_Again ==
  /\ stage = "free" /\ stage' = "upload" /\ UNCHANGED frees
  /\ flight' = IF frees = <<>> THEN flight ELSE <<>>
  /\ set' = [o \in Objects |-> IF Contains(frees, o) THEN Free ELSE set[o]]
  /\ UNCHANGED <<recording, used, object, filter, picture, bindless, uploads, refreshes, slots, pending, history>>

ApplyFrees ==
  /\ stage = "free" /\ stage' = "upload"
  /\ flight' = IF frees = <<>> THEN flight ELSE <<>>
  /\ frees' = <<>>
  /\ set' = [o \in Objects |-> IF Contains(frees, o) THEN Free ELSE set[o]]
  /\ UNCHANGED <<recording, used, object, filter, picture, bindless, uploads, refreshes, slots, pending, history>>

ApplyUploads ==
  /\ stage = "upload"
  /\ IF uploads = <<>> THEN stage' = "refresh" /\ UNCHANGED <<flight, tables, queues, want>>
     ELSE LET put == Head(uploads) IN
          /\ VK_UploadTextureImmediate(put.tex, put.pic, want[put.tex])
          /\ uploads' = Tail(uploads) /\ UNCHANGED <<stage, refreshes>>
  /\ UNCHANGED <<recording, used, live, asked>>

ApplyRefreshes ==
  /\ stage = "refresh"
  /\ IF refreshes = <<>> THEN stage' = "slots" /\ UNCHANGED <<flight, set, bindless, refreshes>>
     ELSE /\ RewriteDescriptor(Head(refreshes), filter[Head(refreshes)])
          /\ refreshes' = Tail(refreshes) /\ UNCHANGED stage
  /\ UNCHANGED <<recording, used, object, filter, picture, uploads, frees, slots, pending, history>>

ApplySlots ==
  /\ stage = "slots"
  /\ IF slots = <<>> THEN stage' = "flush" /\ UNCHANGED <<bindless, slots>>
     ELSE /\ VK_TextureBindlessUpdateSlot(Head(slots))
          /\ slots' = Tail(slots) /\ UNCHANGED stage
  /\ UNCHANGED <<recording, used, flight, object, filter, set, picture, uploads, refreshes, frees, pending, history>>

\* The copies are recorded in order, ahead of every draw of the frame.
Copied(o) ==
  LET mine == {i \in DOMAIN pending :
                 pending[i].tex # NoTexture /\ object[pending[i].tex] = o}
  IN IF mine = {} THEN picture[o]
     ELSE pending[CHOOSE i \in mine : \A j \in mine : j <= i].pic

\* If the buffer of the frame cannot be made large enough, the batch waits for
\* the next frame.
VK_TextureFlushPendingUploads ==
  /\ stage = "flush" /\ stage' = "idle" /\ recording' = TRUE
  /\ \/ picture' = [o \in Objects |-> Copied(o)] /\ pending' = <<>>
     \/ pending # <<>> /\ UNCHANGED <<picture, pending>>
  /\ UNCHANGED <<used, flight, object, filter, set, bindless, uploads, refreshes, frees, slots, history>>

\* A draw binds the descriptor set of a texture that is ready (what draws read
\* through the bindless array is not followed).  A frame stands for any one of
\* its draws.
Draw(t) ==
  /\ stage = "idle" /\ recording /\ used = NoUse /\ Ready(t)
  /\ used' = object[t]
  /\ UNCHANGED <<stage, recording, flight, tables, queues, history>>

\* VK_EndFrame, which VkFrames has with all of its semaphores.
SubmitFrame ==
  /\ stage = "idle" /\ recording /\ recording' = FALSE
  /\ flight' = Append(flight, used) /\ used' = NoUse
  /\ UNCHANGED <<stage, tables, queues, history>>

GPU_Finish ==
  /\ flight # <<>> /\ flight' = Tail(flight)
  /\ UNCHANGED <<stage, recording, used, tables, queues, history>>

TexturesNext ==
  \/ \E t \in Textures :
       \/ R_NextTextureSlot(t) \/ VK_TextureDelete(t) \/ Draw(t)
       \/ \E v \in Versions : VK_UploadTexture(t, v) \/ VK_TextureReplaceSubImageRGBA(t, v)
       \/ \E f \in Filters : VK_TextureSetFiltering(t, f)
  \/ VK_TextureApplyDeferredUploads \/ ApplyFrees \/ ApplyUploads \/ ApplyRefreshes \/ ApplySlots
  \/ VK_TextureFlushPendingUploads \/ SubmitFrame \/ GPU_Finish

TexturesSpec == TexturesInit /\ [][TexturesNext]_texturesVars

-----------------------------------------------------------------------------
Uses == Objects \cup {NoUse}

TexturesTypeOK ==
  /\ stage \in {"idle", "free", "upload", "refresh", "slots", "flush", "crashed"}
  /\ recording \in BOOLEAN /\ used \in Uses
  /\ flight \in Seq(Uses) /\ Len(flight) <= FramesInFlight
  /\ live \in [Textures -> BOOLEAN]
  /\ object \in [Textures -> Objects \cup {NoObject}]
  /\ filter \in [Textures -> Filters]
  /\ set \in [Objects -> Filters \cup {Free}]
  /\ picture \in [Objects -> Versions \cup {NoPicture}]
  /\ bindless \in [Textures -> Objects \cup {NoObject}]
  /\ uploads \in Seq([tex : Textures, pic : Versions]) /\ Len(uploads) <= MaxUploads
  /\ refreshes \in Seq(Textures) /\ Len(refreshes) <= MaxRefreshes
  /\ frees \in Seq(Objects) /\ Len(frees) <= MaxFrees
  /\ slots \in Seq(Textures) /\ Len(slots) <= MaxSlots
  /\ pending \in Seq([tex : Textures \cup {NoTexture}, pic : Versions \cup {NoPicture}])
  /\ Len(pending) <= MaxPending
  /\ asked \in 0 .. MaxRequests
  /\ want \in [Textures -> Wishes]

InUse(x) == x = used \/ \E i \in DOMAIN flight : x = flight[i]

\* No descriptor set is freed or written while a draw that has bound it is
\* recorded or executed.  The one exception is the full queue: then a frame
\* frees the set it has bound at once, and such a set may be handed out again.
SetsUntouched ==
  [][\A o \in Objects : set'[o] # set[o] /\ InUse(o)' =>
       Len(frees) = MaxFrees /\ (recording \/ set[o] = Free)]_texturesVars

\* Two textures never share an image, and a set is freed only once.
ObjectsOwned ==
  /\ \A t \in Textures : Ready(t) => set[object[t]] # Free /\ ~Contains(frees, object[t])
  /\ \A t, u \in Textures : t # u /\ Ready(t) => object[t] # object[u]
  /\ \A i, j \in DOMAIN frees : i # j => frees[i] # frees[j]
  /\ \A i \in DOMAIN frees : set[frees[i]] # Free

\* A draw by the bindless array finds what a draw by the descriptor set does,
\* but for an image made while this very frame is recorded.
ElementsCurrent ==
  Bindless => \A t \in Textures :
    stage = "idle" /\ Ready(t) /\ ~Contains(slots, t) => bindless[t] = object[t]

\* The types, one owner for each image and each descriptor set, and no element
\* left behind.
TextureInv == TexturesTypeOK /\ ObjectsOwned /\ ElementsCurrent

\* When nothing is put off for a texture its image holds the picture that was
\* asked for last, however often it was loaded, changed and deleted before, and
\* whatever was lost before.  Nothing is said of a texture whose last copy could
\* not be made (its want is LostPicture), or went to an image that an upload
\* or copies put off before it overwrite (AnyPicture).
LatestPictureWins ==
  \A t \in Textures :
    ( /\ stage = "idle" /\ Ready(t) /\ want[t] \in Versions
      /\ \A i \in DOMAIN uploads : uploads[i].tex # t
      /\ \A i \in DOMAIN pending : pending[i].tex # t )
    => picture[object[t]] = want[t]
=============================================================================
