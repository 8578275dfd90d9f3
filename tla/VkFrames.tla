------------------------------ MODULE VkFrames ------------------------------
(***************************************************************************)
(* The frame loop of the Vulkan renderer: VK_BeginFrame, VK_EndFrame and   *)
(* the recreation of the swapchain, beside the graphics processor, which   *)
(* executes submitted frames in order, and the presentation engine, which  *)
(* lends out the images of the swapchain and shows them.                   *)
(*                                                                         *)
(* VK_BeginFrame is cut at the places where it waits (a fence, the idle    *)
(* device) or asks the engine for an image.  What a frame draws is left    *)
(* out: the processor may write the buffers of currentFrame whenever it    *)
(* draws, also in a frame for which there was no image.                    *)
(***************************************************************************)
EXTENDS Sequences, FiniteSets, VkLimits

CONSTANT ImageCount   \* images of the swapchain

ASSUME VkFramesAssumption == ImageCount \in Nat \ {0}

Slots == 0 .. (FramesInFlight - 1)
Images == 0 .. (ImageCount - 1)
NoFence == FramesInFlight   \* VK_NULL_HANDLE

VARIABLES
  pc,            \* where the main thread is
  wantSwapChain, \* vk_recreate_swapchain_requested
  wantSurface,   \* vk_recreate_surface_requested
  surface,       \* vk_options.surface is not null
  handle,        \* vk_options.swapChain.handle is not null
  ready,         \* framebuffers and frame resources exist
  current,       \* frame.currentFrame
  active,        \* frame.active
  image,         \* frame.imageIndex
  fence,         \* inFlightFences: signaled or not
  imageFence,    \* imageInFlightFences
  available,     \* imageAvailableSemaphores: "no", "coming" or "signaled"
  finished,      \* renderFinishedSemaphores: signaled
  queue,         \* frames submitted and not executed, oldest first
  presents,      \* presents that still wait for their semaphore, oldest first
  owner          \* who has an image

requests == <<wantSwapChain, wantSurface>>
chain    == <<surface, handle, ready>>
frame    == <<current, active, image, fence, imageFence>>
device   == <<available, finished, queue, presents, owner>>
framesVars == <<pc, requests, chain, frame, device>>

\* VK_DestroyFrameResources and VK_CreateFrameResources: every fence is
\* created signaled, nothing is in flight.
FreshFrame ==
  /\ current' = 0 /\ active' = FALSE /\ image' = 0
  /\ fence' = [s \in Slots |-> TRUE]
  /\ imageFence' = [i \in Images |-> NoFence]

FreshDevice ==
  /\ available' = [s \in Slots |-> "no"]
  /\ finished' = [x \in Slots \cup Images |-> FALSE]
  /\ queue' = <<>> /\ presents' = <<>>
  /\ owner' = [i \in Images |-> "free"]

FramesInit ==
  /\ pc = "idle" /\ wantSwapChain = FALSE /\ wantSurface = FALSE
  /\ surface = TRUE /\ handle = TRUE /\ ready = TRUE
  /\ current = 0 /\ active = FALSE /\ image = 0
  /\ fence = [s \in Slots |-> TRUE]
  /\ imageFence = [i \in Images |-> NoFence]
  /\ available = [s \in Slots |-> "no"]
  /\ finished = [x \in Slots \cup Images |-> FALSE]
  /\ queue = <<>> /\ presents = <<>>
  /\ owner = [i \in Images |-> "free"]

-----------------------------------------------------------------------------
(* VK_BeginFrame *)

\* The requests are cleared before the attempt.  A frame drawn in several
\* views calls this once for each view, to no effect while it is active.  If
\* only part of the swapchain could be made, a null fence is waited for: the
\* driver, or Sys_Error, ends the program.
VK_BeginFrame ==
  /\ pc \in {"idle", "draw"} /\ ~active
  /\ wantSurface' = FALSE /\ wantSwapChain' = FALSE
  /\ pc' = CASE wantSurface -> "new surface"
             [] ~wantSurface /\ wantSwapChain ->
                  IF surface THEN "new swapchain" ELSE "draw"
             [] ~wantSurface /\ ~wantSwapChain ->
                  IF ~handle THEN "draw" ELSE IF ready THEN "wait" ELSE "ended"
  /\ UNCHANGED <<chain, frame, device>>

\* After vkDeviceWaitIdle everything is destroyed, and made again as far as it
\* goes: a surface, the swapchain, its framebuffers and the frame resources.
VK_RecreateSwapChain ==
  /\ pc \in {"new surface", "new swapchain"} /\ queue = <<>>
  /\ FreshFrame /\ FreshDevice
  /\ surface' \in {TRUE, pc = "new swapchain"}
  /\ handle' \in {FALSE, surface'}
  /\ ready' \in {FALSE, handle'}
  /\ pc' = IF ready' THEN "wait" ELSE "draw"
  /\ UNCHANGED requests

\* Mutant: The fence is reset as soon as it has been waited for.
WaitFrameFence_Reset ==
  /\ pc = "wait" /\ fence[current] /\ pc' = "acquire"
  /\ fence' = [fence EXCEPT ![current] = FALSE]
  /\ UNCHANGED <<requests, chain, current, active, image, imageFence, device>>

\* Mutant: The frame fence is not waited for.
WaitFrameFence_Skip ==
  /\ pc = "wait" /\ pc' = "acquire"
  /\ UNCHANGED <<requests, chain, frame, device>>

WaitFrameFence ==
  /\ pc = "wait" /\ fence[current] /\ pc' = "acquire"
  /\ UNCHANGED <<requests, chain, frame, device>>

\* vkAcquireNextImageKHR hands out a free image, whose semaphore it signals
\* later on, gives up after a second, or finds the swapchain out of date or
\* the surface lost.
AcquireImage ==
  /\ pc = "acquire"
  /\ \/ \E i \in Images :
          /\ owner[i] = "free"
          /\ owner' = [owner EXCEPT ![i] = "app"]
          /\ available' = [available EXCEPT ![current] = "coming"]
          /\ image' = i /\ pc' = "image wait"
          /\ UNCHANGED requests
     \/ /\ pc' = "draw"
        /\ \/ UNCHANGED requests
           \/ wantSwapChain' = TRUE /\ UNCHANGED wantSurface
           \/ wantSwapChain' = TRUE /\ wantSurface' = TRUE
        /\ UNCHANGED <<owner, available, image>>
  /\ UNCHANGED <<chain, current, active, fence, imageFence, finished, queue, presents>>

ImageDone == imageFence[image] # NoFence => fence[imageFence[image]]

\* Mutant: A frame whose image is still in use is given up.
WaitImageFence_GiveUp ==
  /\ pc = "image wait" /\ pc' = "draw"
  /\ \/ /\ ImageDone
        /\ imageFence' = [imageFence EXCEPT ![image] = current]
        /\ active' = TRUE
     \/ UNCHANGED <<imageFence, active>>
  /\ UNCHANGED <<requests, chain, current, image, fence, device>>

\* The command buffer of the image is reset and recorded.
WaitImageFence ==
  /\ pc = "image wait" /\ ImageDone
  /\ imageFence' = [imageFence EXCEPT ![image] = current]
  /\ active' = TRUE /\ pc' = "draw"
  /\ UNCHANGED <<requests, chain, current, image, fence, device>>

-----------------------------------------------------------------------------
(* R_EndRendering and VK_EndFrame *)

\* Mutant: There is one such semaphore for a frame in flight.
RenderFinished_PerFrame(s, i) == s

\* The semaphore a submit signals and the present waits for.
RenderFinished(s, i) == i

\* The frame index.
NextFrame(s) == (s + 1) % FramesInFlight

\* The fence is reset right before the submit; a present may report that the
\* swapchain is out of date or the surface lost.
VK_EndFrame ==
  /\ active
  /\ fence' = [fence EXCEPT ![current] = FALSE]
  /\ queue' = Append(queue, [slot |-> current, image |-> image])
  /\ presents' = Append(presents, [image |-> image, sem |-> RenderFinished(current, image)])
  /\ owner' = [owner EXCEPT ![image] = "queued"]
  /\ active' = FALSE /\ current' = NextFrame(current)
  /\ UNCHANGED <<image, imageFence, available, finished>>

\* A change of vid_vsync asks for a new swapchain too.
R_EndRendering ==
  /\ pc = "draw" /\ pc' = "idle"
  /\ IF active THEN VK_EndFrame ELSE UNCHANGED <<frame, device>>
  /\ wantSwapChain' \in {wantSwapChain, TRUE}
  /\ \/ UNCHANGED wantSurface
     \/ active /\ wantSwapChain' = TRUE /\ wantSurface' = TRUE
  /\ UNCHANGED chain

\* vid_restart, also in the middle of a frame: VK_AbandonActiveFrame ends the
\* frame that is recorded, VK_Shutdown waits for the device.
VK_AbandonActiveFrame ==
  /\ pc \in {"idle", "draw"} /\ pc' = "restart" /\ active' = FALSE
  /\ UNCHANGED <<requests, chain, current, image, fence, imageFence, device>>

VK_Restart ==
  /\ pc = "restart" /\ queue = <<>>
  /\ FreshFrame /\ FreshDevice
  /\ surface' \in BOOLEAN /\ handle' = surface' /\ ready' = surface'
  /\ pc' = IF ready' THEN "idle" ELSE "ended"
  /\ UNCHANGED requests

-----------------------------------------------------------------------------
(* The graphics processor and the presentation engine *)

\* A submitted frame waits for its image, is executed, signals its semaphore
\* and its fence.
GPU_Execute ==
  /\ queue # <<>>
  /\ LET f == Head(queue) IN
       /\ available[f.slot] = "signaled"
       /\ available' = [available EXCEPT ![f.slot] = "no"]
       /\ finished' = [finished EXCEPT ![RenderFinished(f.slot, f.image)] = TRUE]
       /\ fence' = [fence EXCEPT ![f.slot] = TRUE]
  /\ queue' = Tail(queue)
  /\ UNCHANGED <<pc, requests, chain, current, active, image, imageFence, presents, owner>>

Engine_Signal(s) ==
  /\ available[s] = "coming"
  /\ available' = [available EXCEPT ![s] = "signaled"]
  /\ UNCHANGED <<pc, requests, chain, frame, finished, queue, presents, owner>>

\* The image that was shown until now is free again.
Engine_Show ==
  /\ presents # <<>> /\ finished[Head(presents).sem]
  /\ finished' = [finished EXCEPT ![Head(presents).sem] = FALSE]
  /\ owner' = [i \in Images |-> IF i = Head(presents).image THEN "shown"
                                ELSE IF owner[i] = "shown" THEN "free" ELSE owner[i]]
  /\ presents' = Tail(presents)
  /\ UNCHANGED <<pc, requests, chain, frame, available, queue>>

BeginFrame == \/ VK_BeginFrame \/ VK_RecreateSwapChain \/ WaitFrameFence
              \/ AcquireImage \/ WaitImageFence
Engine == GPU_Execute \/ Engine_Show \/ \E s \in Slots : Engine_Signal(s)

FramesNext ==
        \/ BeginFrame \/ R_EndRendering \/ VK_AbandonActiveFrame \/ VK_Restart
        \/ Engine

FramesSpec == FramesInit /\ [][FramesNext]_framesVars

\* The main thread goes on with every frame, an acquire takes a second at
\* most, and the device executes and shows what it is given.
FramesFairSpec ==
  /\ FramesSpec
  /\ WF_framesVars(BeginFrame) /\ WF_framesVars(R_EndRendering) /\ WF_framesVars(VK_Restart)
  /\ WF_framesVars(GPU_Execute) /\ WF_framesVars(Engine_Show)
  /\ \A s \in Slots : WF_framesVars(Engine_Signal(s))

-----------------------------------------------------------------------------
LoopTypeOK ==
  /\ pc \in {"idle", "new surface", "new swapchain", "wait", "acquire",
             "image wait", "draw", "restart", "ended"}
  /\ wantSwapChain \in BOOLEAN /\ wantSurface \in BOOLEAN
  /\ surface \in BOOLEAN /\ handle \in BOOLEAN /\ ready \in BOOLEAN

FrameTypeOK ==
  /\ current \in Slots /\ active \in BOOLEAN /\ image \in Images
  /\ fence \in [Slots -> BOOLEAN]
  /\ imageFence \in [Images -> Slots \cup {NoFence}]

DeviceTypeOK ==
  /\ available \in [Slots -> {"no", "coming", "signaled"}]
  /\ finished \in [Slots \cup Images -> BOOLEAN]
  /\ queue \in Seq([slot : Slots, image : Images])
  /\ presents \in Seq([image : Images, sem : Slots \cup Images])
  /\ owner \in [Images -> {"free", "app", "queued", "shown"}]

FramesTypeOK == LoopTypeOK /\ FrameTypeOK /\ DeviceTypeOK

\* A semaphore is given to the driver again only when whoever waited for it has
\* done so: the one of an acquire, and the one a submit signals (vk_local.h
\* claims the first for a fence wait, the second for an index by image).
SemaphoresUsedUp ==
  /\ pc = "acquire" => available[current] = "no"
  /\ active => LET x == RenderFinished(current, image) IN
       /\ ~finished[x]
       /\ \A i \in DOMAIN presents : presents[i].sem # x

\* The types, and no semaphore given out while it is still waited for.
FrameInv == FramesTypeOK /\ SemaphoresUsedUp

\* A command buffer is reset only when the frame that used it has been
\* executed, and an image that was acquired is the one that is recorded: none
\* is kept for ever, which would starve the next acquires.
ImagesNotLost ==
  /\ \A i \in Images : owner[i] = "app" =>
       /\ i = image
       /\ pc = "image wait" \/ active \/ pc = "restart"
  /\ active => \A i \in DOMAIN queue : queue[i].image # image

\* The buffers of a frame are written only while no submitted frame reads
\* them, whatever becomes of the swapchain in between.
Ring == INSTANCE FrameRing WITH
          held <- pc \in {"acquire", "image wait", "draw"},
          pending <- [i \in DOMAIN queue |-> queue[i].slot]
ImplementsRing == Ring!Spec

\* VK_BeginFrame always comes back: it never waits for a fence that no submit
\* will signal.
BeginFrameReturns ==
  pc \in {"wait", "acquire", "image wait", "new surface", "new swapchain"} ~> pc = "draw"
=============================================================================
