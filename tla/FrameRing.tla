----------------------------- MODULE FrameRing -----------------------------
(***************************************************************************)
(* What every per-frame buffer of the Vulkan renderer relies on: of the    *)
(* FramesInFlight copies of a buffer the processor writes the one of       *)
(* currentFrame, and only while no submitted frame that reads this copy is *)
(* still with the graphics processor.                                      *)
(***************************************************************************)
EXTENDS Naturals, Sequences

CONSTANT FramesInFlight   \* VK_MAX_FRAMES_IN_FLIGHT

VARIABLES held,     \* the processor may write the copy of currentFrame
          current,  \* frame.currentFrame
          pending   \* copies read by submitted frames, oldest first

vars == <<held, current, pending>>

Init == held = FALSE /\ current = 0 /\ pending = <<>>

Reading(s) == \E i \in DOMAIN pending : pending[i] = s

Hold ==
  /\ ~Reading(current) /\ held' = TRUE
  /\ UNCHANGED <<current, pending>>

LetGo ==
  /\ held' = FALSE
  /\ UNCHANGED <<current, pending>>

\* A frame that is submitted goes on to the next copy, and lets it go.
Submit ==
  /\ held
  /\ pending' = Append(pending, current)
  /\ current' = (current + 1) % FramesInFlight
  /\ held' = FALSE

\* The graphics processor finishes the frames in the order of submission.
Finish ==
  /\ pending # <<>> /\ pending' = Tail(pending)
  /\ UNCHANGED <<held, current>>

\* Everything is made anew while the device is idle.
Renew ==
  /\ pending = <<>>
  /\ held' \in BOOLEAN /\ current' = 0 /\ UNCHANGED pending

Next == Hold \/ LetGo \/ Submit \/ Finish \/ Renew

Spec == Init /\ [][Next]_vars
=============================================================================
