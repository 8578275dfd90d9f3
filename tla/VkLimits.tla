------------------------------ MODULE VkLimits ------------------------------
(***************************************************************************)
(* The constant of vk_local.h that the frame loop and the textures of the  *)
(* Vulkan renderer share.                                                  *)
(***************************************************************************)
EXTENDS Naturals

CONSTANT FramesInFlight   \* VK_MAX_FRAMES_IN_FLIGHT

ASSUME VkLimitsAssumption == FramesInFlight \in Nat \ {0}
=============================================================================
