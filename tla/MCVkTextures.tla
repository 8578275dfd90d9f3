---------------------------- MODULE MCVkTextures ----------------------------
(***************************************************************************)
(* Textures, objects and pictures are interchangeable: a small instance    *)
(* with symmetry.                                                          *)
(***************************************************************************)
EXTENDS VkTextures, TLC

Symmetry == Permutations(Textures) \cup Permutations(Objects) \cup Permutations(Versions)
=============================================================================
