-------------------------- MODULE MCTextureLifecycle --------------------------
(* Instances of TextureLifecycle for TLC.  There is no symmetry to use: textures *)
(* and handlers are chosen in their order.                                       *)
EXTENDS TextureLifecycle, TLC
=============================================================================
