------------------------- MODULE MCAccountLifecycle -------------------------
(* Instances of AccountLifecycle for TLC: the cfgs give the constants. *)
EXTENDS AccountLifecycle
=============================================================================
