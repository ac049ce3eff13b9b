-------------------------- MODULE MCLoginProtection --------------------------
(* Instances of LoginProtection for TLC. *)
EXTENDS LoginProtection, TLC

Symmetry == Permutations(Req) \cup Permutations(IP)
=============================================================================
