-------------------------- MODULE RevocationCounter --------------------------
(***************************************************************************)
(* What the token revocation store promises: for every key a number that   *)
(* only grows, and a bump that strictly raises exactly one of them.  A     *)
(* token stamped with the number before a bump can never match again.      *)
(***************************************************************************)
EXTENDS Naturals

CONSTANT Key

VARIABLE version

Init == version \in [Key -> Nat]

Bump(k) ==
    /\ version'[k] \in Nat
    /\ version'[k] > version[k]
    /\ version' = [version EXCEPT ![k] = version'[k]]

Next == \E k \in Key : Bump(k)

Spec == Init /\ [][Next]_version
=============================================================================
