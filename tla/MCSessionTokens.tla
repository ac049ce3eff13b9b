--------------------------- MODULE MCSessionTokens ---------------------------
(* Instances of SessionTokens for TLC. *)
EXTENDS SessionTokens, TLC

CONSTANT u1

OneOwner == [c \in Chain |-> u1]

\* One user owns every chain, so chains are interchangeable too.
Symmetry == Permutations(Chain) \cup Permutations(Jti) \cup Permutations(IP) \cup Permutations(Req)
=============================================================================
