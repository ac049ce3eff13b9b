------------------------- MODULE MCTokenVersionStore -------------------------
(* Two concurrent bump transactions and the migration script, with a legacy *)
(* row for the account and none for the chain.                              *)
EXTENDS TokenVersionStore

MCLegacyStart == [k \in Key |-> IF k = "account" THEN 2 ELSE 0]
=============================================================================
