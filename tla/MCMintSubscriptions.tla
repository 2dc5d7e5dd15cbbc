------------------------- MODULE MCMintSubscriptions -------------------------
(* Instances of MintSubscriptions for TLC. *)
EXTENDS MintSubscriptions
=============================================================================
