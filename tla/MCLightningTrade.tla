-------------------------- MODULE MCLightningTrade --------------------------
(* Instances of LightningTrade for TLC. *)
EXTENDS LightningTrade
=============================================================================
