---------------------------- MODULE ClientCCBMC ----------------------------
(* Instances of ClientCCB for TLC. *)
EXTENDS ClientCCB
=============================================================================
