----------------------------- MODULE MCWmBridge -----------------------------
(* Instances of WmBridge for TLC. *)
EXTENDS WmBridge
=============================================================================
