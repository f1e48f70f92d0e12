--------------------------- MODULE MCLocalBridge ---------------------------
(* Instances of LocalBridge for TLC. *)
EXTENDS LocalBridge
=============================================================================
