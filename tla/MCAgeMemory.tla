---------------------------- MODULE MCAgeMemory ----------------------------
(* Instances of AgeMemory for TLC. *)
EXTENDS AgeMemory
=============================================================================
