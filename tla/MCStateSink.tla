---------------------------- MODULE MCStateSink ----------------------------
(* Instances of StateSink for TLC. *)
EXTENDS StateSink
=============================================================================
