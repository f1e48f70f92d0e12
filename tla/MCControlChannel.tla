-------------------------- MODULE MCControlChannel --------------------------
(* Instances of ControlChannel for TLC. *)
EXTENDS ControlChannel, TLC

\* The appliances behave alike, and no safety property names one.
Alike == Permutations(Devices)
=============================================================================
