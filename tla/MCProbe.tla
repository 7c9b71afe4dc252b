------------------------------ MODULE MCProbe ------------------------------
(* An instance of Probe for TLC. *)
EXTENDS Probe, TLC
=============================================================================
