---------------------------- MODULE MCPersistence ----------------------------
(* An instance of Persistence for TLC. *)
EXTENDS Persistence

CONSTANTS a1, o1

MCSlot == [a \in {a1} |-> o1]
=============================================================================
