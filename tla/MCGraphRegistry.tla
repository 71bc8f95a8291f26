-------------------------- MODULE MCGraphRegistry ---------------------------
(* Instances of GraphRegistry for TLC. *)
EXTENDS GraphRegistry
=============================================================================
