---------------------------- MODULE MCRunCommands ---------------------------
(* Instances of RunCommands for TLC. *)
EXTENDS RunCommands, TLC

\* For safety only.
Symmetric == Permutations(Systems) \cup Permutations(Commands)
=============================================================================
