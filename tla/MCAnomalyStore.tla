--------------------------- MODULE MCAnomalyStore ---------------------------
(***************************************************************************)
(* The store written by the tasks of the pollers and read, page by page,   *)
(* by a client.                                                            *)
(***************************************************************************)
EXTENDS EventQueries, TLC

\* All events of a blueprint, or its raises.
SmallSelections == {[keys |-> Ids, raised |-> r] : r \in BOOLEAN}

\* Nothing tells one identity from another.
IdSymmetry == Permutations(Ids)
=============================================================================
