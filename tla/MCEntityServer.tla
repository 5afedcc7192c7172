--------------------------- MODULE MCEntityServer ---------------------------
(* EntityServer for TLC: ids and clients are model values. *)
EXTENDS EntityServer, TLC

Symmetry == Permutations(Ids) \cup Permutations(Clients)
=============================================================================
