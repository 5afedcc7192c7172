--------------------------- MODULE MCServerEvents ---------------------------
(* ServerEvents for TLC: slots and clients are model values. *)
EXTENDS ServerEvents, TLC

CONSTANTS s1, s2      \* slots

MCSlots == {s1, s2}
MCFirstUnused == <<s1>>
Symmetry == Permutations(Clients)
MCEvents == [kind : Kinds, who : Clients]
=============================================================================
