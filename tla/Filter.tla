------------------------------- MODULE Filter -------------------------------
(* The loops that walk a queue and erase what does not belong there. *)
EXTENDS Naturals, Sequences

(* The elements of s that are in T, in their order. *)
Only(s, T) ==
    LET F[i \in 0 .. Len(s)] ==
            IF i = 0 THEN <<>>
            ELSE IF s[i] \in T THEN Append(F[i - 1], s[i]) ELSE F[i - 1]
    IN  F[Len(s)]
=============================================================================
