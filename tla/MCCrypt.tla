------------------------------ MODULE MCCrypt -------------------------------
(* Crypt for TLC: the exclusive or of two bytes. *)
EXTENDS Crypt, Bitwise

MCXor(a, b) == a ^^ b
=============================================================================
