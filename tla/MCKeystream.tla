---------------------------- MODULE MCKeystream ----------------------------
(* A small instance of Keystream: the row limit is no multiple of the       *)
(* chunk, the chunk none of the key, and packets are longer than a row.     *)
EXTENDS Keystream, Bitwise

BitXor(a, b) == a ^^ b

Love == <<108, 111, 118, 101, 33>>
Short == 1 .. 9
=============================================================================
