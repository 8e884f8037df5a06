----------------------------- MODULE MCResolver -----------------------------
(* An instance of Resolver for TLC: two bindings and three addresses.       *)
EXTENDS Resolver, TLC

CONSTANTS t, b1, b2, x, y, z

TwoRound == <<t, b1, b2>>
SamePort == [b \in Binding |-> 1]
Records == [n \in Name |-> IF n = t THEN {x, y} ELSE Addr]
OnePeer == {<<y, 1>>}
=============================================================================
