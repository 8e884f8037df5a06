----------------------------- MODULE MCSessions -----------------------------
(* Instances of Sessions for TLC: who the clients are and how they speak.   *)
EXTENDS Sessions

CONSTANTS c1, c2, c3

Plain == [mask |-> FALSE, enc |-> "plain"]
Obf0 == [mask |-> FALSE, enc |-> "v0"]
Obf1 == [mask |-> FALSE, enc |-> "v1"]
Stun1 == [mask |-> TRUE, enc |-> "v1"]

AllObfuscated == [c \in Client |-> {Obf1}]
AllPlain == [c \in Client |-> {Plain}]
ChangingOldClean ==
  [c \in Client |-> CASE c = c1 -> {Stun1, Plain} [] c = c2 -> {Obf0} [] OTHER -> {Plain}]

ASSUME InstanceIsSetUp == Deployed \/ InFront
=============================================================================
