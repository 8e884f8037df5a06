------------------------------- MODULE Relay -------------------------------
(***************************************************************************)
(* What the obfuscator promises of every client session, whatever its      *)
(* clocks, masks and encodings: only a client's handshake request opens a  *)
(* dynamic session, a response travels only against the latest request of  *)
(* its session, everything else only after a response, and a session that  *)
(* is closed is forgotten altogether.  Static bindings are never closed    *)
(* and the table never outgrows its limit.                                 *)
(***************************************************************************)
EXTENDS Integers, FiniteSets

CONSTANTS Client, StaticClient, MaxClients

VARIABLES sessions,   \* the clients that have a session
          asked,      \* per client, the direction of its session's last request, if any
          open,       \* per client, a request of this session was answered
          relayed     \* what the last step relayed
vars == <<sessions, asked, open, relayed>>

Toward(d) == IF d = "C2S" THEN "server" ELSE "client"
Against(d) == IF d = "C2S" THEN "client" ELSE "server"

(* The packet is passed on, or lost on the way out. *)
MayRelay(c, to, type) == relayed' \in {{}, {[session |-> c, to |-> to, type |-> type]}}

Init == /\ sessions = StaticClient
        /\ asked = [c \in Client |-> {}]
        /\ open = [c \in Client |-> FALSE]
        /\ relayed = {}

Ask(c, d) ==
  /\ c \in sessions \/ (d = "C2S" /\ Cardinality(sessions) < MaxClients)
  /\ sessions' = sessions \cup {c}
  /\ asked' = [asked EXCEPT ![c] = {d}]
  /\ MayRelay(c, Toward(d), "init")
  /\ UNCHANGED open

Answer(c, d) ==
  /\ c \in sessions /\ d \in asked[c]
  /\ open' = [open EXCEPT ![c] = TRUE]
  /\ MayRelay(c, Against(d), "resp")
  /\ UNCHANGED <<sessions, asked>>

Pass(c, to) ==
  /\ c \in sessions /\ open[c]
  /\ MayRelay(c, to, "data")
  /\ UNCHANGED <<sessions, asked, open>>

Close(S) ==
  /\ S \subseteq sessions \ StaticClient
  /\ sessions' = sessions \ S
  /\ asked' = [c \in Client |-> IF c \in S THEN {} ELSE asked[c]]
  /\ open' = [c \in Client |-> open[c] /\ c \notin S]
  /\ relayed' = {}

(* Waiting, reading a packet that is dropped, answering a STUN probe. *)
Quiet == relayed' = {} /\ UNCHANGED <<sessions, asked, open>>

Next == \/ \E c \in Client, d \in {"C2S", "S2C"} : Ask(c, d) \/ Answer(c, d)
        \/ \E c \in Client, to \in {"client", "server"} : Pass(c, to)
        \/ \E S \in SUBSET Client : Close(S)
        \/ Quiet

Spec == Init /\ [][Next]_vars
=============================================================================
