-------------------------- MODULE SessionsHistory --------------------------
(***************************************************************************)
(* Sessions with history variables, to state what the documentation says   *)
(* of a session's past, and those statements.  The code does not keep      *)
(* them: each run on this module ends in a counterexample that shows where *)
(* the program and the sentence part.                                      *)
(***************************************************************************)
EXTENDS Sessions

VARIABLES since,   \* per client, when its current or last session was opened
          heard    \* per client, when it last sent a packet of any kind
hvars == <<vars, since, heard>>

HInit == Init /\ since = [c \in Client |-> time] /\ heard = since

Hears(c) ==
  ClientBinding(c) \/ \E p \in ClientPackets(c) : FromClient(c, p) \/ DropFromClient(c, p)

HNext == /\ Next
         /\ since' = [c \in Client |-> IF c \in live' \ live THEN time ELSE since[c]]
         /\ heard' = [c \in Client |-> IF Hears(c) THEN time ELSE heard[c]]

HSpec == HInit /\ [][HNext]_hvars

(* README.md, in-timeout: a session is disconnected if nothing arrives     *)
(* from the target for in_timeout.  So a session that is neither idle nor  *)
(* half-open is not removed before it is in_timeout old.  The code starts  *)
(* the count at last_incoming_time = 0, not at the session's beginning.    *)
InTimeoutHonoured ==
  [][\A c \in live \ live' :
       \/ time - entry[c].last_activity_time >= HandshakeTimeout
       \/ time - since[c] >= InTimeout]_hvars

(* README.md, idle-timeout: a client that does not send any packets for    *)
(* idle_timeout is disconnected, by the next sweep at the latest.  The     *)
(* code counts packets from the target as the client's activity, and a     *)
(* target that goes on sending keeps the session, and its slot, for ever.  *)
SilentClientsExpire ==
  \A c \in live \ StaticClient : time - heard[c] < IdleTimeout + Lag
=============================================================================
