---------------------------- MODULE ClientEntry ----------------------------
(***************************************************************************)
(* One client_entry_t of wg-obfuscator.h and what the two packet handlers  *)
(* of the main loop read from it and write to it.  Everything here is a    *)
(* pure operator: the event loop that owns the entries is module Sessions. *)
(*                                                                         *)
(* A datagram is abstracted to what the handlers tell apart:               *)
(*   mask  it is wrapped in a STUN data indication;                        *)
(*   enc   it starts with a plain WireGuard type ("plain"), or decode()    *)
(*         recognises it as version 0 or version 1 of the obfuscation;      *)
(*   type  the WireGuard type once decoded: a handshake request ("init"),  *)
(*         a handshake response ("resp"), or anything else ("data": the    *)
(*         handlers treat cookie replies and transport data alike).        *)
(* Noise that happens to decode is the packet it decodes to.               *)
(***************************************************************************)
EXTENDS Integers

CONSTANTS AllowClean,        \* config.allow_clean
          Masking,           \* the masking option: "auto", "none" or "stun"
          HandshakeTimeout   \* HANDSHAKE_TIMEOUT

ASSUME OptionsAssumption == AllowClean \in BOOLEAN /\ Masking \in {"auto", "none", "stun"}
ASSUME HandshakeAssumption == HandshakeTimeout \in Nat \ {0}

Version == 0 .. 1            \* OBFUSCATION_VERSION is 1
Handler == {"NULL", "STUN"}
Direction == {"C2S", "S2C"}

Packet == [mask : BOOLEAN, enc : {"plain", "v0", "v1"}, type : {"init", "resp", "data"}]

(* The fields of client_entry_t the handlers use.  The addresses and the   *)
(* socket are the identity of the entry; last_handshake_time is written    *)
(* and never read; is_static never changes and is a constant of Sessions.  *)
Entry == [handshaked : BOOLEAN, handshake_direction : Direction,
          client_obfuscated : BOOLEAN, server_obfuscated : BOOLEAN,
          client_clean : BOOLEAN, version : Version, masking_handler : Handler,
          last_activity_time : Nat, last_incoming_time : Nat,
          last_handshake_request_time : Nat, last_masking_timer_time : Nat]

(* What memset leaves, DIR_CLIENT_TO_SERVER being 0. *)
Zeroed == [handshaked |-> FALSE, handshake_direction |-> "C2S",
           client_obfuscated |-> FALSE, server_obfuscated |-> FALSE,
           client_clean |-> FALSE, version |-> 0, masking_handler |-> "NULL",
           last_activity_time |-> 0, last_incoming_time |-> 0,
           last_handshake_request_time |-> 0, last_masking_timer_time |-> 0]

ConfiguredHandler == IF Masking = "stun" THEN "STUN" ELSE "NULL"

Static == [Zeroed EXCEPT !.version = 1, !.masking_handler = ConfiguredHandler]

(* The entry the client handler creates for the first packet p of a        *)
(* client: with masking AUTO it takes the handler that unwrapped p.        *)
Fresh(p, now) ==
  [Zeroed EXCEPT !.version = 1, !.last_activity_time = now,
     !.masking_handler = IF Masking = "auto" /\ p.mask THEN "STUN" ELSE ConfiguredHandler]

----------------------------------------------------------------------------
(* is_obfuscated: a STUN header is no WireGuard type either. *)
Obfuscated(p) == p.mask \/ p.enc # "plain"

(* A plain packet is taken as it is; an obfuscated one has to pass the     *)
(* entry's masking handler and then decode().                              *)
Readable(e, p) ==
  Obfuscated(p) => p.enc # "plain" /\ (p.mask <=> e.masking_handler = "STUN")

(* Mutant of AcceptsResp: no timeout. *)
AcceptsLateResp(e, from, now) ==
  e.handshake_direction = IF from = "client" THEN "S2C" ELSE "C2S"

(* A handshake response goes only to the side that asked last, in time. *)
AcceptsResp(e, from, now) ==
  /\ now - e.last_handshake_request_time <= HandshakeTimeout
  /\ e.handshake_direction = IF from = "client" THEN "S2C" ELSE "C2S"

Accepts(e, p, from, now) ==
  /\ Readable(e, p)
  /\ p.type = "resp" => AcceptsResp(e, from, now)
  /\ p.type = "data" => e.handshaked

----------------------------------------------------------------------------
(* Mutant of Classified: only the first request of a session decides. *)
ClassifiedOnce(e, p) ==
  IF AllowClean /\ e.last_handshake_request_time = 0
  THEN [e EXCEPT !.client_clean = ~Obfuscated(p),
                 !.masking_handler = IF Obfuscated(p) THEN @ ELSE "NULL"]
  ELSE e

(* Only the client handler sets client_clean, at every handshake request. *)
Classified(e, p) ==
  IF AllowClean
  THEN [e EXCEPT !.client_clean = ~Obfuscated(p),
                 !.masking_handler = IF Obfuscated(p) THEN @ ELSE "NULL"]
  ELSE e

(* Mutant of AfterInit: it stores the sender where the direction belongs. *)
AfterInitBySide(e, p, from, now) ==
  [(IF from = "client" THEN Classified(e, p) ELSE e) EXCEPT
     !.handshake_direction = from, !.last_handshake_request_time = now]

(* Mutants of AfterInit: a request that is still to be answered keeps its  *)
(* direction; a new request ends the session's earlier handshake.          *)
AfterInitPending(e, p, from, now) ==
  [(IF from = "client" THEN Classified(e, p) ELSE e) EXCEPT
     !.handshake_direction =
        IF now - e.last_handshake_request_time <= HandshakeTimeout THEN @
        ELSE IF from = "client" THEN "C2S" ELSE "S2C",
     !.last_handshake_request_time = now]
AfterInitAnew(e, p, from, now) ==
  [(IF from = "client" THEN Classified(e, p) ELSE e) EXCEPT !.handshaked = FALSE,
     !.handshake_direction = IF from = "client" THEN "C2S" ELSE "S2C",
     !.last_handshake_request_time = now]

AfterInit(e, p, from, now) ==
  [(IF from = "client" THEN Classified(e, p) ELSE e) EXCEPT
     !.handshake_direction = IF from = "client" THEN "C2S" ELSE "S2C",
     !.last_handshake_request_time = now]

AfterResp(e, p, from) ==
  [e EXCEPT !.handshaked = TRUE,
     !.client_obfuscated =
        IF from = "client" THEN Obfuscated(p) ELSE ~Obfuscated(p) /\ ~e.client_clean,
     !.server_obfuscated =
        IF from = "client" THEN ~Obfuscated(p) ELSE Obfuscated(p)]

(* Mutant of Downgraded: the version of the packet is forgotten. *)
DowngradedNever(e, p) == e

(* The version downgrade applies to every accepted packet and is one-way. *)
Downgraded(e, p) == [e EXCEPT !.version = IF p.enc = "v0" THEN 0 ELSE @]

(* The entry once an accepted packet has been handled, sending aside. *)
After(e, p, from, now) ==
  Downgraded(CASE p.type = "init" -> AfterInit(e, p, from, now)
               [] p.type = "resp" -> AfterResp(e, p, from)
               [] OTHER -> e, p)

(* A successful send refreshes the activity stamps. *)
Sent(e, from, now) ==
  IF from = "client" THEN [e EXCEPT !.last_activity_time = now]
  ELSE [e EXCEPT !.last_activity_time = now, !.last_incoming_time = now]

----------------------------------------------------------------------------
(* What is relayed for packet p, e being the entry After it.  Obfuscated   *)
(* input leaves plain; plain input is encoded and masked, unless the       *)
(* client is a clean one.                                                  *)
Encodes(e, p) == ~Obfuscated(p) /\ ~e.client_clean

Relayed(e, p) ==
  IF Encodes(e, p)
  THEN [mask |-> e.masking_handler = "STUN",
        enc |-> IF e.version = 0 THEN "v0" ELSE "v1", type |-> p.type]
  ELSE [mask |-> FALSE, enc |-> "plain", type |-> p.type]

(* The STUN handler sends a binding request ahead of an encoded handshake. *)
Greets(e, p) == p.type = "init" /\ Encodes(e, p) /\ e.masking_handler = "STUN"
=============================================================================
