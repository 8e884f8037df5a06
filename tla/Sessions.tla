------------------------------ MODULE Sessions ------------------------------
(***************************************************************************)
(* The connection table and the event loop of main() in wg-obfuscator.c:   *)
(* epoll_wait returns a batch of ready sockets, every one of them is read  *)
(* once, and the table is swept between two batches.  A session is a       *)
(* client_entry_t with its connected socket, known by its client address;  *)
(* static bindings are the sessions that exist from the start.             *)
(*                                                                         *)
(* The clock is CLOCK_MONOTONIC.  It advances while the loop waits; a      *)
(* batch takes no time, because the loop reads the clock once per batch.   *)
(***************************************************************************)
EXTENDS ClientEntry, FiniteSets

CONSTANTS Client,            \* client addresses
          StaticClient,      \* those of config.static_bindings
          Listen,            \* the listening socket, as an event
          MaxClients,        \* config.max_clients
          IdleTimeout, InTimeout,        \* config.idle_timeout, config.in_timeout
          IterateInterval, PollTimeout,  \* ITERATE_INTERVAL, POLL_TIMEOUT
          MaskingTimer,      \* timer_interval_s * 1000 of the STUN handler
          StartTime,         \* the machine's uptime when the program starts
          MaxTime, MaxInterrupts,        \* bounds of the model only
          ClientForms,       \* client -> the forms [mask, enc] it may speak
          ServerForm,        \* the form the target speaks
          Unasked            \* no request of the client in this session yet

Form == [mask : BOOLEAN, enc : {"plain", "v0", "v1"}]

ASSUME TableAssumption ==
  /\ IsFiniteSet(Client) /\ StaticClient \subseteq Client /\ Listen \notin Client
  /\ MaxClients \in Nat /\ Cardinality(StaticClient) <= MaxClients
  /\ ~(AllowClean /\ StaticClient # {})
ASSUME TimingAssumption ==
  /\ IdleTimeout \in Nat \ {0} /\ InTimeout \in Nat
  /\ IterateInterval \in Nat \ {0} /\ PollTimeout \in Nat \ {0}
  /\ MaskingTimer \in Nat \ {0} /\ MaxTime \in Nat /\ MaxInterrupts \in Nat
ASSUME UptimeAssumption ==
  StartTime \in Nat /\ StartTime > HandshakeTimeout /\ StartTime >= IterateInterval
ASSUME FormAssumption ==
  ClientForms \in [Client -> SUBSET Form] /\ ServerForm \in Form /\ Unasked \notin Form

VARIABLES live,              \* the keys of conn_table
          entry,             \* their client_entry_t
          time,              \* CLOCK_MONOTONIC
          phase,             \* "wait": in epoll_wait, "batch": in the loop over events
          polled,            \* when the current epoll_wait was entered
          interrupts,        \* consecutive epoll_wait calls that ended with EINTR
          ready,             \* the events of this batch not handled yet
          last_cleanup_time,
          requested,         \* ghost: per session, the direction of the last request taken
          spoke,             \* ghost: per session, the form of its client's last request
          out                \* ghost: what the last step did with its packets
vars == <<live, entry, time, phase, polled, interrupts, ready, last_cleanup_time,
          requested, spoke, out>>

Type == {"init", "resp", "data"}
Sides == {"client", "server", "nobody"}

(* A packet that leaves (or, toward nobody, one that was dropped); a STUN  *)
(* binding message has enc "none".                                         *)
Effect == [session : Client, to : Sides, mask : BOOLEAN,
           enc : {"plain", "v0", "v1", "none"}, type : Type \cup {"bindreq", "bindresp"}]

Send(c, to, q) ==
  [session |-> c, to |-> to, mask |-> q.mask, enc |-> q.enc, type |-> q.type]
Binding(c, to, type) ==
  [session |-> c, to |-> to, mask |-> TRUE, enc |-> "none", type |-> type]

ClientPackets(c) == {p \in Packet : [mask |-> p.mask, enc |-> p.enc] \in ClientForms[c]}
ServerPackets == {p \in Packet : [mask |-> p.mask, enc |-> p.enc] = ServerForm}

(* Every field of the table, the clocks and the effects have their type.   *)
TypeOK ==
  /\ live \subseteq Client
  /\ entry \in [Client -> Entry]
  /\ time \in Nat /\ polled \in Nat /\ interrupts \in Nat /\ last_cleanup_time \in Nat
  /\ phase \in {"wait", "batch"}
  /\ ready \subseteq Client \cup {Listen}
  /\ requested \in [Client -> SUBSET Direction]
  /\ spoke \in [Client -> Form \cup {Unasked}]
  /\ out \subseteq Effect

Init ==
  /\ live = StaticClient
  /\ entry = [c \in Client |-> IF c \in StaticClient THEN Static ELSE Zeroed]
  /\ time = StartTime /\ polled = StartTime
  /\ phase = "wait" /\ ready = {} /\ interrupts = 0
  /\ last_cleanup_time = 0
  /\ requested = [c \in Client |-> {}] /\ spoke = [c \in Client |-> Unasked]
  /\ out = {}

----------------------------------------------------------------------------
(* Waiting for events.                                                     *)
Tick ==
  /\ phase = "wait" /\ time < polled + PollTimeout /\ time < MaxTime
  /\ time' = time + 1
  /\ out' = {}
  /\ UNCHANGED <<live, entry, phase, polled, interrupts, ready, last_cleanup_time,
                 requested, spoke>>

(* EINTR: the loop starts over without reaching the sweep. *)
Interrupted ==
  /\ phase = "wait" /\ interrupts < MaxInterrupts
  /\ polled' = time /\ interrupts' = interrupts + 1
  /\ out' = {}
  /\ UNCHANGED <<live, entry, time, phase, ready, last_cleanup_time, requested, spoke>>

Wake(events) ==
  /\ phase = "wait"
  /\ events # {} \/ time = polled + PollTimeout
  /\ phase' = "batch" /\ ready' = events
  /\ out' = {}
  /\ UNCHANGED <<live, entry, time, polled, interrupts, last_cleanup_time, requested, spoke>>

----------------------------------------------------------------------------
(* Handling one event of the batch.                                        *)
Handle(event) ==
  /\ phase = "batch" /\ event \in ready
  /\ ready' = ready \ {event}
  /\ UNCHANGED <<time, phase, polled, interrupts, last_cleanup_time>>

Ignore(event) == Handle(event) /\ UNCHANGED <<live, entry, requested, spoke>>

(* The socket turns out empty, or what it holds is too short or too long.  *)
ReadNothing(event) == Ignore(event) /\ out' = {}

Greeting(c, to, f, p) == IF Greets(f, p) THEN {Binding(c, to, "bindreq")} ELSE {}

(* The common tail of both handlers: f is the entry after packet p. *)
Forward(c, from, to, f, p) ==
  \E sent \in BOOLEAN :
    /\ entry' = [entry EXCEPT ![c] = IF sent THEN Sent(f, from, time) ELSE f]
    /\ out' = Greeting(c, to, f, p) \cup
              (IF sent THEN {Send(c, to, Relayed(f, p))} ELSE {})

Requested(c, p, d) ==
  requested' = [requested EXCEPT ![c] = IF p.type = "init" THEN {d} ELSE @]
Spoke(c, p) ==
  spoke' = [spoke EXCEPT ![c] = IF p.type = "init" THEN [mask |-> p.mask, enc |-> p.enc] ELSE @]

ClientView(c, p) == IF c \in live THEN entry[c] ELSE Fresh(p, time)

FromClient(c, p) ==
  /\ Handle(Listen)
  /\ Accepts(ClientView(c, p), p, "client", time)
  /\ c \in live \/ (p.type = "init" /\ Cardinality(live) < MaxClients)
  /\ live' = live \cup {c}
  /\ Requested(c, p, "C2S") /\ Spoke(c, p)
  /\ Forward(c, "client", "server", After(ClientView(c, p), p, "client", time), p)

(* Out of an unknown client's packet nothing may come either way: the      *)
(* table is full, or a socket or memory is not to be had.                  *)
DropFromClient(c, p) ==
  /\ Ignore(Listen)
  /\ c \notin live \/ ~Accepts(entry[c], p, "client", time)
  /\ out' = {Send(c, "nobody", p)}

FromServer(c, p) ==
  /\ Handle(c)
  /\ Accepts(entry[c], p, "server", time)
  /\ Requested(c, p, "S2C")
  /\ Forward(c, "server", "client", After(entry[c], p, "server", time), p)
  /\ UNCHANGED <<live, spoke>>

DropFromServer(c, p) ==
  /\ Ignore(c)
  /\ ~Accepts(entry[c], p, "server", time)
  /\ out' = {Send(c, "nobody", p)}

(* A STUN binding request is answered by the STUN handler and goes no      *)
(* further; a client without a session gets its answer too.                *)
ClientBinding(c) ==
  /\ Ignore(Listen)
  /\ \E form \in ClientForms[c] : form.mask
  /\ IF c \in live THEN entry[c].masking_handler = "STUN" ELSE Masking # "none"
  /\ out' = {Binding(c, "client", "bindresp")}

ServerBinding(c) ==
  /\ Ignore(c)
  /\ ServerForm.mask /\ entry[c].masking_handler = "STUN"
  /\ out' = {Binding(c, "server", "bindresp")}

----------------------------------------------------------------------------
(* The sweep at the end of a batch, at most once per IterateInterval.      *)
(* Mutants of Expired: static bindings are swept; a timeout of the three   *)
(* is missing; in_timeout, once the target has spoken, replaces idle.      *)
ExpiredStatic(c) ==
  c \in live /\ time - entry[c].last_activity_time >= IdleTimeout
ExpiredHandshaked(c) ==
  LET e == entry[c] IN
  /\ c \in live \ StaticClient
  /\ \/ time - e.last_activity_time >= IdleTimeout
     \/ InTimeout > 0 /\ time - e.last_incoming_time >= InTimeout
ExpiredUnheard(c) ==
  LET e == entry[c] IN
  /\ c \in live \ StaticClient
  /\ \/ time - e.last_activity_time >= IdleTimeout
     \/ ~e.handshaked /\ time - e.last_activity_time >= HandshakeTimeout
ExpiredEither(c) ==
  LET e == entry[c] IN
  /\ c \in live \ StaticClient
  /\ \/ IF InTimeout > 0
        THEN e.last_incoming_time > 0 /\ time - e.last_incoming_time >= InTimeout
        ELSE time - e.last_activity_time >= IdleTimeout
     \/ ~e.handshaked /\ time - e.last_activity_time >= HandshakeTimeout

Expired(c) ==
  LET e == entry[c] IN
  /\ c \in live \ StaticClient
  /\ \/ time - e.last_activity_time >= IdleTimeout
     \/ InTimeout > 0 /\ time - e.last_incoming_time >= InTimeout
     \/ ~e.handshaked /\ time - e.last_activity_time >= HandshakeTimeout

TimerDue(c) ==
  /\ c \in live /\ ~Expired(c)
  /\ entry[c].masking_handler = "STUN"
  /\ time - entry[c].last_masking_timer_time >= MaskingTimer

(* Mutant of Pings: both sides, whatever the handshake found. *)
PingsBoth(c) == {Binding(c, to, "bindreq") : to \in {"client", "server"}}

(* on_timer pings the sides the last handshake found to need obfuscation. *)
Pings(c) ==
  {b \in {Binding(c, to, "bindreq") : to \in {"client", "server"}} :
     IF b.to = "client" THEN entry[c].client_obfuscated ELSE entry[c].server_obfuscated}

Cleanup ==
  /\ live' = {c \in live : ~Expired(c)}
  /\ entry' = [c \in Client |->
                 IF Expired(c) THEN Zeroed
                 ELSE IF TimerDue(c) THEN [entry[c] EXCEPT !.last_masking_timer_time = time]
                 ELSE entry[c]]
  /\ requested' = [c \in Client |-> IF Expired(c) THEN {} ELSE requested[c]]
  /\ spoke' = [c \in Client |-> IF Expired(c) THEN Unasked ELSE spoke[c]]
  /\ last_cleanup_time' = time
  /\ out' = UNION {Pings(c) : c \in {x \in Client : TimerDue(x)}}

(* Mutant of CleanupDue: off by one. *)
CleanupOverdue == time - last_cleanup_time > IterateInterval

CleanupDue == time - last_cleanup_time >= IterateInterval

(* Mutant of EndBatch: the sweep runs between two events of a batch. *)
EndBatchEarly ==
  /\ phase = "batch"
  /\ phase' = "wait" /\ polled' = time /\ interrupts' = 0
  /\ IF CleanupDue THEN Cleanup
     ELSE out' = {} /\ UNCHANGED <<live, entry, requested, spoke, last_cleanup_time>>
  /\ UNCHANGED <<time, ready>>

EndBatch ==
  /\ phase = "batch" /\ ready = {}
  /\ phase' = "wait" /\ polled' = time /\ interrupts' = 0
  /\ IF CleanupDue THEN Cleanup
     ELSE out' = {} /\ UNCHANGED <<live, entry, requested, spoke, last_cleanup_time>>
  /\ UNCHANGED <<time, ready>>

----------------------------------------------------------------------------
Next ==
  \/ Tick \/ Interrupted \/ EndBatch
  \/ \E events \in SUBSET (live \cup {Listen}) : Wake(events)
  \/ \E event \in ready : ReadNothing(event)
  \/ \E c \in Client : ClientBinding(c) \/ ServerBinding(c)
  \/ \E c \in Client : \E p \in ClientPackets(c) : FromClient(c, p) \/ DropFromClient(c, p)
  \/ \E c \in Client : \E p \in ServerPackets : FromServer(c, p) \/ DropFromServer(c, p)

Spec == Init /\ [][Next]_vars

----------------------------------------------------------------------------
(* Properties.                                                             *)

(* Sweeping the table while a batch is under way would leave an event that *)
(* points to a freed entry: the code sweeps only after the last event, so  *)
(* every event still to be handled has its entry.  The table also keeps    *)
(* its static bindings and stays within max_clients.                       *)
TableSound ==
  /\ ready \subseteq live \cup {Listen}
  /\ StaticClient \subseteq live
  /\ Cardinality(live) <= MaxClients

(* How far a sweep can be put off: the interval itself, a whole            *)
(* epoll_wait, and one more for every EINTR that restarts the loop.         *)
Lag == IterateInterval + PollTimeout * (1 + interrupts)

(* The sweep is never overdue by more than Lag, however signals and        *)
(* packets interleave with the polling timeout.                            *)
CleanupPunctual ==
  time - (IF last_cleanup_time < StartTime THEN StartTime ELSE last_cleanup_time) < Lag

(* idle-timeout: no dynamic session outlives its last relayed packet by    *)
(* more than idle_timeout and Lag.                                         *)
IdleSessionsExpire ==
  \A c \in live \ StaticClient : time - entry[c].last_activity_time < IdleTimeout + Lag

(* A dynamic session without a completed handshake goes much sooner.       *)
HalfOpenSessionsExpire ==
  \A c \in live \ StaticClient :
    ~entry[c].handshaked => time - entry[c].last_activity_time < HandshakeTimeout + Lag

(* in-timeout: once the target has been heard, a dynamic session outlives  *)
(* its last packet from the target by at most in_timeout and Lag.          *)
SilentTargetsExpire ==
  InTimeout > 0 =>
    \A c \in live \ StaticClient :
      entry[c].last_incoming_time > 0 => time - entry[c].last_incoming_time < InTimeout + Lag

(* The obfuscator on the other side, or WireGuard itself, takes packet q:  *)
(* a plain peer wants plain WireGuard and no STUN, an obfuscator wants its *)
(* own mask and an encoding it knows (version 1 reads version 0 too).      *)
Understands(form, q) ==
  /\ q.mask = form.mask
  /\ q.enc \in CASE form.enc = "plain" -> {"plain"}
                 [] form.enc = "v0" -> {"v0", "none"}
                 [] OTHER -> {"v0", "v1", "none"}

(* How README.md has an obfuscator set up.  In front of WireGuard every    *)
(* client sticks to one form, plain ones are admitted, and a static        *)
(* binding has the configured mask and the current version, for it may be  *)
(* sent to before it is heard.  In front of another obfuscator, with the   *)
(* mask of the options, every client is plain WireGuard.                   *)
Speaks(c, form) ==
  /\ form \in Form /\ ClientForms[c] = {form}
  /\ form.mask => form.enc # "plain"
  /\ IF ServerForm.enc # "plain" THEN form.enc = "plain"
     ELSE /\ form.enc = "plain" => AllowClean
          /\ c \in StaticClient => form.enc # "v0" /\ (form.mask <=> Masking = "stun")

Deployed ==
  /\ \/ ServerForm = [mask |-> FALSE, enc |-> "plain"]
     \/ ServerForm = [mask |-> Masking = "stun", enc |-> "v1"] /\ ~AllowClean
  /\ \A c \in Client : \E form \in Form : Speaks(c, form)

(* Whatever is sent in the session of a client that sticks to one form is  *)
(* in a form its peer takes: the autodetected mask, the downgraded         *)
(* version, the clean flag and the ping flags of an entry never fall out   *)
(* of step, whatever clients had the slot before.                          *)
PeersUnderstand ==
  \A o \in out :
    \A form \in ClientForms[o.session] :
      ClientForms[o.session] = {form}
        => /\ o.to = "server" => Understands(ServerForm, o)
           /\ o.to = "client" => Understands(form, o)

(* In front of WireGuard, where without allow-clean no client is plain.    *)
InFront ==
  /\ ServerForm = [mask |-> FALSE, enc |-> "plain"]
  /\ AllowClean \/ \A c \in Client : \A form \in ClientForms[c] : form.enc # "plain"

(* A client may change between plain WireGuard, either version and a mask  *)
(* and come back from the same address while its entry is in the table,    *)
(* with late packets of its old form still on their way: whatever a        *)
(* session sends to its client, responses, data and pings, is in a form    *)
(* the client takes that sent the session's last request.                  *)
AnswersLastRequest ==
  \A o \in out :
    (o.to = "client" /\ o.session \in live /\ spoke[o.session] # Unasked)
      => Understands(spoke[o.session], o)

(* Sessions open, progress and close as module Relay promises: nothing is  *)
(* relayed that was not asked for in the same session.                     *)
Open == [c \in Client |-> entry[c].handshaked]
Passed == {[session |-> o.session, to |-> o.to, type |-> o.type] :
             o \in {x \in out : x.to # "nobody" /\ x.type \in Type}}

R == INSTANCE Relay WITH sessions <- live, asked <- requested, open <- Open, relayed <- Passed
ImplementsRelay == R!Spec
=============================================================================
