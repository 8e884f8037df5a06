--------------------------- MODULE SessionsProofs ---------------------------
(***************************************************************************)
(* Theorems about Sessions, for every set of clients, every limit and      *)
(* every setting of the timeouts.  The inductive invariants are TypeOK,    *)
(* then TableInv and TimingInv relative to it.                             *)
(***************************************************************************)
EXTENDS Sessions, FiniteSetTheorems, TLAPS


----------------------------------------------------------------------------
(* The handlers' operators stay within their types.                        *)
LEMMA StaticType == Static \in Entry /\ Zeroed \in Entry
<1>1. Zeroed \in Entry
  BY DEF Zeroed, Entry, Handler, Direction, Version
<1>2. ConfiguredHandler \in Handler
  BY DEF ConfiguredHandler, Handler
<1>3. 1 \in Version
  BY DEF Version
<1>4. \A v \in Version, h \in Handler :
        [Zeroed EXCEPT !.version = v, !.masking_handler = h] \in Entry
  BY <1>1 DEF Entry
<1>. QED BY <1>1, <1>2, <1>3, <1>4 DEF Static

LEMMA FreshType ==
  ASSUME NEW p \in Packet, NEW now \in Nat
  PROVE  Fresh(p, now) \in Entry
<1>1. Zeroed \in Entry
  BY StaticType
<1>2. (IF Masking = "auto" /\ p.mask THEN "STUN" ELSE ConfiguredHandler) \in Handler
  BY DEF ConfiguredHandler, Handler
<1>3. 1 \in Version
  BY DEF Version
<1>4. \A v \in Version, h \in Handler :
        [Zeroed EXCEPT !.version = v, !.last_activity_time = now, !.masking_handler = h] \in Entry
  BY <1>1 DEF Entry
<1>. QED BY <1>2, <1>3, <1>4 DEF Fresh

LEMMA AfterInitType ==
  ASSUME NEW e \in Entry, NEW p \in Packet, NEW from, NEW now \in Nat
  PROVE  AfterInit(e, p, from, now) \in Entry
<1>1. Classified(e, p) \in Entry
  BY DEF Classified, Obfuscated, Packet, Entry, Handler
<1>. QED BY <1>1 DEF AfterInit, Entry, Direction

LEMMA AfterRespType ==
  ASSUME NEW e \in Entry, NEW p \in Packet, NEW from
  PROVE  AfterResp(e, p, from) \in Entry
<1>1. Obfuscated(p) \in BOOLEAN
  BY DEF Obfuscated, Packet
<1>2. e.client_clean \in BOOLEAN
  BY DEF Entry
<1>3. (IF from = "client" THEN Obfuscated(p) ELSE ~Obfuscated(p) /\ ~e.client_clean) \in BOOLEAN
  BY <1>1, <1>2
<1>4. (IF from = "client" THEN ~Obfuscated(p) ELSE Obfuscated(p)) \in BOOLEAN
  BY <1>1
<1>. QED BY <1>3, <1>4 DEF AfterResp, Entry

LEMMA AfterType ==
  ASSUME NEW e \in Entry, NEW p \in Packet, NEW from, NEW now \in Nat
  PROVE  After(e, p, from, now) \in Entry
<1>1. ASSUME NEW f \in Entry PROVE Downgraded(f, p) \in Entry
  BY DEF Downgraded, Entry, Version
<1>. QED BY <1>1, AfterInitType, AfterRespType DEF After

LEMMA SentType ==
  ASSUME NEW e \in Entry, NEW from, NEW now \in Nat
  PROVE  Sent(e, from, now) \in Entry
BY DEF Sent, Entry

LEMMA RelayedType ==
  ASSUME NEW e \in Entry, NEW p \in Packet
  PROVE  /\ Relayed(e, p).mask \in BOOLEAN
         /\ Relayed(e, p).enc \in {"plain", "v0", "v1"}
         /\ Relayed(e, p).type \in Type
<1>1. p.type \in Type /\ p.mask \in BOOLEAN
  BY DEF Packet, Type
<1>2. (e.masking_handler = "STUN") \in BOOLEAN
  OBVIOUS
<1>. QED BY <1>1, <1>2 DEF Relayed

LEMMA EffectType ==
  ASSUME NEW c \in Client, NEW to \in Sides
  PROVE  /\ \A type \in {"bindreq", "bindresp"} : Binding(c, to, type) \in Effect
         /\ \A q : q.mask \in BOOLEAN /\ q.enc \in {"plain", "v0", "v1"} /\ q.type \in Type
                     => Send(c, to, q) \in Effect
BY DEF Binding, Send, Effect, Sides

LEMMA ForwardType ==
  ASSUME NEW c \in Client, NEW from, NEW to \in Sides, NEW f \in Entry, NEW p \in Packet,
         time \in Nat, entry \in [Client -> Entry], Forward(c, from, to, f, p)
  PROVE  entry' \in [Client -> Entry] /\ out' \subseteq Effect
<1>1. PICK sent \in BOOLEAN :
        /\ entry' = [entry EXCEPT ![c] = IF sent THEN Sent(f, from, time) ELSE f]
        /\ out' = Greeting(c, to, f, p) \cup (IF sent THEN {Send(c, to, Relayed(f, p))} ELSE {})
  BY DEF Forward
<1>2. entry' \in [Client -> Entry]
  BY <1>1, SentType
<1>3. Greeting(c, to, f, p) \subseteq Effect
  BY EffectType DEF Greeting
<1>4. Send(c, to, Relayed(f, p)) \in Effect
  BY EffectType, RelayedType
<1>. QED BY <1>1, <1>2, <1>3, <1>4

----------------------------------------------------------------------------
(* Type correctness.                                                       *)
LEMMA TypeInit == Init => TypeOK
<1>. SUFFICES ASSUME Init PROVE TypeOK
  OBVIOUS
<1>1. entry \in [Client -> Entry]
  BY StaticType DEF Init
<1>2. live \subseteq Client
  BY TableAssumption DEF Init
<1>. QED BY <1>1, <1>2, UptimeAssumption DEF Init, TypeOK

LEMMA TypeNext == TypeOK /\ [Next]_vars => TypeOK'
<1>. SUFFICES ASSUME TypeOK, [Next]_vars PROVE TypeOK'
  OBVIOUS
<1>. USE DEF TypeOK
<1>1. CASE Tick
  BY <1>1 DEF Tick
<1>2. CASE Interrupted
  BY <1>2 DEF Interrupted
<1>3. ASSUME NEW events \in SUBSET (live \cup {Listen}), Wake(events) PROVE TypeOK'
  BY <1>3 DEF Wake
<1>4. ASSUME NEW event \in ready, ReadNothing(event) PROVE TypeOK'
  BY <1>4 DEF ReadNothing, Ignore, Handle
<1>5. ASSUME NEW c \in Client, ClientBinding(c) \/ ServerBinding(c) PROVE TypeOK'
  <2>1. Binding(c, "client", "bindresp") \in Effect /\ Binding(c, "server", "bindresp") \in Effect
    BY EffectType DEF Sides
  <2>. QED BY <1>5, <2>1 DEF ClientBinding, ServerBinding, Ignore, Handle
<1>6. ASSUME NEW c \in Client, NEW p \in ClientPackets(c), FromClient(c, p) PROVE TypeOK'
  <2>1. p \in Packet
    BY DEF ClientPackets
  <2>2. ClientView(c, p) \in Entry
    BY <2>1, FreshType DEF ClientView
  <2>3. entry' \in [Client -> Entry] /\ out' \subseteq Effect
    BY <1>6, <2>1, <2>2, AfterType, ForwardType DEF FromClient, Sides
  <2>4. requested' \in [Client -> SUBSET Direction]
    BY <1>6 DEF FromClient, Requested, Direction
  <2>5. spoke' \in [Client -> Form \cup {Unasked}]
    <3>1. [mask |-> p.mask, enc |-> p.enc] \in Form
      BY <2>1 DEF Packet, Form
    <3>. QED BY <1>6, <3>1 DEF FromClient, Spoke
  <2>. QED BY <1>6, <2>3, <2>4, <2>5 DEF FromClient, Handle
<1>7. ASSUME NEW c \in Client, NEW p \in ServerPackets, FromServer(c, p) PROVE TypeOK'
  <2>1. p \in Packet
    BY DEF ServerPackets
  <2>2. entry' \in [Client -> Entry] /\ out' \subseteq Effect
    BY <1>7, <2>1, AfterType, ForwardType DEF FromServer, Sides
  <2>3. requested' \in [Client -> SUBSET Direction]
    BY <1>7 DEF FromServer, Requested, Direction
  <2>. QED BY <1>7, <2>2, <2>3 DEF FromServer, Handle
<1>8. ASSUME NEW c \in Client, NEW p \in Packet, DropFromClient(c, p) \/ DropFromServer(c, p)
      PROVE  TypeOK'
  <2>1. Send(c, "nobody", p) \in Effect
    BY EffectType DEF Packet, Type, Sides
  <2>. QED BY <1>8, <2>1 DEF DropFromClient, DropFromServer, Ignore, Handle
<1>9. CASE EndBatch
  <2>1. CASE CleanupDue
    <3>1. Cleanup
      BY <1>9, <2>1 DEF EndBatch
    <3>2. entry' \in [Client -> Entry]
      <4>1. ASSUME NEW e \in Entry PROVE [e EXCEPT !.last_masking_timer_time = time] \in Entry
        BY DEF Entry
      <4>. QED BY <3>1, <4>1, StaticType DEF Cleanup
    <3>3. ASSUME NEW c \in Client PROVE Pings(c) \subseteq Effect
      BY EffectType DEF Pings, Sides
    <3>4. out' \subseteq Effect
      BY <3>1, <3>3 DEF Cleanup
    <3>5. requested' \in [Client -> SUBSET Direction]
      BY <3>1 DEF Cleanup
    <3>. QED BY <1>9, <3>1, <3>2, <3>4, <3>5 DEF EndBatch, Cleanup
  <2>2. CASE ~CleanupDue
    BY <1>9, <2>2 DEF EndBatch
  <2>. QED BY <2>1, <2>2
<1>10. CASE UNCHANGED vars
  BY <1>10 DEF vars
<1>. QED
  BY <1>1, <1>2, <1>3, <1>4, <1>5, <1>6, <1>7, <1>8, <1>9, <1>10
  DEF Next, ClientPackets, ServerPackets

(* Every variable keeps its type: in particular no entry ever holds a      *)
(* version, a direction or a handler the handlers do not know.             *)
THEOREM TypeCorrect == Spec => []TypeOK
BY TypeInit, TypeNext, PTL DEF Spec

----------------------------------------------------------------------------
(* The table: TableSound is inductive because the sweep runs only when the *)
(* batch is finished, and spares static bindings.                          *)
LEMMA TableInit == Init => TableSound
BY TableAssumption DEF Init, TableSound

LEMMA TableNext == TypeOK /\ TableSound /\ [Next]_vars => TableSound'
<1>. SUFFICES ASSUME TypeOK, TableSound, [Next]_vars PROVE TableSound'
  OBVIOUS
<1>1. live \subseteq Client /\ IsFiniteSet(live)
  BY TableAssumption, FS_Subset DEF TypeOK
<1>2. Cardinality(live) \in Nat /\ MaxClients \in Nat
  BY <1>1, FS_CardinalityType, TableAssumption
<1>3. ASSUME NEW c \in Client, NEW p, FromClient(c, p) PROVE TableSound'
  <2>1. live' = live \cup {c} /\ ready' \subseteq ready
    BY <1>3 DEF FromClient, Handle
  <2>2. Cardinality(live') <= MaxClients
    <3>1. CASE c \in live
      BY <2>1, <3>1 DEF TableSound
    <3>2. CASE c \notin live
      <4>1. Cardinality(live \cup {c}) = Cardinality(live) + 1
        BY <1>1, <3>2, FS_AddElement
      <4>2. Cardinality(live) < MaxClients
        BY <1>3, <3>2 DEF FromClient
      <4>. QED BY <1>2, <2>1, <4>1, <4>2
    <3>. QED BY <3>1, <3>2
  <2>. QED BY <2>1, <2>2 DEF TableSound
<1>4. CASE EndBatch
  <2>1. CASE CleanupDue
    <3>1. live' = {c \in live : ~Expired(c)} /\ ready' = {}
      BY <1>4, <2>1 DEF EndBatch, Cleanup
    <3>2. Cardinality(live') <= MaxClients
      <4>1. live' \in SUBSET live
        BY <3>1
      <4>2. IsFiniteSet(live') /\ Cardinality(live') <= Cardinality(live)
        BY <1>1, <4>1, FS_Subset
      <4>. QED BY <1>2, <4>2, FS_CardinalityType DEF TableSound
    <3>3. StaticClient \subseteq live'
      BY <3>1 DEF TableSound, Expired
    <3>. QED BY <3>1, <3>2, <3>3 DEF TableSound
  <2>2. CASE ~CleanupDue
    BY <1>4, <2>2 DEF EndBatch, TableSound
  <2>. QED BY <2>1, <2>2
<1>5. ASSUME NEW events \in SUBSET (live \cup {Listen}), Wake(events) PROVE TableSound'
  BY <1>5 DEF Wake, TableSound
<1>6. ASSUME live' = live, ready' \subseteq ready PROVE TableSound'
  BY <1>6 DEF TableSound
<1>7. CASE Tick \/ Interrupted \/ UNCHANGED vars
  BY <1>6, <1>7 DEF Tick, Interrupted, vars
<1>8. ASSUME NEW event, Handle(event), live' = live PROVE TableSound'
  BY <1>6, <1>8 DEF Handle
<1>9. ASSUME NEW c, NEW p, NEW event,
             \/ ReadNothing(event) \/ ClientBinding(c) \/ ServerBinding(c)
             \/ DropFromClient(c, p) \/ DropFromServer(c, p) \/ FromServer(c, p)
      PROVE  TableSound'
  BY <1>8, <1>9 DEF ReadNothing, ClientBinding, ServerBinding, DropFromClient,
                    DropFromServer, FromServer, Ignore
<1>. QED BY <1>3, <1>4, <1>5, <1>7, <1>9 DEF Next

(* However batches, sweeps and new clients interleave, no event refers to  *)
(* a removed entry, no binding is lost and the table keeps its limit.      *)
THEOREM TableStaysSound == Spec => []TableSound
<1>1. TypeOK /\ TableSound /\ [Next]_vars => (TypeOK /\ TableSound)'
  BY TypeNext, TableNext
<1>. QED BY TypeInit, TableInit, <1>1, PTL DEF Spec

----------------------------------------------------------------------------
(* Timeouts.  Base is the last sweep, or the start before the first one:   *)
(* a dynamic session that is still there was not overdue at Base.  The     *)
(* clock is ahead of Base by the polls since: one per EINTR.               *)
Base == IF last_cleanup_time < StartTime THEN StartTime ELSE last_cleanup_time
Waited == PollTimeout * interrupts

ClockInv ==
  /\ Base <= time
  /\ polled < Base + IterateInterval + Waited
  /\ time <= polled + PollTimeout

FreshAt(c, t) ==
  /\ t - entry[c].last_activity_time < IdleTimeout
  /\ ~entry[c].handshaked => t - entry[c].last_activity_time < HandshakeTimeout
  /\ InTimeout > 0 /\ entry[c].last_incoming_time > 0
       => t - entry[c].last_incoming_time < InTimeout

SurvivorInv == \A c \in live \ StaticClient : FreshAt(c, Base)

TimingInv == ClockInv /\ SurvivorInv

LEMMA LagSplit ==
  ASSUME TypeOK
  PROVE  /\ Waited \in Nat /\ Base \in Nat
         /\ Lag = IterateInterval + PollTimeout + Waited
         /\ PollTimeout * (interrupts + 1) = PollTimeout + Waited
<1>1. \A a, b \in Nat : /\ a * b \in Nat
                        /\ a * (1 + b) = a + a * b
                        /\ a * (b + 1) = a + a * b
  OBVIOUS
<1>2. interrupts \in Nat /\ PollTimeout \in Nat /\ IterateInterval \in Nat
  BY TimingAssumption DEF TypeOK
<1>3. Waited \in Nat /\ PollTimeout * (1 + interrupts) = PollTimeout + Waited
  BY <1>1, <1>2 DEF Waited
<1>4. PollTimeout * (interrupts + 1) = PollTimeout + Waited
  BY <1>1, <1>2 DEF Waited
<1>5. Base \in Nat
  BY UptimeAssumption DEF TypeOK, Base
<1>. QED BY <1>2, <1>3, <1>4, <1>5 DEF Lag

LEMMA TimingInit == Init => TimingInv
<1>. SUFFICES ASSUME Init PROVE TimingInv
  OBVIOUS
<1>1. Base = StartTime /\ Waited = 0
  BY UptimeAssumption, HandshakeAssumption, TimingAssumption DEF Init, Base, Waited
<1>2. ClockInv
  BY <1>1, UptimeAssumption, TimingAssumption DEF Init, ClockInv
<1>3. SurvivorInv
  BY DEF Init, SurvivorInv
<1>. QED BY <1>2, <1>3 DEF TimingInv

LEMMA ClockNext == TypeOK /\ ClockInv /\ [Next]_vars => ClockInv'
<1>. SUFFICES ASSUME TypeOK, ClockInv, [Next]_vars PROVE ClockInv'
  OBVIOUS
<1>. time \in Nat /\ polled \in Nat /\ StartTime \in Nat /\ last_cleanup_time \in Nat
  BY UptimeAssumption DEF TypeOK
<1>. PollTimeout \in Nat \ {0} /\ IterateInterval \in Nat \ {0}
  BY TimingAssumption
<1>. Waited \in Nat /\ Base \in Nat
  BY LagSplit
<1>1. CASE Tick
  <2>1. Base' = Base /\ Waited' = Waited /\ polled' = polled /\ time' = time + 1
    BY <1>1 DEF Tick, Base, Waited
  <2>. QED BY <1>1, <2>1 DEF Tick, ClockInv
<1>2. CASE Interrupted
  <2>1. Base' = Base /\ Waited' = PollTimeout + Waited /\ polled' = time /\ time' = time
    BY <1>2, LagSplit DEF Interrupted, Base, Waited
  <2>. QED BY <2>1 DEF ClockInv
<1>3. CASE EndBatch
  <2>1. polled' = time /\ time' = time /\ Waited' = 0
    BY <1>3 DEF EndBatch, Waited
  <2>2. CASE CleanupDue
    <3>1. last_cleanup_time' = time
      BY <1>3, <2>2 DEF EndBatch, Cleanup
    <3>2. StartTime <= time
      BY DEF ClockInv, Base
    <3>3. Base' = time
      BY <3>1, <3>2 DEF Base
    <3>. QED BY <2>1, <3>3 DEF ClockInv
  <2>3. CASE ~CleanupDue
    <3>1. Base' = Base
      BY <1>3, <2>3 DEF EndBatch, Base
    <3>2. time < Base + IterateInterval
      BY <2>3 DEF CleanupDue, Base
    <3>. QED BY <2>1, <3>1, <3>2 DEF ClockInv
  <2>. QED BY <2>2, <2>3
<1>4. ASSUME UNCHANGED <<time, polled, interrupts, last_cleanup_time>> PROVE ClockInv'
  BY <1>4 DEF ClockInv, Base, Waited
<1>5. ASSUME NEW event, Handle(event) PROVE ClockInv'
  BY <1>4, <1>5 DEF Handle
<1>6. ASSUME NEW c, NEW p, NEW events,
             \/ ReadNothing(c) \/ ClientBinding(c) \/ ServerBinding(c)
             \/ DropFromClient(c, p) \/ DropFromServer(c, p)
             \/ FromClient(c, p) \/ FromServer(c, p) \/ Wake(events)
      PROVE  ClockInv'
  BY <1>4, <1>5, <1>6 DEF ReadNothing, ClientBinding, ServerBinding, DropFromClient,
       DropFromServer, FromClient, FromServer, Ignore, Wake
<1>7. CASE UNCHANGED vars
  BY <1>4, <1>7 DEF vars
<1>. QED BY <1>1, <1>2, <1>3, <1>6, <1>7 DEF Next

(* Handling a packet moves the stamps forward only, and no handshake is    *)
(* ever undone.                                                            *)
LEMMA AfterStamps ==
  ASSUME NEW e \in Entry, NEW p \in Packet, NEW from, NEW now \in Nat
  PROVE  LET f == After(e, p, from, now) IN
         /\ f.last_activity_time = e.last_activity_time
         /\ f.last_incoming_time = e.last_incoming_time
         /\ e.handshaked => f.handshaked
         /\ p.type # "resp" => f.handshaked = e.handshaked
         /\ p.type = "resp" => f.handshaked = TRUE
<1>0. p.type \in {"init", "resp", "data"}
  BY DEF Packet
<1>1. /\ AfterInit(e, p, from, now).last_activity_time = e.last_activity_time
      /\ AfterInit(e, p, from, now).last_incoming_time = e.last_incoming_time
      /\ AfterInit(e, p, from, now).handshaked = e.handshaked
  <2>1. /\ Classified(e, p) \in Entry
        /\ Classified(e, p).last_activity_time = e.last_activity_time
        /\ Classified(e, p).last_incoming_time = e.last_incoming_time
        /\ Classified(e, p).handshaked = e.handshaked
    BY DEF Classified, Entry, Obfuscated, Packet, Handler
  <2>. QED BY <2>1 DEF AfterInit, Entry
<1>2. /\ AfterResp(e, p, from).last_activity_time = e.last_activity_time
      /\ AfterResp(e, p, from).last_incoming_time = e.last_incoming_time
      /\ AfterResp(e, p, from).handshaked = TRUE
  BY DEF AfterResp, Entry
<1>3. AfterInit(e, p, from, now) \in Entry /\ AfterResp(e, p, from) \in Entry
  BY AfterInitType, AfterRespType
<1>4. \A f \in Entry :
        /\ Downgraded(f, p).last_activity_time = f.last_activity_time
        /\ Downgraded(f, p).last_incoming_time = f.last_incoming_time
        /\ Downgraded(f, p).handshaked = f.handshaked
  BY DEF Downgraded, Entry
<1>. QED BY <1>0, <1>1, <1>2, <1>3, <1>4 DEF After

LEMMA SentStamps ==
  ASSUME NEW e \in Entry, NEW from, NEW now \in Nat
  PROVE  LET f == Sent(e, from, now) IN
         /\ f.last_activity_time = now
         /\ f.last_incoming_time \in {e.last_incoming_time, now}
         /\ f.handshaked = e.handshaked
BY DEF Sent, Entry

(* What a handler leaves in the entry, against what it found there. *)
LEMMA ForwardStamps ==
  ASSUME TypeOK, NEW c \in Client, NEW e \in Entry, NEW p \in Packet, NEW from, NEW to,
         Forward(c, from, to, After(e, p, from, time), p)
  PROVE  /\ \A d \in Client \ {c} : entry'[d] = entry[d]
         /\ entry'[c].last_activity_time \in {e.last_activity_time, time}
         /\ entry'[c].last_incoming_time \in {e.last_incoming_time, time}
         /\ e.handshaked => entry'[c].handshaked
         /\ p.type # "resp" => entry'[c].handshaked = e.handshaked
         /\ p.type = "resp" => entry'[c].handshaked = TRUE
<1>1. PICK sent \in BOOLEAN :
        entry' = [entry EXCEPT ![c] = IF sent THEN Sent(After(e, p, from, time), from, time)
                                      ELSE After(e, p, from, time)]
  BY DEF Forward
<1>2. entry'[c] = (IF sent THEN Sent(After(e, p, from, time), from, time)
                   ELSE After(e, p, from, time))
  BY <1>1 DEF TypeOK
<1>3. After(e, p, from, time) \in Entry
  BY AfterType DEF TypeOK
<1>4. /\ After(e, p, from, time).last_activity_time = e.last_activity_time
      /\ After(e, p, from, time).last_incoming_time = e.last_incoming_time
      /\ e.handshaked => After(e, p, from, time).handshaked
      /\ p.type # "resp" => After(e, p, from, time).handshaked = e.handshaked
      /\ p.type = "resp" => After(e, p, from, time).handshaked = TRUE
  BY AfterStamps DEF TypeOK
<1>5. /\ entry'[c].last_activity_time \in {After(e, p, from, time).last_activity_time, time}
      /\ entry'[c].last_incoming_time \in {After(e, p, from, time).last_incoming_time, time}
      /\ entry'[c].handshaked = After(e, p, from, time).handshaked
  <2>1. CASE sent
    BY <1>2, <1>3, <2>1, SentStamps DEF TypeOK
  <2>2. CASE ~sent
    BY <1>2, <2>2
  <2>. QED BY <2>1, <2>2
<1>6. \A d \in Client \ {c} : entry'[d] = entry[d]
  BY <1>1 DEF TypeOK
<1>. QED BY <1>4, <1>5, <1>6

LEMMA SurvivorNext == TypeOK /\ TableSound /\ TimingInv /\ [Next]_vars => SurvivorInv'
<1>. SUFFICES ASSUME TypeOK, TableSound, TimingInv, [Next]_vars PROVE SurvivorInv'
  OBVIOUS
<1>. time \in Nat /\ Base \in Nat /\ Base <= time
  BY LagSplit DEF TypeOK, TimingInv, ClockInv
<1>. IdleTimeout \in Nat \ {0} /\ InTimeout \in Nat /\ HandshakeTimeout \in Nat \ {0}
  BY TimingAssumption, HandshakeAssumption
<1>0. \A c \in Client : /\ entry[c] \in Entry
                        /\ entry[c].last_activity_time \in Nat
                        /\ entry[c].last_incoming_time \in Nat
  BY DEF TypeOK, Entry
<1>1. ASSUME UNCHANGED <<live, entry, last_cleanup_time>> PROVE SurvivorInv'
  BY <1>1 DEF TimingInv, SurvivorInv, FreshAt, Base
<1>2. ASSUME NEW c \in Client,
             live' = live \cup {c}, last_cleanup_time' = last_cleanup_time,
             \A d \in Client \ {c} : entry'[d] = entry[d],
             \/ /\ c \in live
                /\ entry'[c].last_activity_time \in {entry[c].last_activity_time, time}
                /\ entry'[c].last_incoming_time \in {entry[c].last_incoming_time, time}
                /\ entry[c].handshaked => entry'[c].handshaked
             \/ /\ entry'[c].last_activity_time = time
                /\ entry'[c].last_incoming_time \in {0, time}
      PROVE  SurvivorInv'
  <2>1. Base' = Base
    BY <1>2 DEF Base
  <2>2. SUFFICES ASSUME NEW d \in live' \ StaticClient PROVE FreshAt(d, Base)'
    BY DEF SurvivorInv
  <2>3. d \in Client
    BY <1>2, <2>2 DEF TypeOK
  <2>4. CASE d # c
    <3>1. entry'[d] = entry[d] /\ d \in live \ StaticClient
      BY <1>2, <2>2, <2>3, <2>4
    <3>2. FreshAt(d, Base)
      BY <3>1 DEF TimingInv, SurvivorInv
    <3>. QED BY <2>1, <3>1, <3>2 DEF FreshAt
  <2>5. CASE d = c
    <3>1. CASE /\ c \in live
               /\ entry'[c].last_activity_time \in {entry[c].last_activity_time, time}
               /\ entry'[c].last_incoming_time \in {entry[c].last_incoming_time, time}
               /\ entry[c].handshaked => entry'[c].handshaked
      <4>1. FreshAt(c, Base)
        BY <2>2, <2>5, <3>1 DEF TimingInv, SurvivorInv
      <4>. QED BY <1>0, <2>1, <2>5, <3>1, <4>1 DEF FreshAt
    <3>2. CASE /\ entry'[c].last_activity_time = time
               /\ entry'[c].last_incoming_time \in {0, time}
      BY <2>1, <2>5, <3>2 DEF FreshAt
    <3>. QED BY <1>2, <3>1, <3>2
  <2>. QED BY <2>4, <2>5
<1>3. ASSUME NEW c \in Client, NEW p \in ClientPackets(c), FromClient(c, p) PROVE SurvivorInv'
  <2>1. p \in Packet
    BY DEF ClientPackets
  <2>2. ClientView(c, p) \in Entry
    BY <1>0, <2>1, FreshType DEF ClientView
  <2>3. \/ ClientView(c, p) = entry[c] /\ c \in live
        \/ ClientView(c, p).last_activity_time = time /\ ClientView(c, p).last_incoming_time = 0
    BY DEF ClientView, Fresh, Zeroed
  <2>4. /\ \A d \in Client \ {c} : entry'[d] = entry[d]
        /\ entry'[c].last_activity_time \in {ClientView(c, p).last_activity_time, time}
        /\ entry'[c].last_incoming_time \in {ClientView(c, p).last_incoming_time, time}
        /\ ClientView(c, p).handshaked => entry'[c].handshaked
    BY <1>3, <2>1, <2>2, ForwardStamps DEF FromClient
  <2>5. live' = live \cup {c} /\ last_cleanup_time' = last_cleanup_time
    BY <1>3 DEF FromClient, Handle
  <2>6. CASE ClientView(c, p) = entry[c] /\ c \in live
    BY <1>2, <2>4, <2>5, <2>6
  <2>7. CASE ClientView(c, p).last_activity_time = time /\ ClientView(c, p).last_incoming_time = 0
    BY <1>2, <2>4, <2>5, <2>7
  <2>. QED BY <2>3, <2>6, <2>7
<1>4. ASSUME NEW c \in Client, NEW p \in ServerPackets, FromServer(c, p) PROVE SurvivorInv'
  <2>1. p \in Packet
    BY DEF ServerPackets
  <2>2. c \in live /\ live' = live \cup {c} /\ last_cleanup_time' = last_cleanup_time
    BY <1>4, TableAssumption DEF FromServer, Handle, TableSound
  <2>3. /\ \A d \in Client \ {c} : entry'[d] = entry[d]
        /\ entry'[c].last_activity_time \in {entry[c].last_activity_time, time}
        /\ entry'[c].last_incoming_time \in {entry[c].last_incoming_time, time}
        /\ entry[c].handshaked => entry'[c].handshaked
    BY <1>0, <1>4, <2>1, ForwardStamps DEF FromServer
  <2>. QED BY <1>2, <2>2, <2>3
<1>5. CASE EndBatch
  <2>1. CASE CleanupDue
    <3>1. Cleanup
      BY <1>5, <2>1 DEF EndBatch
    <3>2. Base' = time
      <4>1. StartTime \in Nat /\ StartTime <= time
        BY UptimeAssumption DEF TypeOK, Base
      <4>. QED BY <3>1, <4>1 DEF Cleanup, Base
    <3>3. SUFFICES ASSUME NEW d \in live' \ StaticClient PROVE FreshAt(d, Base)'
      BY DEF SurvivorInv
    <3>4. d \in Client /\ d \in live \ StaticClient /\ ~Expired(d)
      BY <3>1, <3>3 DEF Cleanup, TypeOK
    <3>5. /\ entry'[d].last_activity_time = entry[d].last_activity_time
          /\ entry'[d].last_incoming_time = entry[d].last_incoming_time
          /\ entry'[d].handshaked = entry[d].handshaked
      <4>1. entry'[d] = entry[d] \/ entry'[d] = [entry[d] EXCEPT !.last_masking_timer_time = time]
        BY <3>1, <3>4 DEF Cleanup
      <4>. QED BY <1>0, <3>4, <4>1 DEF Entry
    <3>6. /\ time - entry[d].last_activity_time < IdleTimeout
          /\ ~entry[d].handshaked => time - entry[d].last_activity_time < HandshakeTimeout
          /\ InTimeout > 0 => time - entry[d].last_incoming_time < InTimeout
      BY <1>0, <3>4 DEF Expired
    <3>. QED BY <3>2, <3>5, <3>6 DEF FreshAt
  <2>2. CASE ~CleanupDue
    BY <1>1, <1>5, <2>2 DEF EndBatch
  <2>. QED BY <2>1, <2>2
<1>6. ASSUME NEW c, NEW p, NEW events,
             \/ Tick \/ Interrupted \/ Wake(events)
             \/ ReadNothing(c) \/ ClientBinding(c) \/ ServerBinding(c)
             \/ DropFromClient(c, p) \/ DropFromServer(c, p) \/ UNCHANGED vars
      PROVE  SurvivorInv'
  BY <1>1, <1>6 DEF Tick, Interrupted, Wake, ReadNothing, ClientBinding, ServerBinding,
       DropFromClient, DropFromServer, Ignore, Handle, vars
<1>. QED BY <1>3, <1>4, <1>5, <1>6 DEF Next

LEMMA TimingBounds ==
  TypeOK /\ TimingInv =>
    CleanupPunctual /\ IdleSessionsExpire /\ HalfOpenSessionsExpire /\ SilentTargetsExpire
<1>. SUFFICES ASSUME TypeOK, TimingInv
     PROVE  CleanupPunctual /\ IdleSessionsExpire /\ HalfOpenSessionsExpire /\ SilentTargetsExpire
  OBVIOUS
<1>. /\ time \in Nat /\ Base \in Nat /\ Lag \in Nat /\ polled \in Nat
     /\ IdleTimeout \in Nat /\ InTimeout \in Nat /\ HandshakeTimeout \in Nat
  BY LagSplit, TimingAssumption, HandshakeAssumption DEF TypeOK
<1>1. time - Base < Lag
  BY LagSplit, TimingAssumption DEF TypeOK, TimingInv, ClockInv
<1>2. CleanupPunctual
  BY <1>1 DEF CleanupPunctual, Base
<1>3. ASSUME NEW c \in live \ StaticClient
      PROVE  /\ time - entry[c].last_activity_time < IdleTimeout + Lag
             /\ ~entry[c].handshaked => time - entry[c].last_activity_time < HandshakeTimeout + Lag
             /\ InTimeout > 0 /\ entry[c].last_incoming_time > 0
                  => time - entry[c].last_incoming_time < InTimeout + Lag
  <2>1. entry[c].last_activity_time \in Nat /\ entry[c].last_incoming_time \in Nat
    BY DEF TypeOK, Entry
  <2>2. FreshAt(c, Base)
    BY DEF TimingInv, SurvivorInv
  <2>. QED BY <1>1, <2>1, <2>2 DEF FreshAt
<1>4. IdleSessionsExpire /\ HalfOpenSessionsExpire
  BY <1>3 DEF IdleSessionsExpire, HalfOpenSessionsExpire
<1>5. SilentTargetsExpire
  BY <1>3 DEF SilentTargetsExpire
<1>. QED BY <1>2, <1>4, <1>5

LEMMA TimingStays == Spec => [](TypeOK /\ TimingInv)
<1>1. Init => TypeOK /\ TableSound /\ TimingInv
  BY TypeInit, TableInit, TimingInit
<1>2. TypeOK /\ TableSound /\ TimingInv /\ [Next]_vars => (TypeOK /\ TableSound /\ TimingInv)'
  BY TypeNext, TableNext, ClockNext, SurvivorNext DEF TimingInv
<1>. QED BY <1>1, <1>2, PTL DEF Spec

(* The sweep is never put off by more than one interval and one poll for   *)
(* every interrupted wait, whatever packets and signals arrive.            *)
THEOREM SweepIsPunctual == Spec => []CleanupPunctual
BY TimingStays, TimingBounds, PTL

(* Every dynamic session is gone at most Lag after its idle timeout.       *)
THEOREM IdleSessionsGo == Spec => []IdleSessionsExpire
BY TimingStays, TimingBounds, PTL

(* A session without a handshake is gone at most Lag after                 *)
(* HANDSHAKE_TIMEOUT.                                                      *)
THEOREM HalfOpenSessionsGo == Spec => []HalfOpenSessionsExpire
BY TimingStays, TimingBounds, PTL

(* A session whose target fell silent is gone at most Lag after in_timeout.*)
THEOREM SilentTargetsGo == Spec => []SilentTargetsExpire
BY TimingStays, TimingBounds, PTL

----------------------------------------------------------------------------
(* Sessions implements Relay.  A response is accepted only within          *)
(* HandshakeTimeout of a request stamp, and an entry with a stamp has seen *)
(* a request in its handshake_direction; an entry without one carries 0,   *)
(* which is longer ago than that because the machine has been up longer.   *)
StampInv ==
  /\ StartTime <= time
  /\ \A c \in Client : entry[c].last_handshake_request_time > 0
                         => entry[c].handshake_direction \in requested[c]
  /\ \A c \in Client \ live : entry[c] = Zeroed /\ requested[c] = {}

Way(from) == IF from = "client" THEN "C2S" ELSE "S2C"

LEMMA ForwardDirection ==
  ASSUME TypeOK, NEW c \in Client, NEW e \in Entry, NEW p \in Packet, NEW from, NEW to,
         Forward(c, from, to, After(e, p, from, time), p)
  PROVE  /\ p.type = "init" => /\ entry'[c].handshake_direction = Way(from)
                               /\ entry'[c].last_handshake_request_time = time
         /\ p.type # "init" =>
              /\ entry'[c].handshake_direction = e.handshake_direction
              /\ entry'[c].last_handshake_request_time = e.last_handshake_request_time
<1>1. PICK sent \in BOOLEAN :
        entry' = [entry EXCEPT ![c] = IF sent THEN Sent(After(e, p, from, time), from, time)
                                      ELSE After(e, p, from, time)]
  BY DEF Forward
<1>2. entry'[c] = (IF sent THEN Sent(After(e, p, from, time), from, time)
                   ELSE After(e, p, from, time))
  BY <1>1 DEF TypeOK
<1>3. After(e, p, from, time) \in Entry
  BY AfterType DEF TypeOK
<1>4. /\ entry'[c].handshake_direction = After(e, p, from, time).handshake_direction
      /\ entry'[c].last_handshake_request_time
           = After(e, p, from, time).last_handshake_request_time
  BY <1>2, <1>3 DEF Sent, Entry
<1>5. AfterInit(e, p, from, time) \in Entry /\ AfterResp(e, p, from) \in Entry
  BY AfterInitType, AfterRespType DEF TypeOK
<1>6. \A f \in Entry :
        /\ Downgraded(f, p).handshake_direction = f.handshake_direction
        /\ Downgraded(f, p).last_handshake_request_time = f.last_handshake_request_time
  BY DEF Downgraded, Entry
<1>7. CASE p.type = "init"
  <2>1. After(e, p, from, time) = Downgraded(AfterInit(e, p, from, time), p)
    BY <1>7 DEF After
  <2>2. Classified(e, p) \in Entry
    BY DEF Classified, Obfuscated, Packet, Entry, Handler
  <2>3. /\ AfterInit(e, p, from, time).handshake_direction = Way(from)
        /\ AfterInit(e, p, from, time).last_handshake_request_time = time
    BY <2>2 DEF AfterInit, Way, Entry
  <2>. QED BY <1>4, <1>5, <1>6, <1>7, <2>1, <2>3
<1>8. CASE p.type = "resp"
  <2>1. After(e, p, from, time) = Downgraded(AfterResp(e, p, from), p)
    BY <1>8 DEF After
  <2>2. /\ AfterResp(e, p, from).handshake_direction = e.handshake_direction
        /\ AfterResp(e, p, from).last_handshake_request_time = e.last_handshake_request_time
    BY DEF AfterResp, Entry
  <2>. QED BY <1>4, <1>5, <1>6, <1>8, <2>1, <2>2
<1>9. CASE p.type = "data"
  <2>1. After(e, p, from, time) = Downgraded(e, p)
    BY <1>9 DEF After
  <2>. QED BY <1>4, <1>6, <1>9, <2>1
<1>. QED BY <1>7, <1>8, <1>9 DEF Packet

LEMMA StampInit == Init => StampInv
<1>. SUFFICES ASSUME Init PROVE StampInv
  OBVIOUS
<1>1. Static.last_handshake_request_time = 0 /\ Zeroed.last_handshake_request_time = 0
  BY StaticType DEF Static, Zeroed, Entry
<1>2. \A c \in Client : entry[c].last_handshake_request_time = 0
  BY <1>1 DEF Init
<1>. QED BY <1>2, UptimeAssumption DEF Init, StampInv

LEMMA StampNext == TypeOK /\ TableSound /\ StampInv /\ [Next]_vars => StampInv'
<1>. SUFFICES ASSUME TypeOK, TableSound, StampInv, [Next]_vars PROVE StampInv'
  OBVIOUS
<1>. time \in Nat /\ StartTime \in Nat \ {0} /\ StartTime <= time
  BY UptimeAssumption, HandshakeAssumption DEF TypeOK, StampInv
<1>1. ASSUME UNCHANGED <<live, entry, requested>>, time' \in {time, time + 1} PROVE StampInv'
  BY <1>1 DEF StampInv
<1>2. ASSUME NEW c \in Client, NEW p \in Packet, NEW from \in {"client", "server"}, NEW e \in Entry,
             live' = live \cup {c}, time' = time,
             Requested(c, p, Way(from)),
             \A d \in Client \ {c} : entry'[d] = entry[d],
             e = entry[c] \/ (e.last_handshake_request_time = 0 /\ p.type = "init"),
             p.type = "init" => /\ entry'[c].handshake_direction = Way(from)
                                /\ entry'[c].last_handshake_request_time = time,
             p.type # "init" =>
               /\ entry'[c].handshake_direction = e.handshake_direction
               /\ entry'[c].last_handshake_request_time = e.last_handshake_request_time
      PROVE  StampInv'
  <2>1. requested' \in [Client -> SUBSET Direction]
    BY <1>2 DEF Requested, Way, TypeOK, Direction
  <2>2. /\ \A d \in Client \ {c} : requested'[d] = requested[d]
        /\ requested'[c] = IF p.type = "init" THEN {Way(from)} ELSE requested[c]
    BY <1>2 DEF Requested, TypeOK
  <2>3. entry'[c].last_handshake_request_time > 0
          => entry'[c].handshake_direction \in requested'[c]
    <3>1. CASE p.type = "init"
      BY <1>2, <2>2, <3>1
    <3>2. CASE p.type # "init"
      BY <1>2, <2>2, <3>2 DEF StampInv
    <3>. QED BY <3>1, <3>2
  <2>4. \A d \in Client \ {c} :
          entry'[d].last_handshake_request_time > 0
            => entry'[d].handshake_direction \in requested'[d]
    BY <1>2, <2>2 DEF StampInv
  <2>5. \A d \in Client \ live' : entry'[d] = Zeroed /\ requested'[d] = {}
    BY <1>2, <2>2 DEF StampInv
  <2>6. StartTime <= time'
    BY <1>2
  <2>. QED BY <2>3, <2>4, <2>5, <2>6 DEF StampInv
<1>3. ASSUME NEW c \in Client, NEW p \in ClientPackets(c), FromClient(c, p) PROVE StampInv'
  <2>1. p \in Packet
    BY DEF ClientPackets
  <2>2. ClientView(c, p) \in Entry
    BY <2>1, FreshType DEF ClientView, TypeOK
  <2>3. ClientView(c, p) = entry[c]
          \/ (ClientView(c, p).last_handshake_request_time = 0 /\ p.type = "init")
    BY <1>3 DEF ClientView, Fresh, Zeroed, FromClient
  <2>4. \A d \in Client \ {c} : entry'[d] = entry[d]
    BY <1>3, <2>1, <2>2, ForwardStamps DEF FromClient
  <2>5. /\ p.type = "init" => /\ entry'[c].handshake_direction = Way("client")
                              /\ entry'[c].last_handshake_request_time = time
        /\ p.type # "init" =>
             /\ entry'[c].handshake_direction = ClientView(c, p).handshake_direction
             /\ entry'[c].last_handshake_request_time
                  = ClientView(c, p).last_handshake_request_time
    BY <1>3, <2>1, <2>2, ForwardDirection DEF FromClient
  <2>6. live' = live \cup {c} /\ time' = time /\ Requested(c, p, Way("client"))
    BY <1>3 DEF FromClient, Handle, Way
  <2>. QED BY <1>2, <2>1, <2>2, <2>3, <2>4, <2>5, <2>6
<1>4. ASSUME NEW c \in Client, NEW p \in ServerPackets, FromServer(c, p) PROVE StampInv'
  <2>1. p \in Packet /\ entry[c] \in Entry
    BY DEF ServerPackets, TypeOK
  <2>2. c \in live /\ live' = live \cup {c} /\ time' = time /\ Requested(c, p, Way("server"))
    BY <1>4, TableAssumption DEF FromServer, Handle, TableSound, Way
  <2>3. \A d \in Client \ {c} : entry'[d] = entry[d]
    BY <1>4, <2>1, ForwardStamps DEF FromServer
  <2>4. /\ p.type = "init" => /\ entry'[c].handshake_direction = Way("server")
                              /\ entry'[c].last_handshake_request_time = time
        /\ p.type # "init" =>
             /\ entry'[c].handshake_direction = entry[c].handshake_direction
             /\ entry'[c].last_handshake_request_time = entry[c].last_handshake_request_time
    BY <1>4, <2>1, ForwardDirection DEF FromServer
  <2>. QED BY <1>2, <2>1, <2>2, <2>3, <2>4
<1>5. CASE EndBatch
  <2>1. CASE CleanupDue
    <3>1. Cleanup /\ time' = time
      BY <1>5, <2>1 DEF EndBatch
    <3>2. ASSUME NEW c \in Client
          PROVE  \/ entry'[c] = Zeroed /\ requested'[c] = {}
                 \/ /\ c \in live => c \in live'
                    /\ c \notin live => entry'[c] = entry[c]
                    /\ requested'[c] = requested[c]
                    /\ entry'[c].handshake_direction = entry[c].handshake_direction
                    /\ entry'[c].last_handshake_request_time
                         = entry[c].last_handshake_request_time
      BY <3>1 DEF Cleanup, TimerDue, TypeOK, Entry
    <3>3. Zeroed.last_handshake_request_time = 0
      BY DEF Zeroed
    <3>. QED BY <3>1, <3>2, <3>3 DEF StampInv
  <2>2. CASE ~CleanupDue
    BY <1>1, <1>5, <2>2 DEF EndBatch
  <2>. QED BY <2>1, <2>2
<1>6. ASSUME NEW c, NEW p, NEW events,
             \/ Tick \/ Interrupted \/ Wake(events)
             \/ ReadNothing(c) \/ ClientBinding(c) \/ ServerBinding(c)
             \/ DropFromClient(c, p) \/ DropFromServer(c, p) \/ UNCHANGED vars
      PROVE  StampInv'
  BY <1>1, <1>6 DEF Tick, Interrupted, Wake, ReadNothing, ClientBinding, ServerBinding,
       DropFromClient, DropFromServer, Ignore, Handle, vars
<1>. QED BY <1>3, <1>4, <1>5, <1>6 DEF Next

(* A response is accepted only against a request of this very session. *)
LEMMA ResponseIsAsked ==
  ASSUME TypeOK, StampInv, NEW c \in Client, NEW from \in {"client", "server"},
         AcceptsResp(entry[c], from, time)
  PROVE  (IF from = "client" THEN "S2C" ELSE "C2S") \in requested[c]
<1>1. /\ time \in Nat /\ StartTime \in Nat /\ HandshakeTimeout \in Nat
      /\ StartTime <= time /\ StartTime > HandshakeTimeout
  BY UptimeAssumption, HandshakeAssumption DEF TypeOK, StampInv
<1>2. entry[c].last_handshake_request_time \in Nat
  BY DEF TypeOK, Entry
<1>3. entry[c].last_handshake_request_time > 0
  BY <1>1, <1>2 DEF AcceptsResp
<1>. QED BY <1>3 DEF AcceptsResp, StampInv

(* What a handler that takes a packet leaves to be relayed. *)
LEMMA ForwardPasses ==
  ASSUME TypeOK, NEW c \in Client, NEW f \in Entry, NEW p \in Packet, NEW from,
         NEW to \in {"client", "server"}, Forward(c, from, to, f, p)
  PROVE  Passed' \in {{}, {[session |-> c, to |-> to, type |-> p.type]}}
<1>1. PICK sent \in BOOLEAN :
        out' = Greeting(c, to, f, p) \cup (IF sent THEN {Send(c, to, Relayed(f, p))} ELSE {})
  BY DEF Forward
<1>2. p.type \in Type
  BY DEF Packet, Type
<1>3. \A o \in Greeting(c, to, f, p) : o.type \notin Type
  BY DEF Greeting, Binding, Type
<1>4. LET o == Send(c, to, Relayed(f, p)) IN
      o.session = c /\ o.to = to /\ o.type = p.type
  BY DEF Send, Relayed
<1>5. CASE sent
  <2>1. \A o \in out' : o.type \in Type => o = Send(c, to, Relayed(f, p))
    BY <1>1, <1>3, <1>5
  <2>2. Send(c, to, Relayed(f, p)) \in out'
    BY <1>1, <1>5
  <2>3. Passed' = {[session |-> c, to |-> to, type |-> p.type]}
    BY <1>2, <1>4, <2>1, <2>2 DEF Passed
  <2>. QED BY <2>3
<1>6. CASE ~sent
  <2>1. \A o \in out' : o.type \notin Type
    BY <1>1, <1>3, <1>6
  <2>. QED BY <2>1 DEF Passed
<1>. QED BY <1>5, <1>6

(* The cardinality of Relay's instance is the cardinality of Sessions. *)
LEMMA SameCardinality == \A S : R!Cardinality(S) = Cardinality(S)
BY DEF Cardinality, R!Cardinality

LEMMA PassStep ==
  ASSUME TypeOK, StampInv, NEW c \in Client, NEW e \in Entry, NEW p \in Packet,
         NEW from \in {"client", "server"}, NEW to \in {"client", "server"}, to # from,
         Forward(c, from, to, After(e, p, from, time), p),
         live' = live \cup {c}, Requested(c, p, Way(from)), Accepts(e, p, from, time),
         \/ e = entry[c] /\ c \in live
         \/ /\ c \notin live /\ e.handshaked = FALSE
            /\ from = "client" /\ p.type = "init" /\ Cardinality(live) < MaxClients
  PROVE  R!Next
<1>1. Passed' \in {{}, {[session |-> c, to |-> to, type |-> p.type]}}
  BY ForwardPasses, AfterType DEF TypeOK
<1>2. /\ \A d \in Client \ {c} : entry'[d] = entry[d]
      /\ p.type # "resp" => entry'[c].handshaked = e.handshaked
      /\ p.type = "resp" => entry'[c].handshaked = TRUE
  BY ForwardStamps
<1>3. e.handshaked = entry[c].handshaked
  <2>1. CASE e = entry[c] /\ c \in live
    BY <2>1
  <2>2. CASE c \notin live /\ e.handshaked = FALSE
    <3>1. entry[c] = Zeroed
      BY <2>2 DEF StampInv
    <3>2. Zeroed.handshaked = FALSE
      BY DEF Zeroed
    <3>. QED BY <2>2, <3>1, <3>2
  <2>. QED BY <2>1, <2>2
<1>4. p.type # "resp" => Open' = Open
  BY <1>2, <1>3 DEF Open
<1>5. requested' = [requested EXCEPT ![c] = IF p.type = "init" THEN {Way(from)} ELSE @]
  BY DEF Requested
<1>6. p.type # "init" => requested' = requested
  BY <1>5 DEF TypeOK
<1>7. CASE p.type = "init"
  <2>1. /\ R!Toward(Way(from)) = to
        /\ c \in live \/ (Way(from) = "C2S" /\ Cardinality(live) < MaxClients)
        /\ requested' = [requested EXCEPT ![c] = {Way(from)}]
    BY <1>5, <1>7 DEF R!Toward, Way
  <2>2. Open' = Open
    BY <1>4, <1>7
  <2>3. R!MayRelay(c, R!Toward(Way(from)), "init")
    BY <1>1, <1>7, <2>1 DEF R!MayRelay
  <2>4. R!Ask(c, Way(from))
    BY <2>1, <2>2, <2>3, SameCardinality DEF R!Ask
  <2>. QED BY <2>4 DEF R!Next, Way
<1>8. CASE p.type = "resp"
  <2>1. c \in live /\ e = entry[c] /\ AcceptsResp(entry[c], from, time)
    BY <1>8 DEF Accepts
  <2>2. PICK d \in {"C2S", "S2C"} : d = IF from = "client" THEN "S2C" ELSE "C2S"
    OBVIOUS
  <2>3. d \in requested[c]
    BY <2>1, <2>2, ResponseIsAsked
  <2>4. Open' = [Open EXCEPT ![c] = TRUE]
    BY <1>2, <1>8 DEF Open
  <2>5. R!Against(d) = to
    BY <2>2 DEF R!Against
  <2>6. R!Answer(c, d)
    BY <1>1, <1>6, <1>8, <2>1, <2>3, <2>4, <2>5 DEF R!Answer, R!MayRelay
  <2>. QED BY <2>6 DEF R!Next
<1>9. CASE p.type = "data"
  <2>1. c \in live /\ Open[c]
    BY <1>9 DEF Accepts, Open
  <2>2. R!Pass(c, to)
    BY <1>1, <1>4, <1>6, <1>9, <2>1 DEF R!Pass, R!MayRelay
  <2>. QED BY <2>2 DEF R!Next
<1>. QED BY <1>7, <1>8, <1>9 DEF Packet

LEMMA RelayInit == Init => R!Init
<1>. SUFFICES ASSUME Init PROVE R!Init
  OBVIOUS
<1>1. Static.handshaked = FALSE /\ Zeroed.handshaked = FALSE
  BY StaticType DEF Static, Zeroed, Entry
<1>2. Open = [c \in Client |-> FALSE]
  BY <1>1 DEF Init, Open
<1>3. Passed = {}
  BY DEF Init, Passed
<1>. QED BY <1>2, <1>3 DEF Init, R!Init

LEMMA RelayNext == TypeOK /\ TableSound /\ StampInv /\ [Next]_vars => [R!Next]_(R!vars)
<1>. SUFFICES ASSUME TypeOK, TableSound, StampInv, [Next]_vars PROVE [R!Next]_(R!vars)
  OBVIOUS
<1>1. ASSUME UNCHANGED <<live, entry, requested>>,
             \A o \in out' : o.to = "nobody" \/ o.type \notin Type
      PROVE  R!Next
  <2>1. Passed' = {}
    BY <1>1 DEF Passed
  <2>2. Open' = Open
    BY <1>1 DEF Open
  <2>. QED BY <1>1, <2>1, <2>2 DEF R!Next, R!Quiet
<1>2. ASSUME NEW c, NEW p, NEW events,
             \/ Tick \/ Interrupted \/ Wake(events) \/ ReadNothing(c)
             \/ DropFromClient(c, p) \/ DropFromServer(c, p)
             \/ ClientBinding(c) \/ ServerBinding(c)
      PROVE  R!Next
  <2>1. UNCHANGED <<live, entry, requested>>
    BY <1>2 DEF Tick, Interrupted, Wake, ReadNothing, DropFromClient, DropFromServer,
         ClientBinding, ServerBinding, Ignore
  <2>2. \A o \in out' : o.to = "nobody" \/ o.type \notin Type
    BY <1>2 DEF Tick, Interrupted, Wake, ReadNothing, DropFromClient, DropFromServer,
         ClientBinding, ServerBinding, Send, Binding, Type
  <2>. QED BY <1>1, <2>1, <2>2
<1>3. ASSUME NEW c \in Client, NEW p \in ClientPackets(c), FromClient(c, p) PROVE R!Next
  <2>1. p \in Packet
    BY DEF ClientPackets
  <2>2. ClientView(c, p) \in Entry
    BY <2>1, FreshType DEF ClientView, TypeOK
  <2>3. \/ ClientView(c, p) = entry[c] /\ c \in live
        \/ /\ c \notin live /\ ClientView(c, p).handshaked = FALSE
           /\ p.type = "init" /\ Cardinality(live) < MaxClients
    BY <1>3 DEF ClientView, Fresh, Zeroed, FromClient
  <2>4. /\ Forward(c, "client", "server", After(ClientView(c, p), p, "client", time), p)
        /\ live' = live \cup {c} /\ Requested(c, p, Way("client"))
        /\ Accepts(ClientView(c, p), p, "client", time)
    BY <1>3 DEF FromClient, Way
  <2>. QED BY <2>1, <2>2, <2>3, <2>4, PassStep
<1>4. ASSUME NEW c \in Client, NEW p \in ServerPackets, FromServer(c, p) PROVE R!Next
  <2>1. p \in Packet /\ entry[c] \in Entry
    BY DEF ServerPackets, TypeOK
  <2>2. c \in live /\ live' = live \cup {c}
    BY <1>4, TableAssumption DEF FromServer, Handle, TableSound
  <2>3. /\ Forward(c, "server", "client", After(entry[c], p, "server", time), p)
        /\ Requested(c, p, Way("server")) /\ Accepts(entry[c], p, "server", time)
    BY <1>4 DEF FromServer, Way
  <2>. QED BY <2>1, <2>2, <2>3, PassStep
<1>5. CASE EndBatch
  <2>1. CASE CleanupDue
    <3>. DEFINE S == {c \in Client : Expired(c)}
    <3>1. Cleanup
      BY <1>5, <2>1 DEF EndBatch
    <3>2. S \in SUBSET Client /\ S \subseteq live \ StaticClient /\ live' = live \ S
      BY <3>1 DEF Cleanup, Expired, TypeOK
    <3>3. requested' = [c \in Client |-> IF c \in S THEN {} ELSE requested[c]]
      BY <3>1 DEF Cleanup
    <3>4. Open' = [c \in Client |-> Open[c] /\ c \notin S]
      <4>1. ASSUME NEW c \in Client
            PROVE  entry'[c].handshaked = (entry[c].handshaked /\ c \notin S)
        <5>1. CASE c \in S
          BY <3>1, <5>1 DEF Cleanup, Zeroed
        <5>2. CASE c \notin S
          BY <3>1, <5>2 DEF Cleanup, TypeOK, Entry
        <5>. QED BY <5>1, <5>2
      <4>. QED BY <4>1 DEF Open
    <3>5. Passed' = {}
      <4>1. \A o \in out' : o.type \notin Type
        BY <3>1 DEF Cleanup, Pings, Binding, Type
      <4>. QED BY <4>1 DEF Passed
    <3>6. R!Close(S)
      BY <3>2, <3>3, <3>4, <3>5 DEF R!Close
    <3>. QED BY <3>2, <3>6 DEF R!Next
  <2>2. CASE ~CleanupDue
    BY <1>1, <1>5, <2>2 DEF EndBatch
  <2>. QED BY <2>1, <2>2
<1>6. CASE UNCHANGED vars
  BY <1>6 DEF vars, R!vars, Open, Passed
<1>. QED BY <1>2, <1>3, <1>4, <1>5, <1>6 DEF Next

(* Every step of the event loop is a step of Relay or leaves it unchanged: *)
(* nothing but a request is relayed before a request and its response were *)
(* seen in the same session, on either path and with zeroed static entries.*)
THEOREM SessionsImplementRelay == Spec => ImplementsRelay
<1>1. Init => TypeOK /\ TableSound /\ StampInv /\ R!Init
  BY TypeInit, TableInit, StampInit, RelayInit
<1>2. TypeOK /\ TableSound /\ StampInv /\ [Next]_vars => (TypeOK /\ TableSound /\ StampInv)'
  BY TypeNext, TableNext, StampNext
<1>. QED BY <1>1, <1>2, RelayNext, PTL DEF Spec, ImplementsRelay, R!Spec
=============================================================================
