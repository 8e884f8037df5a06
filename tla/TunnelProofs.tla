---------------------------- MODULE TunnelProofs ----------------------------
(***************************************************************************)
(* Theorems about Tunnel, for every number of sessions, source ports,      *)
(* messages in flight and faults.  What makes them true is that between    *)
(* these two obfuscators everything in flight is masked version 1, and so  *)
(* no session of either table ever leaves this form: Agreed, the inductive *)
(* invariant.  It needs C to configure the mask, and A and B to speak      *)
(* plain WireGuard.                                                        *)
(***************************************************************************)
EXTENDS Tunnel, FiniteSetTheorems, TLAPS

Fits(e) ==
  e \in C!Entry /\ e.masking_handler = "STUN" /\ e.version = 1 /\ e.client_clean = FALSE

(* What may be on the wire.                                                *)
InFlight(msgs) ==
  /\ msgs \subseteq Message /\ IsFiniteSet(msgs) /\ Cardinality(msgs) <= Capacity
  /\ \A m \in msgs : m.mask = TRUE /\ m.enc = "v1"

SidesAgree ==
  /\ c_live \in BOOLEAN /\ c_entry \in C!Entry /\ port \in 0 .. MaxFlows
  /\ s_live \subseteq Flow /\ s_entry \in [Flow -> C!Entry]
  /\ c_live => Fits(c_entry) /\ port \in Flow
  /\ \A f \in s_live : Fits(s_entry[f])
  /\ ~c_live => port < MaxFlows

PeersOK ==
  /\ owes \in [Peer -> {"none", "new", "old"}] /\ asking \subseteq Peer /\ key \subseteq Peer
  /\ endpoint \in 0 .. MaxFlows

CountsOK == mode \in Modes /\ faults \in 0 .. MaxFaults /\ reverse \in 0 .. MaxReverse

(* B's endpoint belongs to a session of S, and a static binding is there.  *)
Linked ==
  /\ reaches \in BOOLEAN /\ (reaches => endpoint \in s_live)
  /\ mode = "two-way" => c_live /\ port = 1 /\ 1 \in s_live

Agreed == SidesAgree /\ InFlight(wire) /\ PeersOK /\ Linked /\ CountsOK

(* What Up comes to in such a state.                                       *)
BothHandshaked ==
  /\ c_live /\ port \in s_live
  /\ c_entry.handshaked = TRUE /\ s_entry[port].handshaked = TRUE

Masked == {p \in C!Packet : p.mask = TRUE /\ p.enc = "v1"}
Unmasked == {p \in C!Packet : p.mask = FALSE /\ p.enc = "plain"}

----------------------------------------------------------------------------
(* The operators of ClientEntry on entries of this form.                   *)
LEMMA PlainPacket == ASSUME NEW kind \in Kind PROVE Plain(kind) \in Unmasked
BY DEF Plain, Seen, Kind, Unmasked, C!Packet

LEMMA CarriedPacket ==
  ASSUME NEW m \in Message, m.mask = TRUE, m.enc = "v1" PROVE Carried(m) \in Masked
BY DEF Carried, Seen, Kind, Masked, Message, C!Packet

LEMMA PutMessage ==
  ASSUME NEW dir \in {"up", "down"}, NEW f \in Flow, NEW kind \in Kind, NEW old \in BOOLEAN,
         NEW q \in Masked
  PROVE  /\ Put(dir, f, kind, old, q) \in Message
         /\ Put(dir, f, kind, old, q).mask = TRUE /\ Put(dir, f, kind, old, q).enc = "v1"
BY DEF Put, Message, Masked, C!Packet

LEMMA StaticFits == C!Zeroed \in C!Entry /\ Fits(C!Static) /\ Fits(S("two-way")!Static)
<1>1. C!Zeroed \in C!Entry
  BY DEF C!Zeroed, C!Entry, C!Handler, C!Direction, C!Version
<1>2. C!Zeroed.client_clean = FALSE
  BY DEF C!Zeroed
<1>3. Fits([C!Zeroed EXCEPT !.version = 1, !.masking_handler = "STUN"])
  <2>1. 1 \in C!Version /\ "STUN" \in C!Handler
    BY DEF C!Version, C!Handler
  <2>2. \A e \in C!Entry : e.client_clean = FALSE =>
          Fits([e EXCEPT !.version = 1, !.masking_handler = "STUN"])
    BY <2>1 DEF Fits, C!Entry
  <2>. QED BY <1>1, <1>2, <2>2, Zenon
<1>4. C!Static = [C!Zeroed EXCEPT !.version = 1, !.masking_handler = "STUN"]
  BY DEF C!Static, C!ConfiguredHandler
<1>5. S("two-way")!Static = [C!Zeroed EXCEPT !.version = 1, !.masking_handler = "STUN"]
  BY DEF S!Static, S!ConfiguredHandler, S!Zeroed, C!Zeroed
<1>. QED BY <1>1, <1>3, <1>4, <1>5

LEMMA FreshFits ==
  /\ \A p \in C!Packet : Fits(C!Fresh(p, Now))
  /\ \A m \in {"one-way", "two-way"}, p \in Masked : Fits(S(m)!Fresh(p, Now))
<1>. DEFINE new == [C!Zeroed EXCEPT !.version = 1, !.last_activity_time = Now,
                                    !.masking_handler = "STUN"]
<1>1. Fits(new)
  <2>1. C!Zeroed.client_clean = FALSE /\ Now \in Nat
    BY DEF C!Zeroed, Now
  <2>. QED BY <2>1, StaticFits DEF Fits, C!Entry, C!Handler, C!Version
<1>2. \A p \in C!Packet : C!Fresh(p, Now) = new
  BY DEF C!Fresh, C!ConfiguredHandler
<1>3. \A m \in {"one-way", "two-way"}, p \in Masked : S(m)!Fresh(p, Now) = new
  BY DEF S!Fresh, S!ConfiguredHandler, S!Zeroed, C!Zeroed, Masked
<1>. QED BY <1>1, <1>2, <1>3

(* A packet that is handled leaves an entry in this form, and handshaked   *)
(* if it was.                                                              *)
LEMMA DowngradedFits ==
  ASSUME NEW e, Fits(e), NEW p \in Masked \cup Unmasked
  PROVE  /\ C!Downgraded(e, p) = e
         /\ \A m : S(m)!Downgraded(e, p) = e
<1>1. e \in C!Entry /\ e.version = 1 /\ p.enc # "v0"
  BY DEF Fits, Masked, Unmasked
<1>2. [e EXCEPT !.version = IF p.enc = "v0" THEN 0 ELSE @] = e
  BY <1>1 DEF C!Entry
<1>. QED BY <1>2 DEF C!Downgraded, S!Downgraded

LEMMA InitFits ==
  ASSUME NEW e, Fits(e), NEW p \in Masked \cup Unmasked, NEW from \in {"client", "server"},
         NEW m \in {"one-way", "two-way"}, p \in Masked \/ from = "server"
  PROVE  /\ Fits(S(m)!AfterInit(e, p, from, Now))
         /\ S(m)!AfterInit(e, p, from, Now).handshaked = e.handshaked
<1>1. S(m)!Classified(e, p) = e \/ from = "server"
  <2>1. CASE p \in Masked
    <3>1. S(m)!Obfuscated(p)
      BY <2>1 DEF S!Obfuscated, Masked
    <3>2. [e EXCEPT !.client_clean = FALSE, !.masking_handler = e.masking_handler] = e
      BY DEF Fits, C!Entry
    <3>. QED BY <3>1, <3>2 DEF S!Classified
  <2>. QED BY <2>1
<1>2. S(m)!AfterInit(e, p, from, Now) =
        [e EXCEPT !.handshake_direction = IF from = "client" THEN "C2S" ELSE "S2C",
                  !.last_handshake_request_time = Now]
  BY <1>1 DEF S!AfterInit
<1>3. Now \in Nat
  BY DEF Now
<1>. QED BY <1>2, <1>3 DEF Fits, C!Entry, C!Direction
LEMMA CAfterFits ==
  ASSUME NEW e, Fits(e), NEW p \in Masked \cup Unmasked, NEW from \in {"client", "server"}
  PROVE  LET f == C!After(e, p, from, Now)
         IN  Fits(f) /\ (e.handshaked = TRUE => f.handshaked = TRUE)
                     /\ (p.type = "resp" => f.handshaked = TRUE)
<1>1. CASE p.type = "init"
  <2>1. C!AfterInit(e, p, from, Now) =
          [e EXCEPT !.handshake_direction = IF from = "client" THEN "C2S" ELSE "S2C",
                    !.last_handshake_request_time = Now]
    BY DEF C!AfterInit, C!Classified
  <2>2. Fits(C!AfterInit(e, p, from, Now))
        /\ C!AfterInit(e, p, from, Now).handshaked = e.handshaked
    <3>1. Now \in Nat
      BY DEF Now
    <3>. QED BY <2>1, <3>1 DEF Fits, C!Entry, C!Direction
  <2>. QED BY <1>1, <2>2, DowngradedFits DEF C!After
<1>2. CASE p.type = "resp"
  <2>. DEFINE a == IF from = "client" THEN C!Obfuscated(p) ELSE ~C!Obfuscated(p) /\ ~e.client_clean
              b == IF from = "client" THEN ~C!Obfuscated(p) ELSE C!Obfuscated(p)
  <2>1. a \in BOOLEAN /\ b \in BOOLEAN
    BY DEF C!Obfuscated, Masked, Unmasked, C!Packet, Fits, C!Entry
  <2>2. C!AfterResp(e, p, from) =
          [e EXCEPT !.handshaked = TRUE, !.client_obfuscated = a, !.server_obfuscated = b]
    BY DEF C!AfterResp
  <2>. HIDE DEF a, b
  <2>3. Fits(C!AfterResp(e, p, from)) /\ C!AfterResp(e, p, from).handshaked = TRUE
    BY <2>1, <2>2 DEF Fits, C!Entry
  <2>. QED BY <1>2, <2>3, DowngradedFits DEF C!After
<1>3. CASE p.type \notin {"init", "resp"}
  BY <1>3, DowngradedFits DEF C!After
<1>. QED BY <1>1, <1>2, <1>3

LEMMA SAfterFits ==
  ASSUME NEW e, Fits(e), NEW p \in Masked \cup Unmasked, NEW from \in {"client", "server"},
         NEW m \in {"one-way", "two-way"}, p \in Masked \/ from = "server"
  PROVE  LET f == S(m)!After(e, p, from, Now)
         IN  Fits(f) /\ (e.handshaked = TRUE => f.handshaked = TRUE)
                     /\ (p.type = "resp" => f.handshaked = TRUE)
<1>1. CASE p.type = "init"
  <2>1. Fits(S(m)!AfterInit(e, p, from, Now))
        /\ S(m)!AfterInit(e, p, from, Now).handshaked = e.handshaked
    BY InitFits
  <2>. QED BY <1>1, <2>1, DowngradedFits DEF S!After
<1>2. CASE p.type = "resp"
  <2>. DEFINE a == IF from = "client" THEN S(m)!Obfuscated(p)
                   ELSE ~S(m)!Obfuscated(p) /\ ~e.client_clean
              b == IF from = "client" THEN ~S(m)!Obfuscated(p) ELSE S(m)!Obfuscated(p)
  <2>1. a \in BOOLEAN /\ b \in BOOLEAN
    BY DEF S!Obfuscated, Masked, Unmasked, C!Packet, Fits, C!Entry
  <2>2. S(m)!AfterResp(e, p, from) =
          [e EXCEPT !.handshaked = TRUE, !.client_obfuscated = a, !.server_obfuscated = b]
    BY DEF S!AfterResp
  <2>. HIDE DEF a, b
  <2>3. Fits(S(m)!AfterResp(e, p, from)) /\ S(m)!AfterResp(e, p, from).handshaked = TRUE
    BY <2>1, <2>2 DEF Fits, C!Entry
  <2>. QED BY <1>2, <2>3, DowngradedFits DEF S!After
<1>3. CASE p.type \notin {"init", "resp"}
  BY <1>3, DowngradedFits DEF S!After
<1>. QED BY <1>1, <1>2, <1>3

(* What such an entry relays, and takes.                                   *)
LEMMA RelayedForm ==
  ASSUME NEW e, Fits(e), NEW m \in {"one-way", "two-way"}
  PROVE  /\ \A p \in Unmasked :
               /\ C!Relayed(e, p) = [mask |-> TRUE, enc |-> "v1", type |-> p.type]
               /\ S(m)!Relayed(e, p) = [mask |-> TRUE, enc |-> "v1", type |-> p.type]
         /\ \A p \in Masked :
               /\ C!Relayed(e, p) = [mask |-> FALSE, enc |-> "plain", type |-> p.type]
               /\ S(m)!Relayed(e, p) = [mask |-> FALSE, enc |-> "plain", type |-> p.type]
         /\ \A p \in Masked \cup Unmasked : C!Readable(e, p) /\ S(m)!Readable(e, p)
<1>. USE DEF Masked, Unmasked, C!Obfuscated, S!Obfuscated
<1>1. e.masking_handler = "STUN" /\ e.version = 1 /\ e.client_clean = FALSE
  BY DEF Fits
<1>2. ASSUME NEW p \in Unmasked
      PROVE  /\ C!Relayed(e, p) = [mask |-> TRUE, enc |-> "v1", type |-> p.type]
             /\ S(m)!Relayed(e, p) = [mask |-> TRUE, enc |-> "v1", type |-> p.type]
  <2>1. C!Encodes(e, p) /\ S(m)!Encodes(e, p)
    BY <1>1 DEF C!Encodes, S!Encodes
  <2>2. (e.masking_handler = "STUN") = TRUE
    BY <1>1
  <2>3. (IF e.version = 0 THEN "v0" ELSE "v1") = "v1"
    BY <1>1
  <2>. QED BY <2>1, <2>2, <2>3, Zenon DEF C!Relayed, S!Relayed
<1>3. ASSUME NEW p \in Masked
      PROVE  /\ C!Relayed(e, p) = [mask |-> FALSE, enc |-> "plain", type |-> p.type]
             /\ S(m)!Relayed(e, p) = [mask |-> FALSE, enc |-> "plain", type |-> p.type]
  <2>1. ~C!Encodes(e, p) /\ ~S(m)!Encodes(e, p)
    BY DEF C!Encodes, S!Encodes
  <2>. QED BY <2>1 DEF C!Relayed, S!Relayed
<1>4. ASSUME NEW p \in Masked \cup Unmasked PROVE C!Readable(e, p) /\ S(m)!Readable(e, p)
  BY <1>1 DEF C!Readable, S!Readable
<1>. QED BY <1>2, <1>3, <1>4

LEMMA MaskedPacket ==
  \A p \in Unmasked : [mask |-> TRUE, enc |-> "v1", type |-> p.type] \in Masked
BY DEF Unmasked, Masked, C!Packet

----------------------------------------------------------------------------
(* Sets of messages.                                                       *)
LEMMA AgedWire ==
  ASSUME InFlight(wire), Room, NEW w \in Peer
  PROVE  LET aged == {[m EXCEPT !.old = @ \/ OfHandshake(m, w)] : m \in wire}
         IN  InFlight(aged) /\ Cardinality(aged) < Capacity
<1>. DEFINE age(m) == [m EXCEPT !.old = @ \/ OfHandshake(m, w)]
            aged == {age(m) : m \in wire}
<1>1. [m \in wire |-> age(m)] \in Surjection(wire, aged)
  BY DEF Surjection
<1>2. IsFiniteSet(aged) /\ Cardinality(aged) <= Cardinality(wire)
  BY <1>1, FS_Surjection DEF InFlight
<1>3. Cardinality(aged) < Capacity
  BY <1>2, FS_CardinalityType, BoundsAssumption DEF InFlight, Room
<1>4. ASSUME NEW m \in wire PROVE age(m) \in Message /\ age(m).mask = TRUE /\ age(m).enc = "v1"
  <2>1. m \in Message /\ OfHandshake(m, w) \in BOOLEAN /\ m.mask = TRUE /\ m.enc = "v1"
    BY DEF OfHandshake, InFlight
  <2>2. (m.old \/ OfHandshake(m, w)) \in BOOLEAN
    BY <2>1
  <2>. QED BY <2>1, <2>2 DEF Message
<1>. HIDE DEF age
<1>5. aged \subseteq Message /\ \A x \in aged : x.mask = TRUE /\ x.enc = "v1"
  BY <1>4
<1>6. Cardinality(aged) \in Nat
  BY <1>2, FS_CardinalityType
<1>7. InFlight(aged)
  BY <1>2, <1>3, <1>5, <1>6, BoundsAssumption DEF InFlight
<1>. QED BY <1>3, <1>7 DEF age

LEMMA Added ==
  ASSUME NEW rest, InFlight(rest), Cardinality(rest) < Capacity,
         NEW x \in Message, x.mask = TRUE, x.enc = "v1"
  PROVE  InFlight(rest \cup {x})
<1>1. /\ IsFiniteSet(rest \cup {x})
      /\ Cardinality(rest \cup {x}) =
           IF x \in rest THEN Cardinality(rest) ELSE Cardinality(rest) + 1
  BY FS_AddElement DEF InFlight
<1>2. Cardinality(rest) \in Nat
  BY FS_CardinalityType DEF InFlight
<1>. QED BY <1>1, <1>2, BoundsAssumption DEF InFlight

LEMMA Removed ==
  ASSUME NEW rest, InFlight(rest), NEW x PROVE InFlight(rest \ {x})
<1>1. /\ IsFiniteSet(rest \ {x})
      /\ Cardinality(rest \ {x}) = IF x \in rest THEN Cardinality(rest) - 1 ELSE Cardinality(rest)
  BY FS_RemoveElement DEF InFlight
<1>2. Cardinality(rest) \in Nat
  BY FS_CardinalityType DEF InFlight
<1>. QED BY <1>1, <1>2, BoundsAssumption DEF InFlight

----------------------------------------------------------------------------
(* The handlers.                                                           *)
SidesKept == /\ SidesAgree' /\ InFlight(wire') /\ (BothHandshaked => BothHandshaked')
             /\ s_live \subseteq s_live' /\ (c_live => c_live' /\ port' = port)

LEMMA ModeType == Agreed => mode \in {"one-way", "two-way"}
BY ModesAssumption DEF Agreed, CountsOK

LEMMA FromAKeeps ==
  ASSUME Agreed, NEW kind \in Kind, NEW old \in BOOLEAN, NEW rest, InFlight(rest),
         Cardinality(rest) < Capacity, FromA(kind, old, rest), UNCHANGED side_s
  PROVE  SidesKept
<1>. DEFINE p == Plain(kind)
            e == C!After(CView(p), p, "client", Now)
<1>0. p \in Unmasked /\ p \in C!Packet
  BY PlainPacket DEF Unmasked
<1>1. CASE CTakes(p)
  <2>1. Fits(CView(p))
    BY <1>0, FreshFits DEF CView, Agreed, SidesAgree
  <2>2. Fits(e) /\ (CView(p).handshaked = TRUE => e.handshaked = TRUE)
    BY <1>0, <2>1, CAfterFits
  <2>3. Leaving \in Flow /\ Leaving \in 0 .. MaxFlows
    BY BoundsAssumption DEF Leaving, Agreed, SidesAgree, Flow
  <2>4. C!Relayed(e, p) \in Masked
    BY <1>0, <2>2, ModeType, RelayedForm, MaskedPacket
  <2>5. /\ c_live' = TRUE /\ c_entry' = e /\ port' = Leaving
        /\ wire' = rest \cup {Put("up", Leaving, kind, old, C!Relayed(e, p))}
    BY <1>1 DEF FromA
  <2>. HIDE DEF e, p
  <2>6. InFlight(wire')
    BY <2>3, <2>4, <2>5, PutMessage, Added
  <2>7. SidesAgree'
    BY <2>2, <2>3, <2>5 DEF Agreed, SidesAgree, side_s, Fits
  <2>8. BothHandshaked => BothHandshaked'
    <3>1. c_live => CView(p) = c_entry /\ Leaving = port
      BY DEF CView, Leaving
    <3>. QED BY <2>2, <2>5, <3>1 DEF BothHandshaked, side_s
  <2>. QED BY <2>5, <2>6, <2>7, <2>8 DEF SidesKept, side_s, Leaving
<1>2. CASE ~CTakes(p)
  <2>1. UNCHANGED <<side_c, side_s>> /\ wire' = rest
    BY <1>2 DEF FromA
  <2>. QED BY <2>1 DEF SidesKept, Agreed, SidesAgree, BothHandshaked, side_c, side_s
<1>. QED BY <1>1, <1>2

LEMMA FromBKeeps ==
  ASSUME Agreed, NEW kind \in Kind, NEW old \in BOOLEAN, NEW rest, InFlight(rest),
         Cardinality(rest) < Capacity, FromB(kind, old, rest), UNCHANGED side_c
  PROVE  SidesKept
<1>. DEFINE p == Plain(kind)
            e == S(mode)!After(s_entry[endpoint], p, "server", Now)
            takes == reaches /\ S(mode)!Accepts(s_entry[endpoint], p, "server", Now)
<1>0. p \in Unmasked
  BY PlainPacket
<1>1. CASE takes
  <2>1. Fits(s_entry[endpoint]) /\ endpoint \in Flow
    BY <1>1 DEF Agreed, SidesAgree, Linked
  <2>2. Fits(e) /\ (s_entry[endpoint].handshaked = TRUE => e.handshaked = TRUE)
    BY <1>0, <2>1, ModeType, SAfterFits
  <2>3. S(mode)!Relayed(e, p) \in Masked
    BY <1>0, <2>2, ModeType, RelayedForm, MaskedPacket
  <2>4. /\ s_entry' = [s_entry EXCEPT ![endpoint] = e] /\ UNCHANGED s_live
        /\ wire' = rest \cup {Put("down", endpoint, kind, old, S(mode)!Relayed(e, p))}
    BY <1>1 DEF FromB
  <2>. HIDE DEF e, p
  <2>5. InFlight(wire')
    BY <2>1, <2>3, <2>4, PutMessage, Added
  <2>6. SidesAgree'
    BY <2>1, <2>2, <2>4 DEF Agreed, SidesAgree, side_c, Fits
  <2>7. BothHandshaked => BothHandshaked'
    BY <2>2, <2>4 DEF Agreed, SidesAgree, BothHandshaked, side_c
  <2>. QED BY <2>4, <2>5, <2>6, <2>7 DEF SidesKept, side_c
<1>2. CASE ~takes
  <2>1. UNCHANGED <<side_c, side_s>> /\ wire' = rest
    BY <1>2 DEF FromB
  <2>. QED BY <2>1 DEF SidesKept, Agreed, SidesAgree, BothHandshaked, side_c, side_s
<1>. QED BY <1>1, <1>2

LEMMA EmitKeeps ==
  ASSUME Agreed, NEW w \in Peer, NEW kind \in Kind, NEW old \in BOOLEAN, NEW rest,
         InFlight(rest), Cardinality(rest) < Capacity, Emit(w, kind, old, rest)
  PROVE  SidesKept
BY FromAKeeps, FromBKeeps DEF Emit

LEMMA DeliverUpKeeps ==
  ASSUME Agreed, NEW m \in wire, DeliverUp(m)
  PROVE  SidesKept
<1>. DEFINE p == Carried(m)
            f == m.flow
            e == S(mode)!After(SView(f, p), p, "client", Now)
<1>0. p \in Masked /\ f \in Flow /\ UNCHANGED side_c
  BY CarriedPacket DEF Agreed, InFlight, DeliverUp, Message
<1>1. InFlight(wire')
  BY Removed DEF Agreed, DeliverUp
<1>2. CASE STakes(f, p)
  <2>1. Fits(SView(f, p))
    BY <1>0, FreshFits, ModeType DEF SView, Agreed, SidesAgree
  <2>2. Fits(e) /\ (SView(f, p).handshaked = TRUE => e.handshaked = TRUE)
    BY <1>0, <2>1, ModeType, SAfterFits
  <2>3. s_live' = s_live \cup {f} /\ s_entry' = [s_entry EXCEPT ![f] = e]
    BY <1>2 DEF DeliverUp
  <2>. HIDE DEF e, f, p
  <2>4. SidesAgree'
    BY <1>0, <2>2, <2>3 DEF Agreed, SidesAgree, side_c, Fits
  <2>5. BothHandshaked => BothHandshaked'
    BY <1>0, <2>2, <2>3 DEF Agreed, SidesAgree, BothHandshaked, side_c, SView
  <2>. QED BY <1>0, <1>1, <2>3, <2>4, <2>5 DEF SidesKept, side_c
<1>3. CASE ~STakes(f, p)
  <2>1. UNCHANGED side_s
    BY <1>3 DEF DeliverUp
  <2>. QED BY <1>0, <1>1, <2>1 DEF SidesKept, Agreed, SidesAgree, BothHandshaked, side_c, side_s
<1>. QED BY <1>2, <1>3

LEMMA DeliverDownKeeps ==
  ASSUME Agreed, NEW m \in wire, DeliverDown(m)
  PROVE  SidesKept
<1>. DEFINE p == Carried(m)
            e == C!After(c_entry, p, "server", Now)
            takes == c_live /\ m.flow = port /\ C!Accepts(c_entry, p, "server", Now)
<1>0. p \in Masked /\ UNCHANGED <<c_live, port, side_s>>
  BY CarriedPacket DEF Agreed, InFlight, DeliverDown
<1>1. InFlight(wire')
  BY Removed DEF Agreed, DeliverDown
<1>2. CASE takes
  <2>1. Fits(c_entry)
    BY <1>2 DEF Agreed, SidesAgree
  <2>2. Fits(e) /\ (c_entry.handshaked = TRUE => e.handshaked = TRUE)
    BY <1>0, <2>1, CAfterFits
  <2>3. c_entry' = e
    BY <1>2 DEF DeliverDown
  <2>. HIDE DEF e, p
  <2>4. SidesAgree'
    BY <1>0, <2>2, <2>3 DEF Agreed, SidesAgree, side_s, Fits
  <2>5. BothHandshaked => BothHandshaked'
    BY <1>0, <2>2, <2>3 DEF BothHandshaked, side_s
  <2>. QED BY <1>0, <1>1, <2>4, <2>5 DEF SidesKept, side_s
<1>3. CASE ~takes
  <2>1. UNCHANGED c_entry
    BY <1>3 DEF DeliverDown
  <2>. QED BY <1>0, <1>1, <2>1 DEF SidesKept, Agreed, SidesAgree, BothHandshaked, side_s
<1>. QED BY <1>2, <1>3
----------------------------------------------------------------------------
(* Agreed is inductive, and without a fault nobody's handshake is undone.  *)
Kept == Agreed' /\ (BothHandshaked /\ faults' = faults => BothHandshaked')

LEMMA BoundFits ==
  ASSUME mode \in {"one-way", "two-way"}
  PROVE  /\ Bound \subseteq Flow /\ Restarted \in [Flow -> C!Entry]
         /\ \A f \in Bound : Fits(Restarted[f])
<1>1. 1 \in Flow
  BY BoundsAssumption DEF Flow
<1>2. C!Zeroed \in C!Entry /\ Fits(S("two-way")!Static) /\ S("two-way")!Static \in C!Entry
  BY StaticFits DEF Fits
<1>3. CASE mode = "two-way"
  <2>1. S(mode)!Static = S("two-way")!Static
    BY <1>3
  <2>. QED BY <1>1, <1>2, <1>3, <2>1 DEF Bound, Restarted
<1>4. CASE mode = "one-way"
  BY <1>2, <1>4 DEF Bound, Restarted
<1>. QED BY <1>3, <1>4

LEMMA InitAgreed == Init => Agreed
<1>. SUFFICES ASSUME Init PROVE Agreed
  OBVIOUS
<1>1. mode \in {"one-way", "two-way"}
  BY ModesAssumption DEF Init
<1>2. SidesAgree
  <2>1. MaxFlows \in Nat \ {0}
    BY BoundsAssumption
  <2>2. s_live \subseteq Flow /\ s_entry \in [Flow -> C!Entry] /\ \A f \in s_live : Fits(s_entry[f])
    BY <1>1, BoundFits DEF Init
  <2>3. CASE mode = "two-way"
    <3>1. c_live = TRUE /\ c_entry = C!Static /\ port = 1
      BY <2>3 DEF Init
    <3>. QED BY <2>1, <2>2, <3>1, StaticFits DEF SidesAgree, Flow, Fits
  <2>4. CASE mode = "one-way"
    <3>1. c_live = FALSE /\ c_entry = C!Zeroed /\ port = 0
      BY <2>4 DEF Init
    <3>2. port \in 0 .. MaxFlows /\ port < MaxFlows
      BY <2>1, <3>1
    <3>3. c_live \in BOOLEAN /\ ~c_live /\ c_entry \in C!Entry
      BY <3>1, StaticFits
    <3>. QED BY <2>2, <3>2, <3>3, Zenon DEF SidesAgree
  <2>. QED BY <1>1, <2>3, <2>4
<1>3. InFlight(wire)
  BY FS_EmptySet, BoundsAssumption DEF Init, InFlight
<1>4. PeersOK /\ CountsOK
  BY BoundsAssumption DEF Init, PeersOK, CountsOK
<1>5. Linked
  <2>1. /\ reaches = (mode = "two-way") /\ endpoint = (IF mode = "two-way" THEN 1 ELSE 0)
        /\ s_live = (IF mode = "two-way" THEN {1} ELSE {})
        /\ c_live = (mode = "two-way") /\ port = (IF mode = "two-way" THEN 1 ELSE 0)
    BY DEF Init, Bound
  <2>2. CASE mode = "two-way"
    BY <2>1, <2>2 DEF Linked
  <2>3. CASE mode # "two-way"
    BY <2>1, <2>3 DEF Linked
  <2>. QED BY <2>2, <2>3
<1>. QED BY <1>2, <1>3, <1>4, <1>5 DEF Agreed

LEMMA FaultCounts ==
  ASSUME Agreed, Fault PROVE faults' \in 0 .. MaxFaults /\ faults' # faults
BY BoundsAssumption DEF Agreed, CountsOK, Fault

LEMMA ReceivesKeeps ==
  ASSUME Agreed, NEW w \in Peer, NEW m \in Message, NEW q, Receives(w, m, q)
  PROVE  /\ PeersOK' /\ reaches' \in BOOLEAN
         /\ (endpoint' = endpoint /\ reaches' = reaches) \/ (w = "B" /\ endpoint' = m.flow)
<1>. DEFINE valid == q.enc = "plain" /\ ~q.mask /\ ~m.old
<1>1. m.flow \in 0 .. MaxFlows
  BY BoundsAssumption DEF Message, Flow
<1>2. /\ owes' = [owes EXCEPT ![w] = IF valid /\ m.kind = "init" THEN "new" ELSE @]
      /\ asking' \in {asking, asking \ {w}} /\ key' \in {key, key \cup {w}}
      /\ endpoint' \in {endpoint, m.flow}
  BY DEF Receives
<1>3. reaches' \in BOOLEAN
      /\ ((endpoint' = endpoint /\ reaches' = reaches) \/ (w = "B" /\ endpoint' = m.flow))
  <2>. DEFINE roams == w = "B" /\ valid /\ m.kind # "cookie"
  <2>1. endpoint' = (IF roams THEN m.flow ELSE endpoint) /\ reaches' = (reaches \/ roams)
    BY DEF Receives
  <2>2. CASE roams
    BY <2>1, <2>2
  <2>3. CASE ~roams
    BY <2>1, <2>3 DEF Agreed, Linked
  <2>. QED BY <2>2, <2>3
<1>. HIDE DEF valid
<1>. QED BY <1>1, <1>2, <1>3 DEF Agreed, PeersOK

(* B's endpoint stays with its session as long as no session goes.         *)
LEMMA LinkedKept ==
  ASSUME Agreed, SidesKept, UNCHANGED <<mode, endpoint, reaches>> PROVE Linked'
BY DEF Agreed, Linked, SidesKept

LEMMA InitiateKept == ASSUME Agreed, NEW w \in Peer, Initiate(w) PROVE Kept
<1>. DEFINE aged == {[m EXCEPT !.old = @ \/ OfHandshake(m, w)] : m \in wire}
<1>1. InFlight(aged) /\ Cardinality(aged) < Capacity
  BY AgedWire DEF Agreed, Initiate
<1>2. Emit(w, "init", FALSE, aged)
  BY DEF Initiate
<1>. HIDE DEF aged
<1>3. SidesKept
  BY <1>1, <1>2, EmitKeeps DEF Kind
<1>4. faults' \in 0 .. MaxFaults
  BY FaultCounts DEF Initiate, Agreed, CountsOK
<1>5. reverse' \in 0 .. MaxReverse
  BY BoundsAssumption DEF Initiate, Agreed, CountsOK
<1>6. PeersOK'
  <2>1. Other(w) \in Peer
    BY DEF Other, Peer
  <2>2. /\ owes' = [owes EXCEPT ![Other(w)] = IF @ = "new" THEN "old" ELSE @]
        /\ asking' = asking \cup {w} /\ UNCHANGED <<key, endpoint>>
    BY DEF Initiate
  <2>. QED BY <2>1, <2>2 DEF Agreed, PeersOK
<1>7. mode' = mode /\ Linked'
  BY <1>3, LinkedKept DEF Initiate
<1>. QED BY <1>3, <1>4, <1>5, <1>6, <1>7 DEF Kept, SidesKept, Agreed, CountsOK

LEMMA RespondKept ==
  ASSUME Agreed, NEW w \in Peer, Respond(w) \/ RespondUnderLoad(w) PROVE Kept
<1>1. InFlight(wire) /\ Cardinality(wire) < Capacity
  BY DEF Agreed, Respond, RespondUnderLoad, Room
<1>2. SidesKept
  <2>1. CASE Respond(w)
    BY <1>1, <2>1, EmitKeeps DEF Respond, Kind
  <2>2. CASE RespondUnderLoad(w)
    BY <1>1, <2>2, EmitKeeps DEF RespondUnderLoad, Kind
  <2>. QED BY <2>1, <2>2
<1>3. /\ owes' = [owes EXCEPT ![w] = "none"]
      /\ UNCHANGED <<mode, asking, key, endpoint, reaches, reverse>>
  BY DEF Respond, RespondUnderLoad
<1>4. faults' \in 0 .. MaxFaults
  BY FaultCounts DEF Respond, RespondUnderLoad, Agreed, CountsOK
<1>5. PeersOK' /\ CountsOK' /\ Linked'
  BY <1>2, <1>3, <1>4, LinkedKept DEF Agreed, PeersOK, CountsOK
<1>. QED BY <1>2, <1>5 DEF Kept, SidesKept, Agreed

LEMMA SendDataKept == ASSUME Agreed, NEW w \in Peer, SendData(w) PROVE Kept
<1>1. InFlight(wire) /\ Cardinality(wire) < Capacity /\ Emit(w, "data", FALSE, wire)
  BY DEF Agreed, SendData, Room
<1>2. SidesKept
  BY <1>1, EmitKeeps DEF Kind
<1>3. Linked'
  BY <1>2, LinkedKept DEF SendData, peers
<1>. QED BY <1>2, <1>3 DEF Kept, SidesKept, SendData, Agreed, PeersOK, CountsOK, peers

LEMMA DeliverKept ==
  ASSUME Agreed, NEW m \in wire, DeliverUp(m) \/ DeliverDown(m) PROVE Kept
<1>1. SidesKept
  BY DeliverUpKeeps, DeliverDownKeeps
<1>2. m \in Message
  BY DEF Agreed, InFlight
<1>5. mode' = mode
  BY DEF DeliverUp, DeliverDown
<1>3. PeersOK' /\ Linked'
  <2>1. CASE UNCHANGED peers
    BY <1>1, <1>5, <2>1, LinkedKept DEF Agreed, PeersOK, peers
  <2>2. ASSUME NEW q, Receives("B", m, q), m.flow \in s_live' PROVE PeersOK' /\ Linked'
    BY <1>1, <1>2, <2>2, <1>5, ReceivesKeeps DEF Peer, Agreed, Linked, SidesKept
  <2>3. ASSUME NEW q, Receives("A", m, q) PROVE PeersOK' /\ Linked'
    BY <1>1, <1>2, <1>5, <2>3, ReceivesKeeps, LinkedKept DEF Peer
  <2>4. CASE DeliverUp(m)
    BY <2>1, <2>2, <2>4 DEF DeliverUp
  <2>5. CASE DeliverDown(m)
    BY <2>1, <2>3, <2>5 DEF DeliverDown
  <2>. QED BY <2>4, <2>5
<1>4. CountsOK'
  BY DEF DeliverUp, DeliverDown, Agreed, CountsOK
<1>. QED BY <1>1, <1>3, <1>4 DEF Kept, SidesKept, Agreed

LEMMA NetworkKept ==
  ASSUME Agreed, NEW m \in wire, Lose(m) \/ Duplicate(m) PROVE Kept
<1>1. InFlight(wire')
  <2>1. CASE Lose(m)
    BY <2>1, Removed DEF Lose, Agreed
  <2>2. CASE Duplicate(m)
    <3>1. /\ [m EXCEPT !.old = TRUE] \in Message
          /\ [m EXCEPT !.old = TRUE].mask = TRUE /\ [m EXCEPT !.old = TRUE].enc = "v1"
      BY DEF Agreed, InFlight, Message
    <3>2. wire' = wire \cup {[m EXCEPT !.old = TRUE]} /\ Cardinality(wire) < Capacity
      BY <2>2 DEF Duplicate, Room
    <3>. QED BY <3>1, <3>2, Added DEF Agreed
  <2>. QED BY <2>1, <2>2
<1>2. UNCHANGED <<mode, side_c, side_s, peers, reverse>>
  BY DEF Lose, Duplicate
<1>3. faults' \in 0 .. MaxFaults
  BY FaultCounts DEF Lose, Duplicate, Agreed, CountsOK
<1>4. SidesAgree' /\ (BothHandshaked => BothHandshaked')
  BY <1>2 DEF Agreed, SidesAgree, BothHandshaked, side_c, side_s
<1>5. PeersOK' /\ CountsOK' /\ Linked'
  BY <1>2, <1>3 DEF Agreed, PeersOK, CountsOK, Linked, peers, side_c, side_s
<1>. QED BY <1>1, <1>4, <1>5 DEF Kept, Agreed

LEMMA FaultsKept ==
  ASSUME Agreed, CForgets \/ SRestarts \/ CTimesOut PROVE Kept
<1>1. faults' \in 0 .. MaxFaults /\ faults' # faults
  BY FaultCounts DEF CForgets, SRestarts, CTimesOut
<1>2. UNCHANGED <<mode, port, wire, owes, asking, key, endpoint, reverse>>
  BY DEF CForgets, SRestarts, CTimesOut, side_c, peers
<1>3. SidesAgree'
  <2>1. CASE CForgets
    <3>1. CASE mode = "two-way"
      <4>1. c_live /\ c_entry' = C!Static /\ UNCHANGED <<c_live, port, side_s>>
        BY <2>1, <3>1 DEF CForgets
      <4>2. Fits(C!Static) /\ C!Static \in C!Entry
        BY StaticFits DEF Fits
      <4>. QED BY <4>1, <4>2 DEF Agreed, SidesAgree, side_s, Fits
    <3>2. CASE mode # "two-way"
      <4>1. c_entry' = C!Zeroed /\ c_live' = FALSE /\ port < MaxFlows /\ UNCHANGED <<port, side_s>>
        BY <2>1, <3>2 DEF CForgets
      <4>2. C!Zeroed \in C!Entry
        BY StaticFits
      <4>. QED BY <4>1, <4>2 DEF Agreed, SidesAgree, side_s, Fits
    <3>. QED BY <3>1, <3>2
  <2>2. CASE SRestarts
    <3>1. s_live' = Bound /\ s_entry' = Restarted /\ UNCHANGED side_c
      BY <2>2 DEF SRestarts
    <3>. QED BY <3>1, ModeType, BoundFits DEF Agreed, SidesAgree, side_c, Fits
  <2>3. CASE CTimesOut
    <3>1. /\ c_live /\ UNCHANGED <<c_live, port, side_s>>
          /\ c_entry' = [c_entry EXCEPT !.last_handshake_request_time = 0]
      BY <2>3 DEF CTimesOut
    <3>2. Fits(c_entry')
      BY <3>1 DEF Agreed, SidesAgree, Fits, C!Entry
    <3>. QED BY <3>1, <3>2 DEF Agreed, SidesAgree, side_s, Fits
  <2>. QED BY <2>1, <2>2, <2>3
<1>4. InFlight(wire')
  BY <1>2 DEF Agreed
<1>5. PeersOK' /\ CountsOK'
  BY <1>1, <1>2 DEF Agreed, PeersOK, CountsOK
<1>6. Linked'
  <2>1. CASE UNCHANGED <<s_live, endpoint, reaches>> /\ (mode = "two-way" => c_live' = c_live)
    BY <1>2, <2>1 DEF Agreed, Linked
  <2>2. CASE SRestarts
    <3>1. s_live' = Bound /\ reaches' = (reaches /\ endpoint \in Bound)
          /\ UNCHANGED <<endpoint, c_live>>
      BY <2>2 DEF SRestarts, side_c
    <3>2. reaches' \in BOOLEAN /\ (reaches' => endpoint' \in s_live')
      BY <3>1 DEF Agreed, Linked
    <3>3. mode' = "two-way" => c_live' /\ port' = 1 /\ 1 \in s_live'
      BY <1>2, <3>1 DEF Agreed, Linked, Bound
    <3>. QED BY <3>2, <3>3, Zenon DEF Linked
  <2>. QED BY <2>1, <2>2 DEF CForgets, CTimesOut, side_s, peers
<1>. QED BY <1>1, <1>3, <1>4, <1>5, <1>6 DEF Kept, Agreed

LEMMA SessionTimeKept ==
  ASSUME Agreed, NEW f \in Flow, SExpires(f) \/ STimesOut(f) PROVE Kept
<1>1. faults' \in 0 .. MaxFaults /\ (faults' # faults \/ (SExpires(f) /\ Deserted(f)))
  <2>1. CASE Fault
    BY <2>1, FaultCounts
  <2>2. CASE ~Fault
    BY <2>2 DEF SExpires, STimesOut, Agreed, CountsOK
  <2>. QED BY <2>1, <2>2
<1>2. UNCHANGED <<mode, side_c, wire, owes, asking, key, endpoint, reverse>> /\ f \in s_live
  BY DEF SExpires, STimesOut, peers
<1>3. SidesAgree'
  <2>1. CASE SExpires(f)
    <3>1. s_live' = s_live \ {f} /\ s_entry' = [s_entry EXCEPT ![f] = C!Zeroed]
      BY <2>1 DEF SExpires
    <3>. QED BY <1>2, <3>1, StaticFits DEF Agreed, SidesAgree, side_c, Fits
  <2>2. CASE STimesOut(f)
    <3>. DEFINE e == [s_entry[f] EXCEPT !.last_handshake_request_time = 0]
    <3>1. UNCHANGED s_live /\ s_entry' = [s_entry EXCEPT ![f] = e]
      BY <2>2 DEF STimesOut
    <3>2. Fits(e) /\ e \in C!Entry
      BY <1>2 DEF Agreed, SidesAgree, Fits, C!Entry
    <3>. HIDE DEF e
    <3>. QED BY <1>2, <3>1, <3>2 DEF Agreed, SidesAgree, side_c, Fits
  <2>. QED BY <2>1, <2>2
<1>4. InFlight(wire')
  BY <1>2 DEF Agreed
<1>5. BothHandshaked /\ faults' = faults => BothHandshaked'
  <2>. SUFFICES ASSUME BothHandshaked, faults' = faults PROVE BothHandshaked'
    OBVIOUS
  <2>1. c_live /\ port \in s_live /\ f # port
    BY <1>1 DEF BothHandshaked, Deserted
  <2>2. port \in s_live' /\ s_entry'[port] = s_entry[port]
    BY <1>1, <2>1 DEF SExpires, Agreed, SidesAgree
  <2>. QED BY <1>2, <2>1, <2>2 DEF BothHandshaked, side_c
<1>6. PeersOK' /\ CountsOK'
  BY <1>1, <1>2 DEF Agreed, PeersOK, CountsOK
<1>7. Linked'
  <2>1. CASE SExpires(f)
    <3>1. s_live' = s_live \ {f} /\ reaches' = (reaches /\ f # endpoint) /\ endpoint' = endpoint
          /\ f \notin Bound
      BY <2>1 DEF SExpires
    <3>2. reaches' => reaches /\ f # endpoint
      BY <3>1
    <3>3. reaches' \in BOOLEAN
      BY <3>1 DEF Agreed, Linked
    <3>. QED BY <1>2, <3>1, <3>2, <3>3 DEF Agreed, Linked, Bound, side_c
  <2>2. CASE STimesOut(f)
    BY <1>2, <2>2 DEF STimesOut, peers, side_c, Agreed, Linked
  <2>. QED BY <2>1, <2>2
<1>. QED BY <1>3, <1>4, <1>5, <1>6, <1>7 DEF Kept, Agreed

LEMMA NextKept == Agreed /\ [Next]_vars => Kept
<1>1. ASSUME Agreed, UNCHANGED vars PROVE Kept
  BY <1>1 DEF Kept, Agreed, SidesAgree, PeersOK, Linked, CountsOK, BothHandshaked, vars
<1>2. ASSUME Agreed, Next PROVE Kept
  BY <1>2, InitiateKept, RespondKept, SendDataKept, DeliverKept, NetworkKept, FaultsKept,
     SessionTimeKept DEF Next
<1>. QED BY <1>1, <1>2

LEMMA AlwaysAgreed == Spec => []Agreed
<1>1. Agreed /\ [Next]_vars => Agreed'
  BY NextKept DEF Kept
<1>. QED BY <1>1, InitAgreed, PTL DEF Spec

----------------------------------------------------------------------------
(* What Agreed means for the properties.                                   *)
LEMMA DataFits ==
  ASSUME mode \in {"one-way", "two-way"}, NEW ce, Fits(ce), NEW se, Fits(se)
  PROVE  DataPasses(ce, se) <=> (ce.handshaked = TRUE /\ se.handshaked = TRUE)
<1>. DEFINE data == Plain("data")
            sent == [mask |-> TRUE, enc |-> "v1", type |-> "data"]
<1>1. data \in Unmasked /\ data.type = "data"
  BY PlainPacket DEF Kind, Plain, Seen
<1>2. sent \in Masked /\ sent.type = "data"
  BY <1>1, MaskedPacket
<1>3. C!Relayed(ce, data) = sent /\ S(mode)!Relayed(se, data) = sent
  BY <1>1, RelayedForm
<1>4. /\ C!Readable(ce, data) /\ S(mode)!Readable(se, data)
      /\ C!Readable(ce, sent) /\ S(mode)!Readable(se, sent)
  BY <1>1, <1>2, RelayedForm
<1>5. ce.handshaked \in BOOLEAN /\ se.handshaked \in BOOLEAN
  BY DEF Fits, C!Entry
<1>. HIDE DEF data, sent
<1>6. /\ C!Accepts(ce, data, "client", Now) <=> ce.handshaked = TRUE
      /\ C!Accepts(ce, sent, "server", Now) <=> ce.handshaked = TRUE
  BY <1>1, <1>2, <1>4, <1>5 DEF C!Accepts
<1>7. /\ S(mode)!Accepts(se, sent, "client", Now) <=> se.handshaked = TRUE
      /\ S(mode)!Accepts(se, data, "server", Now) <=> se.handshaked = TRUE
  BY <1>1, <1>2, <1>4, <1>5 DEF S!Accepts
<1>. QED BY <1>3, <1>6, <1>7 DEF DataPasses, data

LEMMA UpMeans == Agreed => (Up <=> BothHandshaked)
<1>. SUFFICES ASSUME Agreed PROVE Up <=> BothHandshaked
  OBVIOUS
<1>1. CASE c_live /\ port \in s_live
  <2>1. Fits(c_entry) /\ Fits(s_entry[port])
    BY <1>1 DEF Agreed, SidesAgree
  <2>. QED BY <1>1, <2>1, ModeType, DataFits DEF Up, BothHandshaked
<1>2. CASE ~(c_live /\ port \in s_live)
  BY <1>2 DEF Up, BothHandshaked
<1>. QED BY <1>1, <1>2

LEMMA AgreedTypes == Agreed => TypeOK
BY DEF Agreed, SidesAgree, InFlight, PeersOK, Linked, CountsOK, TypeOK

(* After a request the session waits for the answer from the other side.   *)
LEMMA InitWaits ==
  ASSUME NEW e, Fits(e), NEW p \in Masked \cup Unmasked, p.type = "init",
         NEW m \in {"one-way", "two-way"}
  PROVE  /\ C!AcceptsResp(C!After(e, p, "client", Now), "server", Now)
         /\ p \in Masked => S(m)!AcceptsResp(S(m)!After(e, p, "client", Now), "server", Now)
<1>1. C!After(e, p, "client", Now) =
        [e EXCEPT !.handshake_direction = "C2S", !.last_handshake_request_time = Now]
  <2>1. C!AfterInit(e, p, "client", Now) =
          [e EXCEPT !.handshake_direction = "C2S", !.last_handshake_request_time = Now]
    BY DEF C!AfterInit, C!Classified
  <2>2. Now \in Nat
    BY DEF Now
  <2>3. Fits(C!AfterInit(e, p, "client", Now))
    BY <2>1, <2>2 DEF Fits, C!Entry, C!Direction
  <2>. QED BY <2>1, <2>3, DowngradedFits DEF C!After
<1>2. ASSUME p \in Masked
      PROVE  S(m)!After(e, p, "client", Now) =
               [e EXCEPT !.handshake_direction = "C2S", !.last_handshake_request_time = Now]
  <2>1. S(m)!Obfuscated(p)
    BY <1>2 DEF S!Obfuscated, Masked
  <2>2. [e EXCEPT !.client_clean = FALSE, !.masking_handler = e.masking_handler] = e
    BY DEF Fits, C!Entry
  <2>3. S(m)!Classified(e, p) = e
    BY <2>1, <2>2 DEF S!Classified
  <2>4. S(m)!AfterInit(e, p, "client", Now) =
          [e EXCEPT !.handshake_direction = "C2S", !.last_handshake_request_time = Now]
    BY <2>3 DEF S!AfterInit
  <2>5. Fits(S(m)!AfterInit(e, p, "client", Now))
    BY <1>2, InitFits
  <2>. QED BY <2>4, <2>5, DowngradedFits DEF S!After
<1>3. Now - Now <= Timeout
  BY DEF Now, Timeout
<1>4. ASSUME NEW x,
             x = [e EXCEPT !.handshake_direction = "C2S", !.last_handshake_request_time = Now]
      PROVE  x.handshake_direction = "C2S" /\ x.last_handshake_request_time = Now
  BY <1>4 DEF Fits, C!Entry
<1>5. C!AcceptsResp(C!After(e, p, "client", Now), "server", Now)
  BY <1>1, <1>3, <1>4 DEF C!AcceptsResp
<1>6. p \in Masked => S(m)!AcceptsResp(S(m)!After(e, p, "client", Now), "server", Now)
  BY <1>2, <1>3, <1>4 DEF S!AcceptsResp
<1>. QED BY <1>5, <1>6

(* Of the sessions in a full table that has none for A, only the one B     *)
(* writes to is not deserted.                                              *)
LEMMA FullTableHasDeserted ==
  ASSUME Agreed, ~RoomAtS, MaxClients > 1 PROVE \E f \in s_live \ Bound : Deserted(f)
<1>1. c_live => port \notin s_live
  BY DEF RoomAtS, Leaving
<1>2. PICK f \in s_live : f # endpoint
  <2>. SUFFICES ASSUME s_live \subseteq {endpoint} PROVE FALSE
    OBVIOUS
  <2>1. IsFiniteSet({endpoint}) /\ Cardinality({endpoint}) = 1
    BY FS_Singleton
  <2>2. Cardinality(s_live) \in Nat /\ Cardinality(s_live) <= 1
    BY <2>1, FS_Subset, FS_CardinalityType
  <2>. QED BY <2>2, BoundsAssumption DEF RoomAtS
<1>3. Deserted(f)
  BY <1>1, <1>2 DEF Deserted
<1>4. f \notin Bound
  BY <1>1 DEF Bound, Agreed, Linked
<1>. QED BY <1>2, <1>3, <1>4

LEMMA AgreedCompletes == Agreed => HandshakeWouldComplete
<1>. SUFFICES ASSUME Agreed PROVE HandshakeWouldComplete
  OBVIOUS
<1>. DEFINE init == Plain("init")
            resp == Plain("resp")
            c1 == C!After(CView(init), init, "client", Now)
            req == C!Relayed(c1, init)
            s1 == S(mode)!After(SView(Leaving, req), req, "client", Now)
            s2 == S(mode)!After(s1, resp, "server", Now)
            ans == S(mode)!Relayed(s2, resp)
            c2 == C!After(c1, ans, "server", Now)
<1>0. mode \in {"one-way", "two-way"}
  BY ModeType
<1>1. /\ init = [mask |-> FALSE, enc |-> "plain", type |-> "init"]
      /\ resp = [mask |-> FALSE, enc |-> "plain", type |-> "resp"]
      /\ init \in Unmasked /\ resp \in Unmasked
  BY PlainPacket DEF Kind, Plain, Seen
<1>2. Fits(CView(init))
  BY <1>1, FreshFits DEF CView, Agreed, SidesAgree, Unmasked
<1>3. Fits(c1) /\ C!AcceptsResp(c1, "server", Now)
  BY <1>0, <1>1, <1>2, CAfterFits, InitWaits
<1>4. req = [mask |-> TRUE, enc |-> "v1", type |-> "init"] /\ req \in Masked
  BY <1>0, <1>1, <1>3, RelayedForm, MaskedPacket
<1>5. Fits(SView(Leaving, req))
  BY <1>0, <1>4, FreshFits DEF SView, Agreed, SidesAgree
<1>6. Fits(s1) /\ S(mode)!AcceptsResp(s1, "server", Now)
  BY <1>0, <1>4, <1>5, SAfterFits, InitWaits
<1>7. Fits(s2) /\ s2.handshaked = TRUE
  BY <1>0, <1>1, <1>6, SAfterFits
<1>8. ans = [mask |-> TRUE, enc |-> "v1", type |-> "resp"] /\ ans \in Masked
  BY <1>0, <1>1, <1>7, RelayedForm, MaskedPacket
<1>9. Fits(c2) /\ c2.handshaked = TRUE
  BY <1>3, <1>8, CAfterFits
<1>10. CTakes(init)
  BY <1>0, <1>1, <1>2, RelayedForm DEF CTakes, C!Accepts
<1>11. RoomAtS => STakes(Leaving, req)
  <2>1. S(mode)!Accepts(SView(Leaving, req), req, "client", Now)
    BY <1>0, <1>4, <1>5, RelayedForm DEF S!Accepts
  <2>2. req.type = "init"
    BY <1>4
  <2>. QED BY <2>1, <2>2 DEF STakes, RoomAtS
<1>12. S(mode)!Relayed(s1, req) = init
  <2>1. S(mode)!Relayed(s1, req) = [mask |-> FALSE, enc |-> "plain", type |-> req.type]
    BY <1>0, <1>4, <1>6, RelayedForm
  <2>2. req.type = "init"
    BY <1>4
  <2>. QED BY <1>1, <2>1, <2>2, Zenon
<1>13. S(mode)!Accepts(s1, resp, "server", Now)
  BY <1>0, <1>1, <1>6, RelayedForm DEF S!Accepts
<1>14. C!Accepts(c1, ans, "server", Now)
  BY <1>0, <1>3, <1>8, RelayedForm DEF C!Accepts
<1>15. C!Relayed(c2, ans) = resp
  <2>1. C!Relayed(c2, ans) = [mask |-> FALSE, enc |-> "plain", type |-> ans.type]
    BY <1>0, <1>8, <1>9, RelayedForm
  <2>2. ans.type = "resp"
    BY <1>8
  <2>. QED BY <1>1, <2>1, <2>2, Zenon
<1>16. DataPasses(c2, s2)
  BY <1>0, <1>7, <1>9, DataFits
<1>17. ~RoomAtS /\ MaxClients > 1 => \E f \in s_live \ Bound : Deserted(f)
  BY FullTableHasDeserted
<1>. QED
  BY <1>10, <1>11, <1>12, <1>13, <1>14, <1>15, <1>16, <1>17, Zenon DEF HandshakeWouldComplete

----------------------------------------------------------------------------
(* Every variable keeps its type, and no more than Capacity messages are   *)
(* in flight: the setups of both obfuscators start and stay in the states  *)
(* the handlers can work on.                                               *)
THEOREM TunnelTypeCorrect == Spec => []TypeOK
BY AlwaysAgreed, AgreedTypes, PTL

(* Whatever requests, responses, copies, restarts and expiries the two     *)
(* obfuscators have been through, a handshake that A begins now would pass *)
(* both of them, both ways, and data after it, if S's table has room for   *)
(* A's port; and if max_clients is at least two, a table without room has  *)
(* a deserted session, which the sweep removes.                            *)
THEOREM HandshakeStaysPossible == Spec => []HandshakeWouldComplete
BY AlwaysAgreed, AgreedCompletes, PTL

(* A tunnel that passes data stops doing so through a fault only, never    *)
(* through a handshake message, whichever it is and whenever it comes.     *)
THEOREM TunnelStaysUp == Spec => UpStaysUp
<1>1. (Agreed => (Up <=> BothHandshaked))'
  BY UpMeans, PTL
<1>2. Agreed /\ [Next]_vars => [(Up /\ faults' = faults) => Up']_vars
  BY <1>1, UpMeans, NextKept DEF Kept
<1>. QED BY <1>2, AlwaysAgreed, PTL DEF Spec, UpStaysUp
=============================================================================
