------------------------------- MODULE Tunnel -------------------------------
(***************************************************************************)
(* Two WireGuard peers, A and B, behind two obfuscators: C on A's side,    *)
(* with STUN masking, and S on B's.  Between C and S lies a network that   *)
(* loses, reorders and duplicates.  Both obfuscators run the handlers of   *)
(* ClientEntry, each with its own options; the hops between a peer and its *)
(* own obfuscator take no time.                                            *)
(*                                                                         *)
(* "one-way" is the usual setup: C opens a session for A on its own, with  *)
(* a new source port each time, which to S is a new client; S detects the  *)
(* mask and admits clean clients.  "two-way" is the setup with static      *)
(* bindings on both sides.                                                 *)
(*                                                                         *)
(* There is no clock here.  A stamp is Now, or 0 when it has grown older   *)
(* than the handshake timeout; a session expires when a fault says so.     *)
(***************************************************************************)
EXTENDS Integers, FiniteSets

CONSTANTS Modes,             \* the setups to look at
          MaxClients,        \* max_clients of S
          Capacity, MaxFlows, MaxFaults, MaxReverse   \* bounds of the model only: messages
                             \* in flight, source ports of C, faults, requests by B

ASSUME ModesAssumption == Modes \subseteq {"one-way", "two-way"}
ASSUME BoundsAssumption == /\ MaxClients \in Nat \ {0} /\ Capacity \in Nat \ {0}
                           /\ MaxFlows \in Nat \ {0} /\ MaxFaults \in Nat /\ MaxReverse \in Nat

Timeout == 1
Now == 2

C == INSTANCE ClientEntry WITH AllowClean <- FALSE, Masking <- "stun", HandshakeTimeout <- Timeout
S(m) == INSTANCE ClientEntry WITH AllowClean <- m = "one-way", HandshakeTimeout <- Timeout,
                                  Masking <- IF m = "one-way" THEN "auto" ELSE "stun"

Peer == {"A", "B"}
Flow == 1 .. MaxFlows
Kind == {"init", "resp", "data", "cookie"}

VARIABLES mode,
          c_live, c_entry,   \* C's session for A
          port,              \* the source port of C's current or last session
          s_live, s_entry,   \* S's sessions, by C's source port
          wire,              \* messages between C and S
          owes,              \* peer -> the response it has still to send, if any
          asking, key,       \* peers that wait for a response; peers with a session key
          endpoint,          \* the flow B last heard A from, 0 if none
          reaches,           \* the session of S that B heard it through is still there
          faults, reverse    \* faults so far; requests by B so far
vars == <<mode, c_live, c_entry, port, s_live, s_entry, wire, owes, asking, key, endpoint,
          reaches, faults, reverse>>

side_c == <<c_live, c_entry, port>>
side_s == <<s_live, s_entry>>
peers == <<owes, asking, key, endpoint, reaches>>

(* A message in flight.  "old" is what WireGuard no longer takes: a copy,  *)
(* or a handshake message its sender has given up.                         *)
Message == [dir : {"up", "down"}, flow : Flow, kind : Kind, old : BOOLEAN,
            mask : BOOLEAN, enc : {"plain", "v0", "v1"}]

(* A cookie reply is neither request nor response: data, to an obfuscator. *)
Seen(kind) == IF kind = "cookie" THEN "data" ELSE kind
Plain(kind) == [mask |-> FALSE, enc |-> "plain", type |-> Seen(kind)]
Carried(m) == [mask |-> m.mask, enc |-> m.enc, type |-> Seen(m.kind)]
Put(dir, flow, kind, old, q) ==
  [dir |-> dir, flow |-> flow, kind |-> kind, old |-> old, mask |-> q.mask, enc |-> q.enc]

(* Every variable has its type, what is in flight has room there, and B    *)
(* reaches a session of S or none.                                         *)
TypeOK ==
  /\ mode \in Modes
  /\ c_live \in BOOLEAN /\ c_entry \in C!Entry /\ port \in 0 .. MaxFlows
  /\ s_live \subseteq Flow /\ s_entry \in [Flow -> C!Entry]
  /\ wire \subseteq Message /\ Cardinality(wire) <= Capacity
  /\ owes \in [Peer -> {"none", "new", "old"}] /\ asking \subseteq Peer /\ key \subseteq Peer
  /\ endpoint \in 0 .. MaxFlows /\ reaches \in BOOLEAN /\ (reaches => endpoint \in s_live)
  /\ faults \in 0 .. MaxFaults /\ reverse \in 0 .. MaxReverse

(* The static binding of two-way mode is flow 1 at both ends. *)
Bound == IF mode = "two-way" THEN {1} ELSE {}
Restarted == [f \in Flow |-> IF f \in Bound THEN S(mode)!Static ELSE C!Zeroed]

Init ==
  /\ mode \in Modes
  /\ c_live = (mode = "two-way")
  /\ c_entry = IF mode = "two-way" THEN C!Static ELSE C!Zeroed
  /\ port = IF mode = "two-way" THEN 1 ELSE 0
  /\ s_live = Bound /\ s_entry = Restarted
  /\ wire = {} /\ owes = [w \in Peer |-> "none"] /\ asking = {} /\ key = {}
  /\ endpoint = (IF mode = "two-way" THEN 1 ELSE 0) /\ reaches = (mode = "two-way")
  /\ faults = 0 /\ reverse = 0

----------------------------------------------------------------------------
(* What the obfuscators do with a packet.  A client handler looks at the   *)
(* entry of its client or, for a first request, at the one it would make.  *)
CView(p) == IF c_live THEN c_entry ELSE C!Fresh(p, Now)
SView(f, p) == IF f \in s_live THEN s_entry[f] ELSE S(mode)!Fresh(p, Now)

CTakes(p) == (c_live \/ p.type = "init") /\ C!Accepts(CView(p), p, "client", Now)
STakes(f, p) == /\ f \in s_live \/ (p.type = "init" /\ Cardinality(s_live) < MaxClients)
                /\ S(mode)!Accepts(SView(f, p), p, "client", Now)

(* The port a packet of A leaves from. *)
Leaving == IF c_live THEN port ELSE port + 1

(* A's packet through C; "rest" is the wire without it. *)
FromA(kind, old, rest) ==
  LET p == Plain(kind)
      e == C!After(CView(p), p, "client", Now)
  IN IF CTakes(p)
     THEN /\ c_live' = TRUE /\ c_entry' = e /\ port' = Leaving
          /\ wire' = rest \cup {Put("up", Leaving, kind, old, C!Relayed(e, p))}
     ELSE wire' = rest /\ UNCHANGED side_c

(* B's packet through the session of S it is addressed to.  A session that *)
(* is opened again has a new socket on S's far side, with another port: it *)
(* is not the one B writes to, unless it is a static binding.              *)
FromB(kind, old, rest) ==
  LET p == Plain(kind)
      e == S(mode)!After(s_entry[endpoint], p, "server", Now)
  IN IF reaches /\ S(mode)!Accepts(s_entry[endpoint], p, "server", Now)
     THEN /\ s_entry' = [s_entry EXCEPT ![endpoint] = e]
          /\ wire' = rest \cup {Put("down", endpoint, kind, old, S(mode)!Relayed(e, p))}
          /\ UNCHANGED s_live
     ELSE wire' = rest /\ UNCHANGED side_s

Emit(w, kind, old, rest) ==
  IF w = "A" THEN FromA(kind, old, rest) /\ UNCHANGED side_s
  ELSE FromB(kind, old, rest) /\ UNCHANGED side_c

Room == Cardinality(wire) < Capacity
Fault == faults < MaxFaults /\ faults' = faults + 1

----------------------------------------------------------------------------
(* The WireGuard peers.  They are not part of the repository: here is what *)
(* an obfuscator sees of them.                                             *)
Away(w) == IF w = "A" THEN "up" ELSE "down"
Other(w) == IF w = "A" THEN "B" ELSE "A"

(* The messages of the handshake w began: its request, and the response.   *)
OfHandshake(m, w) ==
  \/ m.kind = "init" /\ m.dir = Away(w)
  \/ m.kind = "resp" /\ m.dir = Away(Other(w))

Underway(w) ==
  owes[Other(w)] = "new" \/ \E m \in wire : OfHandshake(m, w) /\ ~m.old

(* The first request, a repeated one, or the next key: whatever is left of *)
(* an earlier handshake is void.  WireGuard's retry comes 5 s later, when  *)
(* nothing is under way any more; that something still is counts as fault. *)
Initiate(w) ==
  /\ Room
  /\ IF w = "A" THEN UNCHANGED reverse
     ELSE endpoint # 0 /\ reverse < MaxReverse /\ reverse' = reverse + 1
  /\ IF Underway(w) THEN Fault ELSE UNCHANGED faults
  /\ asking' = asking \cup {w}
  /\ owes' = [owes EXCEPT ![Other(w)] = IF @ = "new" THEN "old" ELSE @]
  /\ Emit(w, "init", FALSE, {[m EXCEPT !.old = @ \/ OfHandshake(m, w)] : m \in wire})
  /\ UNCHANGED <<mode, key, endpoint, reaches>>

Respond(w) ==
  /\ Room /\ owes[w] # "none"
  /\ owes' = [owes EXCEPT ![w] = "none"]
  /\ Emit(w, "resp", owes[w] = "old", wire)
  /\ UNCHANGED <<mode, asking, key, endpoint, reaches, faults, reverse>>

(* A peer under load sends a cookie instead. *)
RespondUnderLoad(w) ==
  /\ Room /\ owes[w] = "new" /\ Fault
  /\ owes' = [owes EXCEPT ![w] = "none"]
  /\ Emit(w, "cookie", FALSE, wire)
  /\ UNCHANGED <<mode, asking, key, endpoint, reaches, reverse>>

SendData(w) ==
  /\ Room /\ w \in key
  /\ Emit(w, "data", FALSE, wire)
  /\ UNCHANGED <<mode, peers, faults, reverse>>

(* A peer takes plain WireGuard only.  B answers where it last heard A.    *)
Receives(w, m, q) ==
  LET valid == q.enc = "plain" /\ ~q.mask /\ ~m.old
      roams == w = "B" /\ valid /\ m.kind # "cookie"
  IN
  /\ owes' = [owes EXCEPT ![w] = IF valid /\ m.kind = "init" THEN "new" ELSE @]
  /\ asking' = IF valid /\ m.kind = "resp" THEN asking \ {w} ELSE asking
  /\ key' = IF valid /\ (m.kind = "data" \/ (m.kind = "resp" /\ w \in asking))
            THEN key \cup {w} ELSE key
  /\ endpoint' = IF roams THEN m.flow ELSE endpoint
  /\ reaches' = (reaches \/ roams)

----------------------------------------------------------------------------
(* The network, and the two handlers that read from it.                    *)
DeliverUp(m) ==
  /\ m \in wire /\ m.dir = "up"
  /\ wire' = wire \ {m}
  /\ LET p == Carried(m)
         e == S(mode)!After(SView(m.flow, p), p, "client", Now)
     IN IF STakes(m.flow, p)
        THEN /\ s_live' = s_live \cup {m.flow}
             /\ s_entry' = [s_entry EXCEPT ![m.flow] = e]
             /\ Receives("B", m, S(mode)!Relayed(e, p))
        ELSE UNCHANGED <<side_s, peers>>
  /\ UNCHANGED <<mode, side_c, faults, reverse>>

(* What comes to a port that is closed is lost. *)
DeliverDown(m) ==
  /\ m \in wire /\ m.dir = "down"
  /\ wire' = wire \ {m}
  /\ LET p == Carried(m)
         e == C!After(c_entry, p, "server", Now)
     IN IF c_live /\ m.flow = port /\ C!Accepts(c_entry, p, "server", Now)
        THEN c_entry' = e /\ Receives("A", m, C!Relayed(e, p))
        ELSE UNCHANGED <<c_entry, peers>>
  /\ UNCHANGED <<mode, c_live, port, side_s, faults, reverse>>

Lose(m) ==
  /\ m \in wire /\ wire' = wire \ {m}
  /\ UNCHANGED <<mode, side_c, side_s, peers, faults, reverse>>

Duplicate(m) ==
  /\ m \in wire /\ Room /\ Fault
  /\ wire' = wire \cup {[m EXCEPT !.old = TRUE]}
  /\ UNCHANGED <<mode, side_c, side_s, peers, reverse>>

----------------------------------------------------------------------------
(* What happens to an obfuscator's memory.                                 *)

(* C expires its session, or is restarted, which alone resets a binding. *)
CForgets ==
  /\ c_live /\ Fault
  /\ IF mode = "two-way" THEN c_entry' = C!Static /\ UNCHANGED c_live
     ELSE port < MaxFlows /\ c_live' = FALSE /\ c_entry' = C!Zeroed
  /\ UNCHANGED <<mode, port, side_s, wire, peers, reverse>>

SRestarts ==
  /\ Fault
  /\ s_live' = Bound /\ s_entry' = Restarted /\ reaches' = (reaches /\ endpoint \in Bound)
  /\ UNCHANGED <<mode, side_c, wire, owes, asking, key, endpoint, reverse>>

(* No traffic keeps this session alive: C has left it and B does not use it. *)
Deserted(f) == ~(c_live /\ f = port) /\ ~(reaches /\ f = endpoint)

(* Mutant of SExpires: a session without a handshake is never swept.       *)
SExpiresHandshaked(f) ==
  /\ f \in s_live \ Bound /\ s_entry[f].handshaked
  /\ IF Deserted(f) THEN UNCHANGED faults ELSE Fault
  /\ s_live' = s_live \ {f} /\ s_entry' = [s_entry EXCEPT ![f] = C!Zeroed]
  /\ reaches' = (reaches /\ f # endpoint)
  /\ UNCHANGED <<mode, side_c, wire, owes, asking, key, endpoint, reverse>>

(* Time goes by: for a session in use, more of it than a tunnel can stand. *)
SExpires(f) ==
  /\ f \in s_live \ Bound
  /\ IF Deserted(f) THEN UNCHANGED faults ELSE Fault
  /\ s_live' = s_live \ {f} /\ s_entry' = [s_entry EXCEPT ![f] = C!Zeroed]
  /\ reaches' = (reaches /\ f # endpoint)
  /\ UNCHANGED <<mode, side_c, wire, owes, asking, key, endpoint, reverse>>

(* The response is still to come when the handshake timeout has passed.    *)
CTimesOut ==
  /\ c_live /\ c_entry.last_handshake_request_time = Now /\ Fault
  /\ c_entry' = [c_entry EXCEPT !.last_handshake_request_time = 0]
  /\ UNCHANGED <<mode, c_live, port, side_s, wire, peers, reverse>>

STimesOut(f) ==
  /\ f \in s_live /\ s_entry[f].last_handshake_request_time = Now /\ Fault
  /\ s_entry' = [s_entry EXCEPT ![f].last_handshake_request_time = 0]
  /\ UNCHANGED <<mode, side_c, s_live, wire, peers, reverse>>

----------------------------------------------------------------------------
Next ==
  \/ \E w \in Peer : Initiate(w) \/ Respond(w) \/ RespondUnderLoad(w) \/ SendData(w)
  \/ \E m \in wire : DeliverUp(m) \/ DeliverDown(m) \/ Lose(m) \/ Duplicate(m)
  \/ CForgets \/ SRestarts \/ CTimesOut
  \/ \E f \in Flow : SExpires(f) \/ STimesOut(f)

(* The network may lose anything, but not the same thing for ever: of the  *)
(* messages of one kind sent again and again between C's current port and  *)
(* S, one arrives.  And nothing stays in flight for ever.                  *)
Arrive(dir, kind) ==
  \E m \in wire : /\ m.dir = dir /\ m.kind = kind /\ ~m.old /\ m.flow = port
                  /\ DeliverUp(m) \/ DeliverDown(m)
Leave(kind) == \E m \in wire : m.kind = kind /\ (DeliverUp(m) \/ DeliverDown(m) \/ Lose(m))
ExpireDeserted == \E f \in Flow : Deserted(f) /\ SExpires(f)

(* WireGuard asks for a new key every two minutes, repeats what is not     *)
(* answered, answers, and has something to send.  Nothing is assumed of B  *)
(* beyond its answers, and nothing of faults.                              *)
Spec == /\ Init /\ [][Next]_vars
        /\ SF_vars(Initiate("A")) /\ SF_vars(Respond("B")) /\ SF_vars(SendData("A"))
        /\ SF_vars(Arrive("up", "init")) /\ SF_vars(Arrive("down", "resp"))
        /\ SF_vars(Arrive("up", "data"))
        /\ \A kind \in Kind : WF_vars(Leave(kind))
        /\ WF_vars(ExpireDeserted)

----------------------------------------------------------------------------
(* Properties.                                                             *)

(* Data of both peers would pass, between C's entry ce and S's entry se.   *)
DataPasses(ce, se) ==
  LET up == C!Relayed(ce, Plain("data"))
      down == S(mode)!Relayed(se, Plain("data"))
  IN /\ C!Accepts(ce, Plain("data"), "client", Now) /\ S(mode)!Accepts(se, up, "client", Now)
     /\ S(mode)!Accepts(se, Plain("data"), "server", Now) /\ C!Accepts(ce, down, "server", Now)

Up == c_live /\ port \in s_live /\ DataPasses(c_entry, s_entry[port])

(* S has, or has a place for, a session of the port A's next packet comes  *)
(* from.                                                                   *)
RoomAtS == Leaving \in s_live \/ Cardinality(s_live) < MaxClients

(* Whatever the two obfuscators remember, of whatever past, a handshake    *)
(* that A begins now completes if S's table has room for it and nothing    *)
(* disturbs it, and data passes after it.  So no stale direction, mask,    *)
(* clean flag or version in either table can lock the peers out.  And a    *)
(* full table does not either: one of its sessions is deserted and goes    *)
(* with the sweep, but where the only place is that of the session B       *)
(* still writes to.                                                        *)
HandshakeWouldComplete ==
  LET init == Plain("init")
      resp == Plain("resp")
      c1 == C!After(CView(init), init, "client", Now)
      req == C!Relayed(c1, init)
      s1 == S(mode)!After(SView(Leaving, req), req, "client", Now)
      s2 == S(mode)!After(s1, resp, "server", Now)
      ans == S(mode)!Relayed(s2, resp)
      c2 == C!After(c1, ans, "server", Now)
  IN /\ RoomAtS => /\ CTakes(init) /\ STakes(Leaving, req)
                   /\ S(mode)!Relayed(s1, req) = init
                   /\ S(mode)!Accepts(s1, resp, "server", Now)
                   /\ C!Accepts(c1, ans, "server", Now) /\ C!Relayed(c2, ans) = resp
                   /\ DataPasses(c2, s2)
     /\ ~RoomAtS /\ MaxClients > 1 => \E f \in s_live \ Bound : Deserted(f)

(* A tunnel that is up goes down through a fault only: no late, repeated   *)
(* or crossing handshake message, in any order, makes it drop data again.  *)
UpStaysUp == [][(Up /\ faults' = faults) => Up']_vars

(* After the last fault the tunnel comes up and stays: lost requests,      *)
(* restarts on either side, expired sessions, a full table at S, answers   *)
(* that come too late, cookies in place of responses and a request of B    *)
(* that crosses A's are all overcome by WireGuard's next handshakes.       *)
TunnelRecovers == <>[](Up /\ key = Peer /\ endpoint = port /\ reaches)
=============================================================================
