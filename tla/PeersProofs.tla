---------------------------- MODULE PeersProofs ----------------------------
(***************************************************************************)
(* That peers understand what Sessions sends them, for every set of        *)
(* clients and every setup Deployed allows.  The inductive invariant says  *)
(* of every entry that its handler, version, clean flag and ping flags are *)
(* in step with the forms its two peers speak.  In the second part         *)
(* clients change their form: an entry is in step with what its client's   *)
(* last request was in.                                                    *)
(***************************************************************************)
EXTENDS SessionsProofs

InStep(e, form) ==
  /\ e.client_clean <=> form.enc = "plain" /\ ServerForm.enc = "plain"
  /\ e.masking_handler = "STUN" <=> form.mask \/ ServerForm.mask
  /\ form.enc = "v0" => e.version = 0
  /\ ServerForm.enc = "v1" => e.version = 1
  /\ e.masking_handler = "STUN" => /\ e.client_obfuscated => form.mask
                                   /\ e.server_obfuscated => ServerForm.mask

EntriesInStep ==
  \A c \in live : \A form \in Form : Speaks(c, form) => InStep(entry[c], form)

----------------------------------------------------------------------------
(* The packets of a peer, and what an entry in step makes of them.         *)
LEMMA ClientForm ==
  ASSUME NEW c \in Client, NEW form, Speaks(c, form), NEW p \in ClientPackets(c)
  PROVE  p \in Packet /\ p.mask = form.mask /\ p.enc = form.enc
BY DEF Speaks, ClientPackets, Form

LEMMA TargetForm ==
  ASSUME Deployed, NEW p \in ServerPackets
  PROVE  p \in Packet /\ p.mask = ServerForm.mask /\ p.enc = ServerForm.enc
BY DEF ServerPackets

(* What Deployed says of the two forms of one session.                     *)
LEMMA TwoForms ==
  ASSUME Deployed, NEW c, NEW form, Speaks(c, form)
  PROVE  /\ form \in Form /\ ServerForm \in Form
         /\ form.mask => form.enc # "plain" /\ ServerForm.enc = "plain"
         /\ ServerForm.mask => ServerForm.enc = "v1"
         /\ ServerForm.enc \in {"plain", "v1"}
         /\ form.enc = "plain" \/ ServerForm.enc = "plain"
         /\ AllowClean => ServerForm.enc = "plain"
         /\ form.enc = "plain" /\ ServerForm.enc = "plain" => AllowClean
         /\ ServerForm.enc = "v1" => (ServerForm.mask <=> Masking = "stun")
<1>1. CASE ServerForm = [mask |-> FALSE, enc |-> "plain"]
  BY <1>1, FormAssumption DEF Speaks, Form
<1>2. CASE ServerForm = [mask |-> Masking = "stun", enc |-> "v1"] /\ ~AllowClean
  <2>1. (Masking = "stun") \in BOOLEAN
    OBVIOUS
  <2>. QED BY <1>2, <2>1, FormAssumption DEF Speaks, Form
<1>. QED BY <1>1, <1>2 DEF Deployed

LEMMA StaticInStep ==
  ASSUME Deployed, NEW c \in StaticClient, NEW form, Speaks(c, form)
  PROVE  InStep(Static, form)
<1>1. /\ Static.client_clean = FALSE /\ Static.version = 1
      /\ Static.masking_handler = ConfiguredHandler
      /\ Static.client_obfuscated = FALSE /\ Static.server_obfuscated = FALSE
  BY DEF Static, Zeroed
<1>2. ~AllowClean
  BY TableAssumption
<1>3. /\ ServerForm.enc = "plain" =>
           form.enc # "plain" /\ form.enc # "v0" /\ (form.mask <=> Masking = "stun")
  BY <1>2 DEF Speaks
<1>4. Static.masking_handler = "STUN" <=> Masking = "stun"
  BY <1>1 DEF ConfiguredHandler
<1>. QED BY <1>1, <1>3, <1>4, TwoForms DEF InStep

(* The operators change only some of the fields.                           *)
LEMMA DowngradedInStep ==
  ASSUME Deployed, NEW c, NEW form, Speaks(c, form),
         NEW e \in Entry, InStep(e, form), NEW p \in Packet,
         \/ p.mask = form.mask /\ p.enc = form.enc
         \/ p.mask = ServerForm.mask /\ p.enc = ServerForm.enc
  PROVE  InStep(Downgraded(e, p), form)
<1>1. Downgraded(e, p) = [e EXCEPT !.version = IF p.enc = "v0" THEN 0 ELSE e.version]
  BY DEF Downgraded
<1>2. p.enc = "v0" => ServerForm.enc # "v1"
  BY TwoForms
<1>3. CASE p.enc = "v0"
  BY <1>1, <1>2, <1>3 DEF InStep, Entry
<1>4. CASE p.enc # "v0"
  BY <1>1, <1>4 DEF InStep, Entry
<1>. QED BY <1>3, <1>4

LEMMA RespInStep ==
  ASSUME Deployed, NEW c, NEW form, Speaks(c, form),
         NEW e \in Entry, InStep(e, form), NEW p \in Packet, NEW from \in {"client", "server"},
         IF from = "client" THEN p.mask = form.mask /\ p.enc = form.enc
         ELSE p.mask = ServerForm.mask /\ p.enc = ServerForm.enc
  PROVE  InStep(AfterResp(e, p, from), form)
<1>. DEFINE a == IF from = "client" THEN Obfuscated(p) ELSE ~Obfuscated(p) /\ ~e.client_clean
            b == IF from = "client" THEN ~Obfuscated(p) ELSE Obfuscated(p)
<1>1. a \in BOOLEAN /\ b \in BOOLEAN
  BY DEF Obfuscated, Packet, Entry
<1>2. AfterResp(e, p, from) =
        [e EXCEPT !.handshaked = TRUE, !.client_obfuscated = a, !.server_obfuscated = b]
  BY DEF AfterResp
<1>3. e.masking_handler = "STUN" => (a => form.mask) /\ (b => ServerForm.mask)
  <2>1. CASE from = "client"
    BY <2>1, TwoForms DEF Obfuscated, InStep
  <2>2. CASE from = "server"
    BY <2>2, TwoForms DEF Obfuscated, InStep
  <2>. QED BY <2>1, <2>2
<1>. HIDE DEF a, b
<1>. QED BY <1>1, <1>2, <1>3 DEF InStep, Entry

LEMMA InitInStep ==
  ASSUME Deployed, NEW c, NEW form, Speaks(c, form),
         NEW e \in Entry, InStep(e, form), NEW p \in Packet, NEW from \in {"client", "server"},
         NEW now \in Nat,
         from = "client" => p.mask = form.mask /\ p.enc = form.enc
  PROVE  InStep(AfterInit(e, p, from, now), form)
<1>. DEFINE g == IF from = "client" THEN Classified(e, p) ELSE e
<1>1. g \in Entry /\ InStep(g, form)
  <2>1. CASE from = "client" /\ AllowClean
    <3>1. g = [e EXCEPT !.client_clean = ~Obfuscated(p),
                        !.masking_handler = IF Obfuscated(p) THEN e.masking_handler ELSE "NULL"]
      BY <2>1 DEF Classified
    <3>2. Obfuscated(p) <=> form.enc # "plain"
      BY <2>1, TwoForms DEF Obfuscated
    <3>3. ServerForm.enc = "plain" /\ ~ServerForm.mask
      BY <2>1, TwoForms
    <3>4. CASE Obfuscated(p)
      BY <3>1, <3>2, <3>3, <3>4 DEF InStep, Entry
    <3>5. CASE ~Obfuscated(p)
      <4>1. g = [e EXCEPT !.client_clean = TRUE, !.masking_handler = "NULL"]
        BY <3>1, <3>5
      <4>2. g \in Entry /\ g.client_clean = TRUE /\ g.masking_handler = "NULL"
        BY <4>1 DEF Entry, Handler
      <4>3. form.enc = "plain" /\ ~form.mask
        BY <3>2, <3>5, TwoForms
      <4>. HIDE DEF g
      <4>. QED BY <3>3, <4>2, <4>3 DEF InStep
    <3>. QED BY <3>4, <3>5
  <2>2. CASE ~(from = "client" /\ AllowClean)
    BY <2>2 DEF Classified
  <2>. QED BY <2>1, <2>2
<1>2. AfterInit(e, p, from, now) =
        [g EXCEPT !.handshake_direction = IF from = "client" THEN "C2S" ELSE "S2C",
                  !.last_handshake_request_time = now]
  BY DEF AfterInit
<1>. HIDE DEF g
<1>. QED BY <1>1, <1>2 DEF InStep, Entry

(* Every packet of either peer leaves an entry in step.                    *)
LEMMA AfterInStep ==
  ASSUME Deployed, NEW c, NEW form, Speaks(c, form),
         NEW e \in Entry, InStep(e, form), NEW p \in Packet, NEW from \in {"client", "server"},
         NEW now \in Nat,
         IF from = "client" THEN p.mask = form.mask /\ p.enc = form.enc
         ELSE p.mask = ServerForm.mask /\ p.enc = ServerForm.enc
  PROVE  InStep(After(e, p, from, now), form)
<1>1. CASE p.type = "init"
  <2>1. AfterInit(e, p, from, now) \in Entry
    BY AfterInitType
  <2>. QED BY <1>1, <2>1, InitInStep, DowngradedInStep DEF After
<1>2. CASE p.type = "resp"
  <2>1. AfterResp(e, p, from) \in Entry
    BY AfterRespType
  <2>. QED BY <1>2, <2>1, RespInStep, DowngradedInStep DEF After
<1>3. CASE p.type \notin {"init", "resp"}
  BY <1>3, DowngradedInStep DEF After
<1>. QED BY <1>1, <1>2, <1>3

(* The first request of a dynamic client: what Fresh takes over from it,   *)
(* and the classification and downgrade that follow, put it in step.       *)
LEMMA FirstInStep ==
  ASSUME Deployed, NEW c, NEW form, Speaks(c, form), NEW now \in Nat,
         NEW p \in Packet, p.mask = form.mask /\ p.enc = form.enc, p.type = "init",
         Accepts(Fresh(p, now), p, "client", now)
  PROVE  InStep(After(Fresh(p, now), p, "client", now), form)
<1>. DEFINE e == Fresh(p, now)
            g == Classified(e, p)
            h == AfterInit(e, p, "client", now)
<1>1. e \in Entry
  BY FreshType
<1>2. /\ e.client_clean = FALSE /\ e.version = 1
      /\ e.client_obfuscated = FALSE /\ e.server_obfuscated = FALSE
      /\ e.masking_handler = IF Masking = "auto" /\ p.mask THEN "STUN" ELSE ConfiguredHandler
  BY DEF Fresh, Zeroed
<1>3. Obfuscated(p) <=> form.enc # "plain"
  BY TwoForms DEF Obfuscated
<1>4. Obfuscated(p) => (form.mask <=> e.masking_handler = "STUN")
  BY DEF Accepts, Readable
<1>. HIDE DEF e
<1>5. /\ g \in Entry /\ g.version = 1
      /\ g.client_obfuscated = FALSE /\ g.server_obfuscated = FALSE
      /\ g.client_clean <=> form.enc = "plain" /\ ServerForm.enc = "plain"
      /\ g.masking_handler = "STUN" <=> form.mask \/ ServerForm.mask
  <2>1. CASE AllowClean /\ ~Obfuscated(p)
    <3>1. g = [e EXCEPT !.client_clean = TRUE, !.masking_handler = "NULL"]
      BY <2>1 DEF Classified
    <3>2. /\ g \in Entry /\ g.client_clean = TRUE /\ g.masking_handler = "NULL" /\ g.version = 1
          /\ g.client_obfuscated = FALSE /\ g.server_obfuscated = FALSE
      BY <1>1, <1>2, <3>1 DEF Entry, Handler
    <3>3. form.enc = "plain" /\ ServerForm.enc = "plain" /\ ~form.mask /\ ~ServerForm.mask
      BY <1>3, <2>1, TwoForms
    <3>. QED BY <3>2, <3>3
  <2>2. CASE AllowClean /\ Obfuscated(p)
    <3>1. g = [e EXCEPT !.client_clean = FALSE, !.masking_handler = e.masking_handler]
      BY <2>2 DEF Classified
    <3>2. /\ g \in Entry /\ g.client_clean = FALSE /\ g.masking_handler = e.masking_handler
          /\ g.version = 1 /\ g.client_obfuscated = FALSE /\ g.server_obfuscated = FALSE
      BY <1>1, <1>2, <3>1 DEF Entry
    <3>3. form.enc # "plain" /\ ~ServerForm.mask
      BY <1>3, <2>2, TwoForms
    <3>. QED BY <1>1, <1>2, <1>4, <2>2, <3>2, <3>3
  <2>3. CASE ~AllowClean
    <3>1. g = e
      BY <2>3 DEF Classified
    <3>2. CASE form.enc = "plain"
      <4>1. ServerForm.enc = "v1" /\ ~p.mask /\ (ServerForm.mask <=> Masking = "stun")
        BY <2>3, <3>2, TwoForms
      <4>2. e.masking_handler = "STUN" <=> Masking = "stun"
        BY <1>2, <4>1 DEF ConfiguredHandler
      <4>3. ~form.mask
        BY <3>2, TwoForms
      <4>. QED BY <1>1, <1>2, <3>1, <3>2, <4>1, <4>2, <4>3
    <3>3. CASE form.enc # "plain"
      <4>1. ServerForm.enc = "plain" /\ ~ServerForm.mask
        BY <3>3, TwoForms
      <4>. QED BY <1>1, <1>2, <1>3, <1>4, <3>1, <3>3, <4>1
    <3>. QED BY <3>2, <3>3
  <2>. QED BY <2>1, <2>2, <2>3
<1>6. h = [g EXCEPT !.handshake_direction = "C2S", !.last_handshake_request_time = now]
  BY DEF AfterInit
<1>7. After(e, p, "client", now) =
        [h EXCEPT !.version = IF p.enc = "v0" THEN 0 ELSE h.version]
  BY DEF After, Downgraded
<1>. HIDE DEF g
<1>8. /\ h \in Entry /\ h.version = 1
      /\ h.client_obfuscated = FALSE /\ h.server_obfuscated = FALSE
      /\ h.client_clean <=> form.enc = "plain" /\ ServerForm.enc = "plain"
      /\ h.masking_handler = "STUN" <=> form.mask \/ ServerForm.mask
  BY <1>5, <1>6 DEF Entry, Direction
<1>. HIDE DEF h
<1>9. p.enc = "v0" => ServerForm.enc # "v1"
  BY TwoForms
<1>10. CASE p.enc = "v0"
  BY <1>7, <1>8, <1>9, <1>10 DEF InStep, Entry, e
<1>11. CASE p.enc # "v0"
  BY <1>7, <1>8, <1>9, <1>11 DEF InStep, Entry, e
<1>. QED BY <1>10, <1>11

LEMMA SentInStep ==
  ASSUME NEW e \in Entry, NEW form, InStep(e, form), NEW from, NEW now \in Nat
  PROVE  InStep(Sent(e, from, now), form)
BY DEF Sent, InStep, Entry

LEMMA TimerInStep ==
  ASSUME NEW e \in Entry, NEW form, InStep(e, form), NEW now \in Nat
  PROVE  InStep([e EXCEPT !.last_masking_timer_time = now], form)
BY DEF InStep, Entry

----------------------------------------------------------------------------
(* What is sent out of an entry in step.                                   *)
Understood(effects) ==
  \A o \in effects :
    /\ o.to = "server" => Understands(ServerForm, o)
    /\ o.to = "client" => \A form \in Form : Speaks(o.session, form) => Understands(form, o)

LEMMA UnderstandsForm ==
  ASSUME NEW form \in Form, NEW q, q.mask = form.mask,
         form.enc = "plain" => q.enc = "plain",
         form.enc = "v0" => q.enc \in {"v0", "none"},
         form.enc = "v1" => q.enc \in {"v0", "v1", "none"}
  PROVE  Understands(form, q)
<1>1. CASE form.enc = "plain"
  BY <1>1 DEF Understands
<1>2. CASE form.enc = "v0"
  BY <1>2 DEF Understands
<1>3. CASE form.enc = "v1"
  BY <1>3 DEF Understands
<1>. QED BY <1>1, <1>2, <1>3 DEF Form

LEMMA UnderstoodSuffices ==
  ASSUME Deployed, out \subseteq Effect, Understood(out) PROVE PeersUnderstand
<1>. SUFFICES ASSUME NEW o \in out, NEW form \in ClientForms[o.session]
              PROVE  /\ o.to = "server" => Understands(ServerForm, o)
                     /\ o.to = "client" => Understands(form, o)
  BY DEF PeersUnderstand
<1>1. o.session \in Client
  BY DEF Effect
<1>2. PICK f \in Form : Speaks(o.session, f)
  BY <1>1 DEF Deployed
<1>3. form = f
  BY <1>2 DEF Speaks
<1>. QED BY <1>2, <1>3 DEF Understood

LEMMA BindingUnderstood ==
  ASSUME Deployed, NEW c, NEW type
  PROVE  /\ ServerForm.mask => Understood({Binding(c, "server", type)})
         /\ (\A form \in Form : Speaks(c, form) => form.mask) => Understood({Binding(c, "client", type)})
<1>1. ASSUME NEW to
      PROVE  /\ Binding(c, to, type).session = c /\ Binding(c, to, type).to = to
             /\ Binding(c, to, type).mask = TRUE /\ Binding(c, to, type).enc = "none"
  BY DEF Binding
<1>2. ASSUME NEW form \in Form, form.mask, form.enc # "plain", NEW to
      PROVE  Understands(form, Binding(c, to, type))
  BY <1>1, <1>2 DEF Understands, Form
<1>3. ASSUME ServerForm.mask PROVE Understood({Binding(c, "server", type)})
  <2>1. ServerForm \in Form /\ ServerForm.enc # "plain"
    BY <1>3, FormAssumption DEF Deployed
  <2>2. Understands(ServerForm, Binding(c, "server", type))
    BY <1>2, <1>3, <2>1
  <2>. QED BY <1>1, <2>2 DEF Understood
<1>4. ASSUME \A form \in Form : Speaks(c, form) => form.mask
      PROVE  Understood({Binding(c, "client", type)})
  <2>1. ASSUME NEW form \in Form, Speaks(c, form)
        PROVE  Understands(form, Binding(c, "client", type))
    BY <1>2, <1>4, <2>1 DEF Speaks
  <2>. QED BY <1>1, <2>1 DEF Understood
<1>. QED BY <1>3, <1>4

(* The ping flags, the greeting and the packet itself.                     *)
LEMMA PingsUnderstood ==
  ASSUME Deployed, TypeOK, EntriesInStep, NEW c \in live, TimerDue(c)
  PROVE  Understood(Pings(c))
<1>1. PICK form \in Form : Speaks(c, form)
  BY DEF TypeOK, Deployed
<1>2. \A f \in Form : Speaks(c, f) => f = form
  BY <1>1 DEF Speaks
<1>3. InStep(entry[c], form) /\ entry[c].masking_handler = "STUN"
  BY <1>1 DEF EntriesInStep, TimerDue
<1>4. ASSUME NEW b \in Pings(c) PROVE Understood({b})
  <2>1. \/ b = Binding(c, "client", "bindreq") /\ entry[c].client_obfuscated
        \/ b = Binding(c, "server", "bindreq") /\ entry[c].server_obfuscated
    BY <1>4 DEF Pings, Binding
  <2>. QED BY <1>2, <1>3, <2>1, BindingUnderstood DEF InStep
<1>. QED BY <1>4 DEF Understood

LEMMA GreetingUnderstood ==
  ASSUME Deployed, NEW c, NEW form \in Form, Speaks(c, form), NEW f \in Entry, InStep(f, form),
         NEW p \in Packet
  PROVE  /\ p.mask = form.mask /\ p.enc = form.enc => Understood(Greeting(c, "server", f, p))
         /\ p.mask = ServerForm.mask /\ p.enc = ServerForm.enc
              => Understood(Greeting(c, "client", f, p))
<1>1. \A g \in Form : Speaks(c, g) => g = form
  BY DEF Speaks
<1>2. Understood({})
  BY DEF Understood
<1>3. CASE Greets(f, p)
  <2>1. p.enc = "plain" /\ ~p.mask /\ f.masking_handler = "STUN" /\ ~f.client_clean
    BY <1>3 DEF Greets, Encodes, Obfuscated
  <2>2. form.mask \/ ServerForm.mask
    BY <2>1 DEF InStep
  <2>3. p.mask = form.mask => Understood({Binding(c, "server", "bindreq")})
    BY <2>1, <2>2, TwoForms, BindingUnderstood
  <2>4. p.mask = ServerForm.mask => Understood({Binding(c, "client", "bindreq")})
    <3>1. p.mask = ServerForm.mask => form.mask
      BY <2>1, <2>2, TwoForms
    <3>. QED BY <1>1, <3>1, BindingUnderstood
  <2>5. ASSUME NEW to PROVE Greeting(c, to, f, p) = {Binding(c, to, "bindreq")}
    BY <1>3 DEF Greeting
  <2>6. /\ Greeting(c, "server", f, p) = {Binding(c, "server", "bindreq")}
        /\ Greeting(c, "client", f, p) = {Binding(c, "client", "bindreq")}
    BY <2>5
  <2>7. p.mask = form.mask => Understood(Greeting(c, "server", f, p))
    BY <2>3, <2>6, Zenon
  <2>8. p.mask = ServerForm.mask => Understood(Greeting(c, "client", f, p))
    BY <2>4, <2>6, Zenon
  <2>. QED BY <2>7, <2>8
<1>4. CASE ~Greets(f, p)
  BY <1>2, <1>4 DEF Greeting
<1>. QED BY <1>3, <1>4

LEMMA EncodedUnderstood ==
  ASSUME Deployed, NEW c, NEW form \in Form, Speaks(c, form), NEW f \in Entry, InStep(f, form),
         NEW p \in Packet, Encodes(f, p)
  PROVE  /\ p.mask = form.mask /\ p.enc = form.enc => Understands(ServerForm, Relayed(f, p))
         /\ p.mask = ServerForm.mask /\ p.enc = ServerForm.enc => Understands(form, Relayed(f, p))
<1>. DEFINE m == f.masking_handler = "STUN"
            q == Relayed(f, p)
<1>1. ~p.mask /\ p.enc = "plain" /\ ~f.client_clean
  BY DEF Encodes, Obfuscated
<1>2. q = [mask |-> m, enc |-> IF f.version = 0 THEN "v0" ELSE "v1", type |-> p.type]
  BY DEF Relayed
<1>3. m \in BOOLEAN /\ (m <=> form.mask \/ ServerForm.mask)
  BY DEF InStep
<1>. HIDE DEF m
<1>4. q.mask = m /\ q.enc = IF f.version = 0 THEN "v0" ELSE "v1"
  BY <1>2
<1>5. ~(form.enc = "plain" /\ ServerForm.enc = "plain")
  BY <1>1 DEF InStep
<1>. HIDE DEF q
<1>6. ASSUME p.mask = form.mask, p.enc = form.enc PROVE Understands(ServerForm, q)
  <2>1. ServerForm.enc = "v1" /\ ~form.mask /\ q.enc = "v1"
    BY <1>1, <1>4, <1>5, <1>6, TwoForms DEF InStep
  <2>2. q.mask = ServerForm.mask
    BY <1>3, <1>4, <2>1, FormAssumption DEF Form
  <2>. QED BY <2>1, <2>2, FormAssumption, UnderstandsForm
<1>7. ASSUME p.mask = ServerForm.mask, p.enc = ServerForm.enc PROVE Understands(form, q)
  <2>1. form.enc \in {"v0", "v1"} /\ ~ServerForm.mask
    BY <1>1, <1>5, <1>7 DEF Form
  <2>2. q.mask = form.mask
    BY <1>3, <1>4, <2>1 DEF Form
  <2>3. form.enc = "v0" => q.enc = "v0"
    BY <1>4 DEF InStep
  <2>4. q.enc \in {"v0", "v1"}
    BY <1>4
  <2>. QED BY <2>1, <2>2, <2>3, <2>4, UnderstandsForm
<1>. QED BY <1>6, <1>7 DEF q

LEMMA DecodedUnderstood ==
  ASSUME Deployed, NEW c, NEW form \in Form, Speaks(c, form), NEW f \in Entry, InStep(f, form),
         NEW p \in Packet, ~Encodes(f, p)
  PROVE  /\ p.mask = form.mask /\ p.enc = form.enc => Understands(ServerForm, Relayed(f, p))
         /\ p.mask = ServerForm.mask /\ p.enc = ServerForm.enc => Understands(form, Relayed(f, p))
<1>1. Relayed(f, p).mask = FALSE /\ Relayed(f, p).enc = "plain"
  BY DEF Relayed
<1>2. p.mask \/ p.enc # "plain" \/ f.client_clean
  BY DEF Encodes, Obfuscated
<1>3. ASSUME NEW g \in Form, g.enc = "plain", ~g.mask PROVE Understands(g, Relayed(f, p))
  BY <1>1, <1>3, UnderstandsForm DEF Form
<1>4. p.mask = form.mask /\ p.enc = form.enc => ServerForm.enc = "plain" /\ ~ServerForm.mask
  BY <1>2, TwoForms DEF InStep
<1>5. p.mask = ServerForm.mask /\ p.enc = ServerForm.enc => form.enc = "plain" /\ ~form.mask
  BY <1>2, TwoForms DEF InStep
<1>. QED BY <1>3, <1>4, <1>5, FormAssumption

(* The common tail of both handlers.                                       *)
LEMMA ForwardInStep ==
  ASSUME Deployed, TypeOK, NEW c \in Client, NEW form \in Form, Speaks(c, form),
         NEW from \in {"client", "server"}, NEW to \in {"client", "server"}, from # to,
         NEW f \in Entry, InStep(f, form), NEW p \in Packet,
         IF from = "client" THEN p.mask = form.mask /\ p.enc = form.enc
         ELSE p.mask = ServerForm.mask /\ p.enc = ServerForm.enc,
         Forward(c, from, to, f, p)
  PROVE  /\ InStep(entry'[c], form)
         /\ \A x \in Client : x # c => entry'[x] = entry[x]
         /\ Understood(out')
<1>1. PICK sent \in BOOLEAN :
        /\ entry' = [entry EXCEPT ![c] = IF sent THEN Sent(f, from, time) ELSE f]
        /\ out' = Greeting(c, to, f, p) \cup
                  (IF sent THEN {Send(c, to, Relayed(f, p))} ELSE {})
  BY DEF Forward
<1>2. InStep(Sent(f, from, time), form)
  BY SentInStep DEF TypeOK
<1>3. entry'[c] = (IF sent THEN Sent(f, from, time) ELSE f)
      /\ \A x \in Client : x # c => entry'[x] = entry[x]
  BY <1>1 DEF TypeOK
<1>4. InStep(entry'[c], form)
  BY <1>2, <1>3
<1>5. /\ to = "server" => Understands(ServerForm, Relayed(f, p))
      /\ to = "client" => Understands(form, Relayed(f, p))
  BY EncodedUnderstood, DecodedUnderstood
<1>6. Understood(Greeting(c, to, f, p))
  <2>1. CASE to = "server"
    BY <2>1, GreetingUnderstood
  <2>2. CASE to = "client"
    BY <2>2, GreetingUnderstood
  <2>. QED BY <2>1, <2>2
<1>. DEFINE q == Relayed(f, p)
            o == Send(c, to, q)
<1>7. o.session = c /\ o.to = to /\ o.mask = q.mask /\ o.enc = q.enc
  BY DEF Send
<1>. HIDE DEF q, o
<1>8. ASSUME NEW g, Understands(g, q) PROVE Understands(g, o)
  BY <1>7, <1>8 DEF Understands
<1>9. Understood({o})
  BY <1>5, <1>7, <1>8 DEF Understood, Speaks, q
<1>10. Understood(out')
  BY <1>1, <1>6, <1>9 DEF Understood, o, q
<1>. QED BY <1>3, <1>4, <1>10

----------------------------------------------------------------------------
(* The inductive invariant.                                                *)
IInv == TypeOK /\ TableSound /\ EntriesInStep /\ Understood(out)

LEMMA InitIInv == ASSUME Deployed PROVE Init => EntriesInStep /\ Understood(out)
<1>. SUFFICES ASSUME Init PROVE EntriesInStep /\ Understood(out)
  OBVIOUS
<1>1. Understood(out)
  BY DEF Init, Understood
<1>2. ASSUME NEW c \in live, NEW form \in Form, Speaks(c, form) PROVE InStep(entry[c], form)
  <2>1. c \in StaticClient /\ entry[c] = Static
    BY TableAssumption DEF Init
  <2>. QED BY <1>2, <2>1, StaticInStep
<1>. QED BY <1>1, <1>2 DEF EntriesInStep

(* A step that leaves the table alone, or takes sessions out of it.        *)
LEMMA QuietInStep ==
  ASSUME EntriesInStep, live' \subseteq live, \A c \in live' : entry'[c] = entry[c]
  PROVE  EntriesInStep'
BY DEF EntriesInStep

LEMMA FromClientInStep ==
  ASSUME Deployed, IInv, NEW c \in Client, NEW p \in ClientPackets(c), FromClient(c, p)
  PROVE  EntriesInStep' /\ Understood(out')
<1>1. PICK form \in Form : Speaks(c, form)
  BY DEF Deployed
<1>2. p \in Packet /\ p.mask = form.mask /\ p.enc = form.enc
  BY <1>1, ClientForm
<1>3. \A g \in Form : Speaks(c, g) => g = form
  BY <1>1 DEF Speaks
<1>. DEFINE e == ClientView(c, p)
            f == After(e, p, "client", time)
<1>4. time \in Nat
  BY DEF IInv, TypeOK
<1>5. e \in Entry /\ InStep(f, form)
  <2>1. CASE c \in live
    <3>1. e = entry[c] /\ e \in Entry /\ InStep(e, form)
      BY <1>1, <2>1 DEF ClientView, IInv, TypeOK, EntriesInStep
    <3>. QED BY <1>1, <1>2, <1>4, <3>1, AfterInStep
  <2>2. CASE c \notin live
    <3>1. e = Fresh(p, time) /\ p.type = "init" /\ Accepts(e, p, "client", time)
      BY <2>2 DEF ClientView, FromClient
    <3>2. e \in Entry
      BY <1>2, <1>4, <3>1, FreshType
    <3>. QED BY <1>1, <1>2, <1>4, <3>1, <3>2, FirstInStep
  <2>. QED BY <2>1, <2>2
<1>6. f \in Entry
  BY <1>2, <1>4, <1>5, AfterType
<1>7. live' = live \cup {c} /\ Forward(c, "client", "server", f, p)
  BY DEF FromClient
<1>. HIDE DEF e, f
<1>8. /\ InStep(entry'[c], form) /\ Understood(out')
      /\ \A x \in Client : x # c => entry'[x] = entry[x]
  BY <1>1, <1>2, <1>5, <1>6, <1>7, ForwardInStep DEF IInv
<1>9. EntriesInStep'
  BY <1>3, <1>7, <1>8 DEF EntriesInStep, IInv, TypeOK
<1>. QED BY <1>8, <1>9

LEMMA FromServerInStep ==
  ASSUME Deployed, IInv, NEW c \in Client, NEW p \in ServerPackets, FromServer(c, p)
  PROVE  EntriesInStep' /\ Understood(out')
<1>1. PICK form \in Form : Speaks(c, form)
  BY DEF Deployed
<1>2. p \in Packet /\ p.mask = ServerForm.mask /\ p.enc = ServerForm.enc
  BY TargetForm
<1>3. \A g \in Form : Speaks(c, g) => g = form
  BY <1>1 DEF Speaks
<1>4. c \in live /\ live' = live
  BY TableAssumption DEF IInv, TableSound, FromServer, Handle
<1>5. entry[c] \in Entry /\ time \in Nat /\ InStep(entry[c], form)
  BY <1>1, <1>4 DEF IInv, TypeOK, EntriesInStep
<1>. DEFINE f == After(entry[c], p, "server", time)
<1>6. f \in Entry
  BY <1>2, <1>5, AfterType
<1>7. InStep(f, form)
  BY <1>1, <1>2, <1>5, AfterInStep
<1>8. Forward(c, "server", "client", f, p)
  BY DEF FromServer
<1>. HIDE DEF f
<1>9. /\ InStep(entry'[c], form) /\ Understood(out')
      /\ \A x \in Client : x # c => entry'[x] = entry[x]
  BY <1>1, <1>2, <1>6, <1>7, <1>8, ForwardInStep DEF IInv
<1>10. EntriesInStep'
  BY <1>3, <1>4, <1>9 DEF EntriesInStep, IInv, TypeOK
<1>. QED BY <1>9, <1>10

LEMMA EndBatchInStep ==
  ASSUME Deployed, IInv, EndBatch
  PROVE  EntriesInStep' /\ Understood(out')
<1>1. CASE ~CleanupDue
  <2>1. out' = {} /\ UNCHANGED <<live, entry>>
    BY <1>1 DEF EndBatch
  <2>. QED BY <2>1, QuietInStep DEF Understood, IInv
<1>2. CASE CleanupDue
  <2>1. Cleanup
    BY <1>2 DEF EndBatch
  <2>2. ASSUME NEW c \in live', NEW form \in Form, Speaks(c, form)
        PROVE  InStep(entry'[c], form)
    <3>1. c \in live /\ ~Expired(c) /\ c \in Client
      BY <2>1 DEF Cleanup, IInv, TypeOK
    <3>2. entry[c] \in Entry /\ time \in Nat /\ InStep(entry[c], form)
      BY <2>2, <3>1 DEF IInv, TypeOK, EntriesInStep
    <3>3. entry'[c] = IF TimerDue(c) THEN [entry[c] EXCEPT !.last_masking_timer_time = time]
                      ELSE entry[c]
      BY <2>1, <3>1 DEF Cleanup
    <3>. QED BY <3>2, <3>3, TimerInStep
  <2>3. ASSUME NEW o \in out' PROVE Understood({o})
    <3>1. PICK c \in Client : TimerDue(c) /\ o \in Pings(c)
      BY <2>1, <2>3 DEF Cleanup
    <3>2. Understood(Pings(c))
      BY <3>1, PingsUnderstood DEF IInv, TimerDue
    <3>. QED BY <3>1, <3>2 DEF Understood
  <2>. QED BY <2>2, <2>3 DEF EntriesInStep, Understood
<1>. QED BY <1>1, <1>2

LEMMA BindingInStep ==
  ASSUME Deployed, IInv, NEW c \in Client, ClientBinding(c) \/ ServerBinding(c)
  PROVE  EntriesInStep' /\ Understood(out')
<1>1. EntriesInStep'
  BY QuietInStep DEF ClientBinding, ServerBinding, Ignore, IInv
<1>2. CASE ClientBinding(c)
  <2>1. PICK form \in ClientForms[c] : form.mask
    BY <1>2 DEF ClientBinding
  <2>2. \A g \in Form : Speaks(c, g) => g.mask
    BY <2>1 DEF Speaks
  <2>. QED BY <1>1, <1>2, <2>2, BindingUnderstood DEF ClientBinding
<1>3. CASE ServerBinding(c)
  BY <1>1, <1>3, BindingUnderstood DEF ServerBinding
<1>. QED BY <1>2, <1>3

LEMMA DropInStep ==
  ASSUME IInv, NEW c, NEW p, DropFromClient(c, p) \/ DropFromServer(c, p)
  PROVE  EntriesInStep' /\ Understood(out')
<1>1. EntriesInStep'
  BY QuietInStep DEF DropFromClient, DropFromServer, Ignore, IInv
<1>2. out' = {Send(c, "nobody", p)} /\ Send(c, "nobody", p).to = "nobody"
  BY DEF DropFromClient, DropFromServer, Send
<1>. QED BY <1>1, <1>2 DEF Understood

LEMMA NextInStep ==
  ASSUME Deployed, IInv, [Next]_vars
  PROVE  EntriesInStep' /\ Understood(out')
<1>1. ASSUME out' = {}, UNCHANGED <<live, entry>>
      PROVE  EntriesInStep' /\ Understood(out')
  BY <1>1, QuietInStep DEF Understood, IInv
<1>2. CASE Tick \/ Interrupted
  BY <1>1, <1>2 DEF Tick, Interrupted
<1>3. CASE EndBatch
  BY <1>3, EndBatchInStep
<1>4. CASE \E events \in SUBSET (live \cup {Listen}) : Wake(events)
  BY <1>1, <1>4 DEF Wake
<1>5. CASE \E event \in ready : ReadNothing(event)
  BY <1>1, <1>5 DEF ReadNothing, Ignore
<1>6. CASE \E c \in Client : ClientBinding(c) \/ ServerBinding(c)
  BY <1>6, BindingInStep
<1>7. CASE \E c \in Client : \E p \in ClientPackets(c) : FromClient(c, p) \/ DropFromClient(c, p)
  BY <1>7, FromClientInStep, DropInStep
<1>8. CASE \E c \in Client : \E p \in ServerPackets : FromServer(c, p) \/ DropFromServer(c, p)
  BY <1>8, FromServerInStep, DropInStep
<1>9. CASE UNCHANGED vars
  BY <1>9, QuietInStep DEF vars, Understood, IInv
<1>. QED BY <1>2, <1>3, <1>4, <1>5, <1>6, <1>7, <1>8, <1>9 DEF Next

(* Whatever the obfuscator sends to a peer that sticks to one form is in a *)
(* form that peer takes: for every set of clients set up as README.md has  *)
(* it, in any order of packets, sweeps and signals, the mask an entry      *)
(* detected, the version it fell back to, its clean flag and its ping      *)
(* flags stay in step with what its two peers speak.                       *)
THEOREM PeersAlwaysUnderstand == ASSUME Deployed PROVE Spec => []PeersUnderstand
<1>1. Init => EntriesInStep /\ Understood(out)
  BY InitIInv
<1>2. TypeOK /\ TableSound /\ EntriesInStep /\ Understood(out) /\ [Next]_vars
        => EntriesInStep' /\ Understood(out)'
  BY NextInStep DEF IInv, Understood
<1>3. TypeOK /\ Understood(out) => PeersUnderstand
  BY UnderstoodSuffices DEF TypeOK
<1>. QED BY <1>1, <1>2, <1>3, TypeCorrect, TableStaysSound, PTL DEF Spec

----------------------------------------------------------------------------
(* Clients that change how they speak.  What an entry has of its client's  *)
(* last request.                                                           *)
AsAsked(e, form) ==
  /\ e.client_clean <=> form.enc = "plain"
  /\ e.masking_handler = "STUN" <=> form.mask
  /\ form.mask => form.enc # "plain"
  /\ form.enc = "v0" => e.version = 0

FInv ==
  /\ \A c \in live : spoke[c] # Unasked => AsAsked(entry[c], spoke[c])
  /\ AllowClean \/ \A c \in Client : ~entry[c].client_clean

(* All that AsAsked asks of an entry, from a step to the next.             *)
Kept(e, f) ==
  /\ f.client_clean <=> e.client_clean
  /\ f.masking_handler = e.masking_handler
  /\ e.version = 0 => f.version = 0

LEMMA KeptAsAsked ==
  ASSUME NEW e, NEW f, NEW form, Kept(e, f), AsAsked(e, form) PROVE AsAsked(f, form)
BY DEF Kept, AsAsked

LEMMA AfterKeeps ==
  ASSUME NEW e \in Entry, NEW p \in Packet, NEW from, NEW now \in Nat,
         ~(from = "client" /\ p.type = "init")
  PROVE  Kept(e, After(e, p, from, now))
<1>1. ASSUME NEW f \in Entry, Kept(e, f) PROVE Kept(e, Downgraded(f, p))
  <2>1. Downgraded(f, p) = [f EXCEPT !.version = IF p.enc = "v0" THEN 0 ELSE f.version]
    BY DEF Downgraded
  <2>. QED BY <1>1, <2>1 DEF Kept, Entry
<1>2. CASE p.type = "init"
  <2>1. AfterInit(e, p, from, now) =
          [e EXCEPT !.handshake_direction = IF from = "client" THEN "C2S" ELSE "S2C",
                    !.last_handshake_request_time = now]
    BY <1>2 DEF AfterInit
  <2>2. Kept(e, AfterInit(e, p, from, now))
    BY <2>1 DEF Kept, Entry
  <2>. QED BY <1>1, <1>2, <2>2, AfterInitType DEF After
<1>3. CASE p.type = "resp"
  <2>1. /\ AfterResp(e, p, from).client_clean = e.client_clean
        /\ AfterResp(e, p, from).masking_handler = e.masking_handler
        /\ AfterResp(e, p, from).version = e.version
    BY DEF AfterResp, Entry
  <2>2. Kept(e, AfterResp(e, p, from))
    BY <2>1 DEF Kept
  <2>. QED BY <1>1, <1>3, <2>2, AfterRespType DEF After
<1>4. CASE p.type \notin {"init", "resp"}
  <2>1. Kept(e, e)
    BY DEF Kept
  <2>. QED BY <1>1, <1>4, <2>1 DEF After
<1>. QED BY <1>2, <1>3, <1>4

LEMMA ForwardKeeps ==
  ASSUME TypeOK, NEW c \in Client, NEW f \in Entry, NEW from, NEW to, NEW p,
         Forward(c, from, to, f, p)
  PROVE  /\ Kept(f, entry'[c])
         /\ \A x \in Client : x # c => entry'[x] = entry[x]
         /\ out' \subseteq Greeting(c, to, f, p) \cup {Send(c, to, Relayed(f, p))}
<1>1. PICK sent \in BOOLEAN :
        /\ entry' = [entry EXCEPT ![c] = IF sent THEN Sent(f, from, time) ELSE f]
        /\ out' = Greeting(c, to, f, p) \cup
                  (IF sent THEN {Send(c, to, Relayed(f, p))} ELSE {})
  BY DEF Forward
<1>2. Kept(f, Sent(f, from, time)) /\ Kept(f, f)
  BY DEF Sent, Kept, Entry
<1>3. entry'[c] = (IF sent THEN Sent(f, from, time) ELSE f)
      /\ \A x \in Client : x # c => entry'[x] = entry[x]
  BY <1>1 DEF TypeOK
<1>. QED BY <1>1, <1>2, <1>3

(* A request puts its entry, new or old, in step with the form it came in. *)
LEMMA RequestAsAsked ==
  ASSUME NEW e \in Entry, NEW p \in Packet, NEW now \in Nat, p.type = "init", Readable(e, p),
         AllowClean \/ (p.enc # "plain" /\ ~e.client_clean)
  PROVE  AsAsked(After(e, p, "client", now), [mask |-> p.mask, enc |-> p.enc])
<1>. DEFINE g == Classified(e, p)
            h == AfterInit(e, p, "client", now)
            form == [mask |-> p.mask, enc |-> p.enc]
<1>1. form.mask = p.mask /\ form.enc = p.enc
  OBVIOUS
<1>2. Obfuscated(p) => p.enc # "plain" /\ (p.mask <=> e.masking_handler = "STUN")
  BY DEF Readable
<1>. HIDE DEF form
<1>3. /\ g \in Entry
      /\ g.client_clean <=> form.enc = "plain"
      /\ g.masking_handler = "STUN" <=> form.mask
      /\ form.mask => form.enc # "plain"
  <2>1. CASE AllowClean /\ ~Obfuscated(p)
    <3>1. g = [e EXCEPT !.client_clean = TRUE, !.masking_handler = "NULL"]
      BY <2>1 DEF Classified
    <3>2. g \in Entry /\ g.client_clean = TRUE /\ g.masking_handler = "NULL"
      BY <3>1 DEF Entry, Handler
    <3>3. p.enc = "plain" /\ ~p.mask
      BY <2>1 DEF Obfuscated
    <3>. QED BY <1>1, <3>2, <3>3
  <2>2. CASE AllowClean /\ Obfuscated(p)
    <3>1. g = [e EXCEPT !.client_clean = FALSE, !.masking_handler = e.masking_handler]
      BY <2>2 DEF Classified
    <3>2. g \in Entry /\ g.client_clean = FALSE /\ g.masking_handler = e.masking_handler
      BY <3>1 DEF Entry
    <3>. QED BY <1>1, <1>2, <2>2, <3>2
  <2>3. CASE ~AllowClean
    <3>1. g = e
      BY <2>3 DEF Classified
    <3>2. Obfuscated(p) /\ p.enc # "plain" /\ ~e.client_clean
      BY <2>3 DEF Obfuscated
    <3>. QED BY <1>1, <1>2, <3>1, <3>2
  <2>. QED BY <2>1, <2>2, <2>3
<1>4. h = [g EXCEPT !.handshake_direction = "C2S", !.last_handshake_request_time = now]
  BY DEF AfterInit
<1>5. After(e, p, "client", now) = [h EXCEPT !.version = IF p.enc = "v0" THEN 0 ELSE h.version]
  BY DEF After, Downgraded
<1>6. h \in Entry
  BY AfterInitType
<1>. HIDE DEF g
<1>7. /\ h.client_clean = g.client_clean /\ h.masking_handler = g.masking_handler
  BY <1>3, <1>4 DEF Entry
<1>. HIDE DEF h
<1>. DEFINE f == After(e, p, "client", now)
<1>8. /\ f.client_clean = h.client_clean /\ f.masking_handler = h.masking_handler
      /\ p.enc = "v0" => f.version = 0
  BY <1>5, <1>6 DEF Entry
<1>. HIDE DEF f
<1>9. AsAsked(f, form)
  BY <1>1, <1>3, <1>7, <1>8 DEF AsAsked
<1>. QED BY <1>9 DEF f, form

(* What an entry in step with its client's last request sends that client. *)
LEMMA PingAnswers ==
  ASSUME NEW e, NEW form \in Form, AsAsked(e, form), e.masking_handler = "STUN",
         NEW c, NEW type
  PROVE  Understands(form, Binding(c, "client", type))
<1>1. form.mask /\ form.enc # "plain"
  BY DEF AsAsked
<1>2. Binding(c, "client", type).mask = TRUE /\ Binding(c, "client", type).enc = "none"
  BY DEF Binding
<1>. QED BY <1>1, <1>2 DEF Understands, Form

LEMMA RelayedAnswers ==
  ASSUME NEW e \in Entry, NEW form \in Form, AsAsked(e, form), NEW p, ~Obfuscated(p), NEW c
  PROVE  Understands(form, Send(c, "client", Relayed(e, p)))
<1>. DEFINE q == Relayed(e, p)
            o == Send(c, "client", q)
            m == e.masking_handler = "STUN"
<1>1. o.mask = q.mask /\ o.enc = q.enc
  BY DEF Send
<1>2. CASE e.client_clean
  <2>1. q.mask = FALSE /\ q.enc = "plain"
    BY <1>2 DEF Relayed, Encodes
  <2>2. form.enc = "plain" /\ ~form.mask
    BY <1>2 DEF AsAsked
  <2>. HIDE DEF o, q
  <2>3. Understands(form, o)
    BY <1>1, <2>1, <2>2, UnderstandsForm DEF Form
  <2>. QED BY <2>3 DEF o, q
<1>3. CASE ~e.client_clean
  <2>1. q = [mask |-> m, enc |-> IF e.version = 0 THEN "v0" ELSE "v1", type |-> p.type]
    BY <1>3 DEF Relayed, Encodes
  <2>2. q.mask = m /\ q.enc = IF e.version = 0 THEN "v0" ELSE "v1"
    BY <2>1
  <2>3. m \in BOOLEAN /\ form.mask \in BOOLEAN /\ (m <=> form.mask)
    BY DEF AsAsked, Form
  <2>. HIDE DEF o, q, m
  <2>4. o.mask = form.mask
    BY <1>1, <2>2, <2>3
  <2>5. form.enc # "plain" /\ (form.enc = "v0" => o.enc = "v0") /\ o.enc \in {"v0", "v1"}
    BY <1>1, <1>3, <2>2 DEF AsAsked
  <2>6. Understands(form, o)
    BY <2>4, <2>5, UnderstandsForm
  <2>. QED BY <2>6 DEF o, q
<1>. QED BY <1>2, <1>3

LEMMA InitForms == Init => FInv /\ AnswersLastRequest
<1>. SUFFICES ASSUME Init PROVE FInv /\ AnswersLastRequest
  OBVIOUS
<1>1. spoke = [c \in Client |-> Unasked] /\ live = StaticClient /\ out = {}
  BY DEF Init
<1>2. ASSUME NEW c \in Client PROVE ~entry[c].client_clean
  <2>1. entry[c] = Static \/ entry[c] = Zeroed
    BY DEF Init
  <2>2. Static.client_clean = FALSE /\ Zeroed.client_clean = FALSE
    BY DEF Static, Zeroed
  <2>. QED BY <2>1, <2>2
<1>. QED BY <1>1, <1>2, TableAssumption DEF FInv, AnswersLastRequest

(* A step that takes no request, as far as the table goes: sessions are    *)
(* left alone, kept or taken out.                                          *)
LEMMA OtherForms ==
  ASSUME FInv, live' \subseteq live, \A c \in live' : c \in Client /\ spoke'[c] = spoke[c],
         \A c \in Client : Kept(entry[c], entry'[c]) \/ (c \notin live' /\ entry'[c] = Zeroed)
  PROVE  FInv'
<1>1. \A c \in live' : spoke'[c] # Unasked => AsAsked(entry'[c], spoke'[c])
  BY KeptAsAsked DEF FInv
<1>2. ASSUME ~AllowClean, NEW c \in Client PROVE ~entry'[c].client_clean
  BY <1>2 DEF FInv, Kept, Zeroed
<1>. QED BY <1>1, <1>2 DEF FInv

(* A request.                                                              *)
LEMMA RequestForms ==
  ASSUME InFront, TypeOK, FInv, NEW c \in Client, NEW p \in ClientPackets(c), FromClient(c, p),
         p.type = "init"
  PROVE  FInv' /\ AnswersLastRequest'
<1>. DEFINE e == ClientView(c, p)
            f == After(e, p, "client", time)
            form == [mask |-> p.mask, enc |-> p.enc]
<1>1. /\ p \in Packet /\ form \in Form /\ form \in ClientForms[c] /\ time \in Nat
      /\ FromClient(c, p) /\ spoke' = [spoke EXCEPT ![c] = form]
  BY DEF ClientPackets, Packet, Form, TypeOK, FromClient, Spoke
<1>2. e \in Entry /\ Readable(e, p)
  <2>1. CASE c \in live
    BY <1>1, <2>1 DEF ClientView, FromClient, Accepts, TypeOK
  <2>2. CASE c \notin live
    BY <1>1, <2>2, FreshType DEF ClientView, FromClient, Accepts
  <2>. QED BY <2>1, <2>2
<1>3. AllowClean \/ (p.enc # "plain" /\ ~e.client_clean)
  <2>1. SUFFICES ASSUME ~AllowClean PROVE p.enc # "plain" /\ ~e.client_clean
    OBVIOUS
  <2>2. form.enc # "plain"
    BY <1>1, <2>1 DEF InFront
  <2>3. CASE c \in live
    BY <2>1, <2>2, <2>3 DEF ClientView, FInv
  <2>4. CASE c \notin live
    <3>1. Fresh(p, time).client_clean = FALSE
      BY DEF Fresh, Zeroed
    <3>. QED BY <2>2, <2>4, <3>1 DEF ClientView
  <2>. QED BY <2>3, <2>4
<1>4. AsAsked(f, form)
  BY <1>1, <1>2, <1>3, RequestAsAsked
<1>5. f \in Entry
  BY <1>1, <1>2, AfterType
<1>6. Forward(c, "client", "server", f, p) /\ live' = live \cup {c}
  BY <1>1 DEF FromClient
<1>7. ~AllowClean => ~f.client_clean
  BY <1>3, <1>4 DEF AsAsked
<1>. HIDE DEF e, f, form
<1>8. /\ Kept(f, entry'[c]) /\ \A x \in Client : x # c => entry'[x] = entry[x]
      /\ out' \subseteq Greeting(c, "server", f, p) \cup {Send(c, "server", Relayed(f, p))}
  BY <1>5, <1>6, ForwardKeeps
<1>9. AsAsked(entry'[c], form) /\ (~AllowClean => ~entry'[c].client_clean)
  BY <1>4, <1>7, <1>8, KeptAsAsked DEF Kept
<1>10. FInv'
  <2>1. spoke'[c] = form /\ \A x \in Client : x # c => spoke'[x] = spoke[x]
    BY <1>1 DEF TypeOK
  <2>2. ASSUME NEW x \in live', spoke'[x] # Unasked PROVE AsAsked(entry'[x], spoke'[x])
    <3>1. CASE x = c
      BY <1>9, <2>1, <3>1
    <3>2. CASE x # c
      <4>1. x \in live /\ x \in Client
        BY <1>6, <3>2 DEF TypeOK
      <4>. QED BY <1>8, <2>1, <2>2, <3>2, <4>1 DEF FInv
    <3>. QED BY <3>1, <3>2
  <2>3. AllowClean \/ \A x \in Client : ~entry'[x].client_clean
    BY <1>8, <1>9 DEF FInv
  <2>. QED BY <2>2, <2>3 DEF FInv
<1>11. \A o \in out' : o.to = "server"
  BY <1>8 DEF Greeting, Binding, Send
<1>. QED BY <1>10, <1>11 DEF AnswersLastRequest

(* Any other packet of a client, and every packet of the target.           *)
LEMMA FromClientForms ==
  ASSUME TypeOK, NEW c \in Client, NEW p \in ClientPackets(c), FromClient(c, p), p.type # "init"
  PROVE  /\ live' = live /\ spoke' = spoke /\ \A x \in Client : Kept(entry[x], entry'[x])
         /\ \A o \in out' : o.to = "server"
<1>. DEFINE f == After(entry[c], p, "client", time)
<1>1. /\ c \in live /\ live' = live /\ Forward(c, "client", "server", f, p)
      /\ spoke' = spoke
  BY DEF FromClient, ClientView, Spoke, TypeOK
<1>2. p \in Packet /\ entry[c] \in Entry /\ time \in Nat
  BY DEF ClientPackets, TypeOK
<1>3. f \in Entry /\ Kept(entry[c], f)
  BY <1>2, AfterType, AfterKeeps
<1>. HIDE DEF f
<1>4. /\ Kept(f, entry'[c]) /\ \A x \in Client : x # c => entry'[x] = entry[x]
      /\ out' \subseteq Greeting(c, "server", f, p) \cup {Send(c, "server", Relayed(f, p))}
  BY <1>1, <1>3, ForwardKeeps
<1>5. \A x \in Client : Kept(entry[x], entry'[x])
  BY <1>3, <1>4 DEF Kept
<1>. QED BY <1>1, <1>4, <1>5 DEF Greeting, Binding, Send

LEMMA FromServerForms ==
  ASSUME InFront, TypeOK, FInv, NEW c \in live, NEW p \in ServerPackets, FromServer(c, p)
  PROVE  /\ live' = live /\ spoke' = spoke /\ \A x \in Client : Kept(entry[x], entry'[x])
         /\ \A o \in out' : o.session = c /\ (spoke[c] # Unasked => Understands(spoke[c], o))
<1>. DEFINE f == After(entry[c], p, "server", time)
<1>1. live' = live /\ spoke' = spoke /\ Forward(c, "server", "client", f, p) /\ c \in Client
  BY DEF FromServer, TypeOK
<1>2. /\ p \in Packet /\ ~Obfuscated(p) /\ entry[c] \in Entry /\ time \in Nat
  BY <1>1 DEF ServerPackets, InFront, Obfuscated, TypeOK
<1>3. f \in Entry /\ Kept(entry[c], f)
  BY <1>2, AfterType, AfterKeeps
<1>. HIDE DEF f
<1>4. /\ Kept(f, entry'[c]) /\ \A x \in Client : x # c => entry'[x] = entry[x]
      /\ out' \subseteq Greeting(c, "client", f, p) \cup {Send(c, "client", Relayed(f, p))}
  BY <1>1, <1>3, ForwardKeeps
<1>5. \A x \in Client : Kept(entry[x], entry'[x])
  BY <1>3, <1>4 DEF Kept
<1>6. ASSUME spoke[c] # Unasked, NEW o \in out' PROVE Understands(spoke[c], o)
  <2>1. spoke[c] \in Form /\ AsAsked(f, spoke[c])
    BY <1>1, <1>3, <1>6, KeptAsAsked DEF FInv, TypeOK
  <2>2. CASE o \in Greeting(c, "client", f, p)
    <3>1. o = Binding(c, "client", "bindreq") /\ f.masking_handler = "STUN"
      BY <2>2 DEF Greeting, Greets
    <3>. QED BY <2>1, <3>1, PingAnswers
  <2>3. CASE o = Send(c, "client", Relayed(f, p))
    BY <1>2, <1>3, <2>1, <2>3, RelayedAnswers
  <2>. QED BY <1>4, <2>2, <2>3
<1>7. \A o \in out' : o.session = c
  BY <1>4 DEF Greeting, Binding, Send
<1>. QED BY <1>1, <1>5, <1>6, <1>7

LEMMA EndBatchForms ==
  ASSUME TypeOK, FInv, EndBatch
  PROVE  /\ live' \subseteq live /\ \A x \in live' : spoke'[x] = spoke[x]
         /\ \A x \in Client : Kept(entry[x], entry'[x]) \/ (x \notin live' /\ entry'[x] = Zeroed)
         /\ \A o \in out' : /\ o.session \in live
                            /\ (o.to = "client" /\ spoke[o.session] # Unasked)
                                 => Understands(spoke[o.session], o)
<1>1. CASE ~CleanupDue
  <2>1. out' = {} /\ live' = live /\ entry' = entry /\ spoke' = spoke
    BY <1>1 DEF EndBatch
  <2>. QED BY <2>1 DEF Kept
<1>2. CASE CleanupDue
  <2>1. Cleanup
    BY <1>2 DEF EndBatch
  <2>2. /\ live' \subseteq live /\ \A x \in Client : Expired(x) => x \notin live'
        /\ \A x \in live' : spoke'[x] = spoke[x]
    BY <2>1 DEF Cleanup, TypeOK
  <2>3. ASSUME NEW x \in Client
        PROVE  Kept(entry[x], entry'[x]) \/ (x \notin live' /\ entry'[x] = Zeroed)
    <3>1. CASE Expired(x)
      BY <2>1, <2>2, <3>1 DEF Cleanup
    <3>2. CASE ~Expired(x)
      <4>1. entry'[x] = IF TimerDue(x) THEN [entry[x] EXCEPT !.last_masking_timer_time = time]
                        ELSE entry[x]
        BY <2>1, <3>2 DEF Cleanup
      <4>2. entry[x] \in Entry
        BY DEF TypeOK
      <4>3. Kept(entry[x], [entry[x] EXCEPT !.last_masking_timer_time = time])
            /\ Kept(entry[x], entry[x])
        BY <4>2 DEF Kept, Entry
      <4>. QED BY <4>1, <4>3
    <3>. QED BY <3>1, <3>2
  <2>4. ASSUME NEW o \in out'
        PROVE  /\ o.session \in live
               /\ (o.to = "client" /\ spoke[o.session] # Unasked)
                    => Understands(spoke[o.session], o)
    <3>1. PICK c \in Client : TimerDue(c) /\ o \in Pings(c)
      BY <2>1 DEF Cleanup
    <3>2. c \in live /\ entry[c].masking_handler = "STUN"
      BY <3>1 DEF TimerDue
    <3>3. o = Binding(c, "client", "bindreq") \/ o = Binding(c, "server", "bindreq")
      BY <3>1 DEF Pings
    <3>4. o.session = c
      BY <3>3 DEF Binding
    <3>5. ASSUME o.to = "client", spoke[c] # Unasked PROVE Understands(spoke[c], o)
      <4>1. o = Binding(c, "client", "bindreq")
        BY <3>3, <3>5 DEF Binding
      <4>2. spoke[c] \in Form /\ AsAsked(entry[c], spoke[c])
        BY <3>1, <3>2, <3>5 DEF FInv, TypeOK
      <4>. QED BY <3>2, <4>1, <4>2, PingAnswers
    <3>. QED BY <3>2, <3>4, <3>5
  <2>. QED BY <2>2, <2>3, <2>4
<1>. QED BY <1>1, <1>2

LEMMA BindingForms ==
  ASSUME TypeOK, FInv, NEW c \in Client, ClientBinding(c) \/ ServerBinding(c)
  PROVE  \A o \in out' : /\ o.session = c
                         /\ (o.to = "client" /\ c \in live /\ spoke[c] # Unasked)
                              => Understands(spoke[c], o)
<1>1. CASE ServerBinding(c)
  BY <1>1 DEF ServerBinding, Binding
<1>2. CASE ClientBinding(c)
  <2>1. out' = {Binding(c, "client", "bindresp")}
    BY <1>2 DEF ClientBinding
  <2>2. ASSUME c \in live, spoke[c] # Unasked
        PROVE  Understands(spoke[c], Binding(c, "client", "bindresp"))
    <3>1. entry[c].masking_handler = "STUN"
      BY <1>2, <2>2 DEF ClientBinding
    <3>2. spoke[c] \in Form /\ AsAsked(entry[c], spoke[c])
      BY <2>2 DEF FInv, TypeOK
    <3>. QED BY <3>1, <3>2, PingAnswers
  <2>3. Binding(c, "client", "bindresp").session = c
    BY DEF Binding
  <2>. QED BY <2>1, <2>2, <2>3
<1>. QED BY <1>1, <1>2

(* Every step that takes no request.                                       *)
NoRequest ==
  /\ live' \subseteq live /\ \A x \in live' : spoke'[x] = spoke[x]
  /\ \A x \in Client : Kept(entry[x], entry'[x]) \/ (x \notin live' /\ entry'[x] = Zeroed)
  /\ \A o \in out' : (o.to = "client" /\ o.session \in live' /\ spoke[o.session] # Unasked)
                     => Understands(spoke[o.session], o)

LEMMA OtherSteps ==
  ASSUME InFront, TypeOK, TableSound, FInv, [Next]_vars,
         ~ \E c \in Client : \E p \in ClientPackets(c) : FromClient(c, p) /\ p.type = "init"
  PROVE  NoRequest \/ UNCHANGED vars
<1>1. ASSUME out' = {}, UNCHANGED <<live, entry, spoke>> PROVE NoRequest
  BY <1>1 DEF NoRequest, Kept
<1>2. CASE Tick \/ Interrupted
  BY <1>1, <1>2 DEF Tick, Interrupted
<1>3. CASE EndBatch
  BY <1>3, EndBatchForms DEF NoRequest
<1>4. CASE \E events \in SUBSET (live \cup {Listen}) : Wake(events)
  BY <1>1, <1>4 DEF Wake
<1>5. CASE \E event \in ready : ReadNothing(event)
  BY <1>1, <1>5 DEF ReadNothing, Ignore
<1>6. CASE \E c \in Client : ClientBinding(c) \/ ServerBinding(c)
  <2>1. PICK c \in Client : ClientBinding(c) \/ ServerBinding(c)
    BY <1>6
  <2>2. live' = live /\ entry' = entry /\ spoke' = spoke
    BY <2>1 DEF ClientBinding, ServerBinding, Ignore
  <2>3. \A o \in out' : (o.to = "client" /\ o.session \in live' /\ spoke[o.session] # Unasked)
                       => Understands(spoke[o.session], o)
    <3>1. \A o \in out' : /\ o.session = c
                          /\ (o.to = "client" /\ c \in live /\ spoke[c] # Unasked)
                               => Understands(spoke[c], o)
      BY <2>1, BindingForms
    <3>. QED BY <2>2, <3>1
  <2>. QED BY <2>2, <2>3 DEF NoRequest, Kept
<1>7. CASE \E c \in Client : \E p \in ClientPackets(c) : FromClient(c, p)
  <2>1. PICK c \in Client : \E p \in ClientPackets(c) : FromClient(c, p)
    BY <1>7
  <2>2. PICK p \in ClientPackets(c) : FromClient(c, p)
    BY <2>1
  <2>. QED BY <2>2, FromClientForms DEF NoRequest
<1>8. CASE \E c \in Client : \E p \in ServerPackets : FromServer(c, p)
  <2>1. PICK c \in Client, p \in ServerPackets : FromServer(c, p)
    BY <1>8
  <2>2. c \in live
    BY <2>1, TableAssumption DEF TableSound, FromServer, Handle
  <2>. QED BY <2>1, <2>2, FromServerForms DEF NoRequest
<1>9. CASE \/ \E c \in Client : \E p \in ClientPackets(c) : DropFromClient(c, p)
           \/ \E c \in Client : \E p \in ServerPackets : DropFromServer(c, p)
  <2>1. PICK c, p : DropFromClient(c, p) \/ DropFromServer(c, p)
    BY <1>9
  <2>2. live' = live /\ entry' = entry /\ spoke' = spoke /\ out' = {Send(c, "nobody", p)}
    BY <2>1 DEF DropFromClient, DropFromServer, Ignore
  <2>3. Send(c, "nobody", p).to = "nobody"
    BY DEF Send
  <2>. QED BY <2>2, <2>3 DEF NoRequest, Kept
<1>. QED BY <1>2, <1>3, <1>4, <1>5, <1>6, <1>7, <1>8, <1>9 DEF Next

LEMMA NextForms ==
  ASSUME InFront, TypeOK, TableSound, FInv, AnswersLastRequest, [Next]_vars
  PROVE  FInv' /\ AnswersLastRequest'
<1>1. CASE UNCHANGED vars
  BY <1>1 DEF vars, FInv, AnswersLastRequest
<1>2. CASE \E c \in Client : \E p \in ClientPackets(c) : FromClient(c, p) /\ p.type = "init"
  BY <1>2, RequestForms
<1>3. CASE NoRequest
  <2>1. \A c \in live' : c \in Client /\ spoke'[c] = spoke[c]
    BY <1>3 DEF NoRequest, TypeOK
  <2>2. FInv'
    BY <1>3, <2>1, OtherForms DEF NoRequest
  <2>3. AnswersLastRequest'
    BY <1>3, <2>1 DEF NoRequest, AnswersLastRequest
  <2>. QED BY <2>2, <2>3
<1>. QED BY <1>1, <1>2, <1>3, OtherSteps

(* Whatever forms its clients change between, and however late packets of  *)
(* an old form are, an obfuscator in front of WireGuard sends a client     *)
(* only what that client takes that sent the session's last request:       *)
(* every request of a client brings mask, clean flag and version in step   *)
(* with its form, and nothing but the next one takes them out of step.     *)
THEOREM LastRequestAnswered == ASSUME InFront PROVE Spec => []AnswersLastRequest
<1>1. TypeOK /\ TableSound /\ FInv /\ AnswersLastRequest /\ [Next]_vars
        => (FInv /\ AnswersLastRequest)'
  BY NextForms
<1>. QED BY InitForms, <1>1, TypeCorrect, TableStaysSound, PTL DEF Spec
=============================================================================
