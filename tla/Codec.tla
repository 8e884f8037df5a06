------------------------------- MODULE Codec -------------------------------
(***************************************************************************)
(* One packet on its way through encode() and a STUN wrapper on one side   *)
(* and the unwrapper and decode() on the other (obfuscation.h,             *)
(* masking_stun.c).  A buffer is its length, its first four bytes and the  *)
(* keystream they are XORed with: XORing twice with the stream of the same *)
(* length class restores them, module Keystream having it that the stream  *)
(* depends on nothing else.                                                *)
(***************************************************************************)
EXTENDS Integers

CONSTANTS XorBytes(_, _),         \* ^ of two bytes
          Lengths,                \* lengths of WireGuard packets
          Rand,                   \* values of rand() for the random byte
          MaxDummyTotal,          \* MAX_DUMMY_LENGTH_TOTAL
          MaxDummyHandshake,      \* MAX_DUMMY_LENGTH_HANDSHAKE
          MaxDummyData,           \* config.max_dummy_length_data
          BufferSize, PrebufferSize,  \* BUFFER_SIZE, PREBUFFER_SIZE
          MaxDatagram             \* what send() takes at most over UDP

StunOverhead == 24                \* sizes of the STUN header and of the data attribute

ASSUME XorAssumption ==
  \A a, b \in 0 .. 255 : XorBytes(a, b) \in 0 .. 255 /\ XorBytes(XorBytes(a, b), b) = a
ASSUME CodecAssumption ==
  /\ MaxDummyTotal \in 0 .. BufferSize
  /\ MaxDummyHandshake \in Nat \ {0} /\ MaxDummyData \in Nat
  /\ BufferSize \in Nat /\ PrebufferSize \in Nat /\ PrebufferSize >= StunOverhead
  /\ MaxDatagram \in 0 .. BufferSize /\ MaxDatagram < 65536
  /\ Lengths \subseteq 4 .. MaxDatagram /\ Rand \subseteq Nat

WGType == 1 .. 4                  \* handshake, response, cookie, data
Handshakes == {1, 2}

VARIABLES stage,     \* "plain", "wire" or "decoded"
          packet,    \* the WireGuard packet: its type and length
          version,   \* the sender's version of the obfuscation
          buffer,    \* the bytes, and where in full_buffer they start
          found      \* the version decode() reports
vars == <<stage, packet, version, buffer, found>>

NoStream == -1           \* in clear; -2: XORed with two different streams

----------------------------------------------------------------------------
(* xor_data *)
Xored(b) ==
  [b EXCEPT !.stream = CASE @ = NoStream -> b.length % 256
                         [] @ = b.length % 256 -> NoStream
                         [] OTHER -> -2]

(* is_obfuscated: what is under a keystream is no WireGuard type. *)
IsObfuscated(b) ==
  b.stream # NoStream \/ b.head[1] \notin WGType \/ \E i \in 2 .. 4 : b.head[i] # 0

AtMost(a, b) == IF a < b THEN a ELSE b

(* Mutant of MaxDummy: the total is not limited. *)
MaxDummyUnlimited(type, length) ==
  IF type \in Handshakes THEN MaxDummyHandshake ELSE MaxDummyData

(* The modulus of the random dummy length, 0 for no dummy data. *)
MaxDummy(type, length) ==
  AtMost(MaxDummyTotal - length, IF type \in Handshakes THEN MaxDummyHandshake ELSE MaxDummyData)

DummyLengths(type, length) ==
  IF length < MaxDummyTotal /\ MaxDummy(type, length) > 0
  THEN 0 .. MaxDummy(type, length) - 1 ELSE {0}

(* Mutant of RandomByte: zero is allowed. *)
AnyByte(rand) == rand % 256

RandomByte(rand) == 1 + (rand % 255)

(* encode() with version 1 or later, before the XOR. *)
Padded(b, type, rand, dummy) ==
  [b EXCEPT !.length = @ + dummy,
     !.head = <<XorBytes(b.head[1], RandomByte(rand)), RandomByte(rand),
                IF b.length < MaxDummyTotal THEN dummy % 256 ELSE b.head[3],
                IF b.length < MaxDummyTotal THEN dummy \div 256 ELSE b.head[4]>>]

(* stun_wrap: the data length is a 16-bit field of the header in front. *)
Wrapped(b) ==
  [b EXCEPT !.start = @ - StunOverhead, !.length = @ + StunOverhead, !.data_len = b.length % 65536]

(* stun_unwrap, and 0 for what does not fit: nothing is left to handle. *)
Unwrapped(b) ==
  [b EXCEPT !.start = @ + StunOverhead,
     !.length = IF b.data_len + StunOverhead <= b.length THEN b.data_len ELSE 0]

(* decode() *)
Decoded(b) ==
  LET x == Xored(b) IN
  IF ~IsObfuscated(x) THEN [buffer |-> x, version |-> 0]
  ELSE [buffer |-> [x EXCEPT !.head = <<XorBytes(x.head[1], x.head[2]), 0, 0, 0>>,
                             !.length = @ - (x.head[3] + 256 * x.head[4])],
        version |-> 1]

----------------------------------------------------------------------------
Received(p) == [start |-> PrebufferSize, length |-> p.length, stream |-> NoStream,
                head |-> <<p.type, 0, 0, 0>>, masked |-> FALSE, data_len |-> 0]

Init ==
  /\ stage = "plain" /\ found = 1
  /\ packet \in [type : WGType, length : Lengths]
  /\ version \in {0, 1}
  /\ buffer = Received(packet)

(* The sending side: encode(), then masking_data_wrap if there is a mask. *)
Encode(rand, dummy, mask) ==
  /\ stage = "plain" /\ stage' = "wire"
  /\ buffer' =
       LET e == Xored(IF version = 0 THEN buffer ELSE Padded(buffer, packet.type, rand, dummy)) IN
       IF mask THEN [Wrapped(e) EXCEPT !.masked = TRUE] ELSE e
  /\ UNCHANGED <<packet, version, found>>

(* The receiving side reads it into a buffer of its own; a datagram that   *)
(* has outgrown UDP was never sent.                                        *)
Decode ==
  /\ stage = "wire" /\ buffer.length <= MaxDatagram
  /\ stage' = "decoded"
  /\ LET r == [buffer EXCEPT !.start = PrebufferSize]
         d == Decoded(IF r.masked THEN [Unwrapped(r) EXCEPT !.masked = FALSE] ELSE r) IN
     buffer' = d.buffer /\ found' = d.version
  /\ UNCHANGED <<packet, version>>

Next ==
  \/ \E rand \in Rand, mask \in BOOLEAN : \E dummy \in DummyLengths(packet.type, packet.length) :
       (version = 0 => dummy = 0) /\ Encode(rand, dummy, mask)
  \/ Decode

Spec == Init /\ [][Next]_vars

----------------------------------------------------------------------------
(* Properties.                                                             *)

(* What one obfuscator encodes another one decodes, whatever the random    *)
(* byte, the dummy data and the mask, and it is told the sender's version: *)
(* a packet of version 1 never looks like one of version 0.                *)
RoundTrip ==
  stage = "decoded" =>
    /\ buffer.stream = NoStream /\ buffer.head = <<packet.type, 0, 0, 0>>
    /\ buffer.length = packet.length /\ found = version

(* wg-obfuscator.h, README.md: dummy data makes no packet longer than      *)
(* MAX_DUMMY_LENGTH_TOTAL.  And no step leaves the buffer of the program,  *)
(* neither at its front nor at its end.                                    *)
StaysInBuffer ==
  /\ stage = "wire" => LET length == buffer.length - IF buffer.masked THEN StunOverhead ELSE 0 IN
                       length = packet.length \/ length <= MaxDummyTotal
  /\ buffer.start >= 0 /\ buffer.start + buffer.length <= PrebufferSize + BufferSize
=============================================================================
