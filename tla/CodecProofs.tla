---------------------------- MODULE CodecProofs ----------------------------
(***************************************************************************)
(* That what Codec encodes it decodes again, inside the buffer, for all    *)
(* lengths, random bytes, dummy data and limits, from no more of ^ than    *)
(* that it undoes itself.  The inductive invariant says what is on the     *)
(* wire in terms of the packet: OnWire.                                    *)
(***************************************************************************)
EXTENDS Codec, TLAPS

Head == Int \X Int \X Int \X Int
Buffer == [start : Int, length : Int, stream : Int, head : Head, masked : BOOLEAN,
           data_len : Int]

TypeOK ==
  /\ stage \in {"plain", "wire", "decoded"} /\ found \in {0, 1} /\ version \in {0, 1}
  /\ packet \in [type : WGType, length : Lengths]
  /\ buffer \in Buffer

(* What an encoded packet looks like, dummy bytes longer than it was.  In  *)
(* version 1 the first byte is XORed with the second, which is not zero,   *)
(* and the last two tell the length of the dummy data.                     *)
Carries(b, dummy) ==
  /\ version = 0 => dummy = 0 /\ b.head = <<packet.type, 0, 0, 0>>
  /\ version = 1 => \E r \in 1 .. 255 :
                      /\ b.head[1] = XorBytes(packet.type, r) /\ b.head[2] = r
                      /\ b.head[3] + 256 * b.head[4] = dummy

Overhead(b) == IF b.masked THEN StunOverhead ELSE 0

OnWire(b, dummy) ==
  /\ b.start = PrebufferSize - Overhead(b)
  /\ b.length = packet.length + dummy + Overhead(b)
  /\ b.masked => b.data_len = (packet.length + dummy) % 65536
  /\ b.stream = (packet.length + dummy) % 256
  /\ Carries(b, dummy)

OnItsWay ==
  CASE stage = "plain" -> buffer = Received(packet) /\ found = 1
    [] stage = "wire" -> \E dummy \in DummyLengths(packet.type, packet.length) :
                           OnWire(buffer, dummy)
    [] OTHER -> RoundTrip /\ StaysInBuffer

----------------------------------------------------------------------------
LEMMA Sizes ==
  /\ \A length \in Lengths : length \in Nat /\ length >= 4 /\ length <= MaxDatagram
  /\ MaxDummyTotal \in Nat /\ MaxDummyTotal <= BufferSize /\ MaxDatagram \in Nat
  /\ MaxDatagram <= BufferSize /\ MaxDatagram < 65536 /\ BufferSize \in Nat
  /\ PrebufferSize \in Nat /\ PrebufferSize >= StunOverhead /\ StunOverhead = 24
BY CodecAssumption DEF StunOverhead

LEMMA XorUndone ==
  ASSUME NEW a \in 0 .. 255, NEW b \in 0 .. 255
  PROVE  XorBytes(a, b) \in 0 .. 255 /\ XorBytes(XorBytes(a, b), b) = a
BY XorAssumption, Zenon

(* Dummy data fills a packet up to MaxDummyTotal at most. *)
LEMMA DummyBounds ==
  ASSUME NEW type, NEW length \in Lengths, NEW dummy \in DummyLengths(type, length)
  PROVE  /\ dummy \in Nat
         /\ length + dummy = length \/ length + dummy <= MaxDummyTotal
         /\ length >= MaxDummyTotal => dummy = 0
<1>. DEFINE most == MaxDummy(type, length)
<1>1. CASE length < MaxDummyTotal /\ most > 0
  <2>1. dummy \in 0 .. most - 1
    BY <1>1 DEF DummyLengths
  <2>2. most \in Int /\ most <= MaxDummyTotal - length
    BY Sizes, CodecAssumption DEF MaxDummy, AtMost
  <2>. HIDE DEF most
  <2>. QED BY <1>1, <2>1, <2>2, Sizes
<1>2. CASE ~(length < MaxDummyTotal /\ most > 0)
  <2>1. dummy = 0
    BY <1>2 DEF DummyLengths
  <2>. QED BY <2>1, Sizes
<1>. QED BY <1>1, <1>2

LEMMA ReceivedType ==
  ASSUME packet \in [type : WGType, length : Lengths]
  PROVE  Received(packet) \in Buffer
<1>1. packet.length \in Int /\ packet.type \in Int
  BY Sizes DEF WGType
<1>2. PrebufferSize \in Int /\ NoStream \in Int
  BY Sizes DEF NoStream
<1>. QED BY <1>1, <1>2 DEF Received, Buffer, Head

LEMMA RandomByteRange == \A rand \in Nat : RandomByte(rand) \in 1 .. 255
BY DEF RandomByte

(* Records that differ in one field only. *)
LEMMA NewMask ==
  ASSUME NEW x \in Buffer
  PROVE  LET y == [x EXCEPT !.masked = TRUE] IN
         /\ y \in Buffer /\ y.start = x.start /\ y.stream = x.stream /\ y.masked = TRUE
         /\ y.head = x.head /\ y.length = x.length /\ y.data_len = x.data_len
BY DEF Buffer

LEMMA SameHead ==
  ASSUME NEW b, NEW c, b.head = c.head, NEW dummy, Carries(b, dummy) PROVE Carries(c, dummy)
BY DEF Carries

LEMMA WrappedType ==
  ASSUME NEW x \in Buffer, NEW length \in Nat, x.start = PrebufferSize, x.length = length
  PROVE  LET w == Wrapped(x) IN
         /\ w \in Buffer /\ w.start = PrebufferSize - StunOverhead
         /\ w.length = length + StunOverhead /\ w.data_len = length % 65536
         /\ w.head = x.head /\ w.stream = x.stream
<1>. DEFINE w == Wrapped(x)
<1>1. /\ length % 65536 \in Int /\ PrebufferSize - StunOverhead \in Int
      /\ length + StunOverhead \in Int
  BY Sizes
<1>. DEFINE start == PrebufferSize - StunOverhead
            total == length + StunOverhead
            data == length % 65536
<1>2. w = [x EXCEPT !.start = start, !.length = total, !.data_len = data]
  BY DEF Wrapped
<1>3. start \in Int /\ total \in Int /\ data \in Int
  BY <1>1
<1>. HIDE DEF w, start, total, data
<1>4. /\ w \in Buffer /\ w.start = start /\ w.length = total /\ w.data_len = data
      /\ w.head = x.head /\ w.stream = x.stream
  BY <1>2, <1>3 DEF Buffer
<1>. QED BY <1>4 DEF start, total, data, w

(* encode(), before the XOR. *)
LEMMA PaddedCarries ==
  ASSUME TypeOK, buffer = Received(packet), NEW rand \in Rand,
         NEW dummy \in DummyLengths(packet.type, packet.length), version = 0 => dummy = 0
  PROVE  LET e == IF version = 0 THEN buffer ELSE Padded(buffer, packet.type, rand, dummy) IN
         /\ e \in Buffer /\ Carries(e, dummy)
         /\ e.start = PrebufferSize /\ e.length = packet.length + dummy
         /\ e.stream = NoStream /\ e.masked = FALSE
<1>1. packet.type \in 0 .. 255 /\ packet.length \in Lengths /\ packet.length \in Nat
  BY Sizes DEF TypeOK, WGType
<1>2. /\ buffer \in Buffer /\ buffer.start = PrebufferSize /\ buffer.length = packet.length
      /\ buffer.stream = NoStream /\ buffer.head = <<packet.type, 0, 0, 0>>
      /\ buffer.masked = FALSE
  BY DEF TypeOK, Received
<1>3. CASE version = 0
  BY <1>1, <1>2, <1>3 DEF Carries
<1>4. CASE version = 1
  <2>. DEFINE r == RandomByte(rand)
              lo == IF packet.length < MaxDummyTotal THEN dummy % 256 ELSE 0
              hi == IF packet.length < MaxDummyTotal THEN dummy \div 256 ELSE 0
              e == Padded(buffer, packet.type, rand, dummy)
  <2>1. r \in 1 .. 255
    BY RandomByteRange, CodecAssumption
  <2>2. dummy \in Nat /\ lo \in Int /\ hi \in Int /\ lo + 256 * hi = dummy
    BY <1>1, DummyBounds, Sizes
  <2>4. e = [buffer EXCEPT !.length = packet.length + dummy,
                           !.head = <<XorBytes(packet.type, r), r, lo, hi>>]
    BY <1>2 DEF Padded
  <2>. HIDE DEF r, lo, hi, e
  <2>3. XorBytes(packet.type, r) \in Int
    <3>1. r \in 0 .. 255
      BY <2>1
    <3>2. XorBytes(packet.type, r) \in 0 .. 255
      BY <1>1, <3>1, XorUndone, Zenon
    <3>. QED BY <3>2
  <2>. DEFINE head == <<XorBytes(packet.type, r), r, lo, hi>>
  <2>5. head \in Head
    BY <2>1, <2>2, <2>3 DEF Head
  <2>6. /\ e \in Buffer /\ e.start = PrebufferSize /\ e.length = packet.length + dummy
        /\ e.stream = NoStream /\ e.masked = FALSE /\ e.head = head
    <3>. HIDE DEF head
    <3>1. packet.length + dummy \in Int
      BY <1>1, <2>2
    <3>. QED BY <1>2, <2>4, <2>5, <3>1 DEF Buffer, head
  <2>7. Carries(e, dummy)
    BY <1>4, <2>1, <2>2, <2>6 DEF Carries
  <2>. QED BY <1>4, <2>6, <2>7 DEF e
<1>. QED BY <1>3, <1>4 DEF TypeOK

LEMMA EncodeOnWire ==
  ASSUME TypeOK, OnItsWay, NEW rand \in Rand, NEW mask \in BOOLEAN,
         NEW dummy \in DummyLengths(packet.type, packet.length), version = 0 => dummy = 0,
         Encode(rand, dummy, mask)
  PROVE  TypeOK' /\ OnItsWay'
<1>. DEFINE e == IF version = 0 THEN buffer ELSE Padded(buffer, packet.type, rand, dummy)
            x == Xored(e)
            b == IF mask THEN [Wrapped(x) EXCEPT !.masked = TRUE] ELSE x
<1>1. /\ stage = "plain" /\ stage' = "wire" /\ UNCHANGED <<packet, version, found>>
      /\ buffer' = b
  BY DEF Encode
<1>2. buffer = Received(packet)
  BY <1>1 DEF OnItsWay
<1>3. /\ e \in Buffer /\ Carries(e, dummy)
      /\ e.start = PrebufferSize /\ e.length = packet.length + dummy
      /\ e.stream = NoStream /\ e.masked = FALSE
  BY <1>2, PaddedCarries
<1>4. packet.length \in Nat /\ dummy \in Nat
  BY DummyBounds, Sizes DEF TypeOK
<1>. HIDE DEF e
<1>5. x = [e EXCEPT !.stream = (packet.length + dummy) % 256]
  BY <1>3 DEF Xored
<1>6. /\ x \in Buffer /\ x.head = e.head /\ x.start = PrebufferSize /\ x.masked = FALSE
      /\ x.length = packet.length + dummy /\ x.stream = (packet.length + dummy) % 256
  <2>1. (packet.length + dummy) % 256 \in Int
    BY <1>4
  <2>. QED BY <1>3, <1>5, <2>1 DEF Buffer
<1>. HIDE DEF x
<1>7. ASSUME mask PROVE b \in Buffer /\ OnWire(b, dummy)
  <2>. DEFINE w == Wrapped(x)
  <2>1. /\ w \in Buffer /\ w.start = PrebufferSize - StunOverhead
        /\ w.length = packet.length + dummy + StunOverhead
        /\ w.data_len = (packet.length + dummy) % 65536
        /\ w.head = e.head /\ w.stream = x.stream
    BY <1>4, <1>6, WrappedType
  <2>2. b = [w EXCEPT !.masked = TRUE]
    BY <1>7
  <2>. HIDE DEF b, w
  <2>3. /\ b \in Buffer /\ b.head = e.head /\ b.masked = TRUE
        /\ b.start = PrebufferSize - StunOverhead
        /\ b.length = packet.length + dummy + StunOverhead
        /\ b.data_len = (packet.length + dummy) % 65536
        /\ b.stream = (packet.length + dummy) % 256
    <3>. DEFINE y == [w EXCEPT !.masked = TRUE]
    <3>1. /\ y \in Buffer /\ y.start = w.start /\ y.stream = w.stream /\ y.masked = TRUE
          /\ y.head = w.head /\ y.length = w.length /\ y.data_len = w.data_len
      BY <2>1, NewMask
    <3>2. b = y
      BY <2>2
    <3>. HIDE DEF y
    <3>. QED BY <1>6, <2>1, <3>1, <3>2
  <2>4. OnWire(b, dummy)
    BY <1>3, <2>3 DEF OnWire, Overhead, Carries
  <2>. QED BY <2>3, <2>4
<1>8. ASSUME ~mask PROVE b \in Buffer /\ OnWire(b, dummy)
  <2>1. b = x
    BY <1>8
  <2>2. OnWire(x, dummy)
    BY <1>3, <1>4, <1>6, Sizes DEF OnWire, Overhead, Carries
  <2>. QED BY <1>6, <2>1, <2>2
<1>9. b \in Buffer /\ OnWire(b, dummy)
  BY <1>7, <1>8
<1>. HIDE DEF b
<1>10. TypeOK'
  BY <1>1, <1>9 DEF TypeOK
<1>11. (OnWire(buffer, dummy))'
  BY <1>1, <1>9 DEF OnWire, Overhead, Carries
<1>12. DummyLengths(packet'.type, packet'.length) = DummyLengths(packet.type, packet.length)
  BY <1>1
<1>. QED BY <1>1, <1>10, <1>11, <1>12 DEF OnItsWay

----------------------------------------------------------------------------
(* Unwrapped, and with the right stream under it, a packet is decoded.     *)
LEMMA DecodedExactly ==
  ASSUME NEW b \in Buffer, NEW dummy \in Nat, packet \in [type : WGType, length : Lengths],
         version \in {0, 1}, Carries(b, dummy), b.length = packet.length + dummy,
         b.stream = b.length % 256
  PROVE  LET d == Decoded(b) IN
         /\ d.buffer \in Buffer /\ d.buffer.start = b.start /\ d.buffer.stream = NoStream
         /\ d.buffer.head = <<packet.type, 0, 0, 0>> /\ d.buffer.length = packet.length
         /\ d.buffer.masked = b.masked /\ d.version = version
<1>. DEFINE x == Xored(b)
            d == Decoded(b)
<1>0. packet.length \in Nat /\ packet.type \in 0 .. 255 /\ packet.type \in WGType
  BY Sizes DEF WGType
<1>1. x = [b EXCEPT !.stream = NoStream]
  <2>1. b.length % 256 # NoStream
    BY <1>0 DEF NoStream
  <2>. QED BY <2>1 DEF Xored
<1>2. /\ x \in Buffer /\ x.start = b.start /\ x.length = packet.length + dummy
      /\ x.stream = NoStream /\ x.head = b.head /\ x.masked = b.masked
  BY <1>1 DEF Buffer, NoStream
<1>. HIDE DEF x
<1>3. ASSUME version = 0
      PROVE  d.buffer = x /\ d.version = 0 /\ x.head = <<packet.type, 0, 0, 0>>
  <2>1. x.head = <<packet.type, 0, 0, 0>> /\ dummy = 0
    BY <1>2, <1>3 DEF Carries
  <2>2. ~IsObfuscated(x)
    BY <1>0, <1>2, <2>1 DEF IsObfuscated
  <2>. QED BY <2>1, <2>2 DEF Decoded, x
<1>4. ASSUME version = 1
      PROVE  /\ d.buffer = [x EXCEPT !.head = <<packet.type, 0, 0, 0>>, !.length = packet.length]
             /\ d.version = 1
  <2>1. PICK r \in 1 .. 255 : /\ x.head[1] = XorBytes(packet.type, r) /\ x.head[2] = r
                              /\ x.head[3] + 256 * x.head[4] = dummy
    BY <1>2, <1>4 DEF Carries
  <2>2. IsObfuscated(x)
    BY <2>1 DEF IsObfuscated
  <2>3. XorBytes(x.head[1], x.head[2]) = packet.type
    <3>1. r \in 0 .. 255
      BY <2>1
    <3>2. XorBytes(XorBytes(packet.type, r), r) = packet.type
      BY <1>0, <3>1, XorUndone, Zenon
    <3>. QED BY <2>1, <3>2
  <2>4. x.length - (x.head[3] + 256 * x.head[4]) = packet.length
    BY <1>0, <1>2, <2>1
  <2>5. /\ d.buffer = [x EXCEPT !.head = <<XorBytes(x.head[1], x.head[2]), 0, 0, 0>>,
                                !.length = x.length - (x.head[3] + 256 * x.head[4])]
        /\ d.version = 1
    BY <2>2 DEF Decoded, x
  <2>. QED BY <2>3, <2>4, <2>5
<1>. DEFINE head == <<packet.type, 0, 0, 0>>
<1>5. head \in Head
  BY <1>0 DEF Head
<1>. HIDE DEF d, head
<1>6. CASE version = 0
  <2>1. dummy = 0
    BY <1>6 DEF Carries
  <2>. QED BY <1>0, <1>2, <1>3, <1>6, <2>1 DEF d
<1>7. CASE version = 1
  <2>1. d.buffer = [x EXCEPT !.head = head, !.length = packet.length] /\ d.version = 1
    BY <1>4, <1>7 DEF head
  <2>2. /\ d.buffer \in Buffer /\ d.buffer.start = b.start /\ d.buffer.stream = NoStream
        /\ d.buffer.head = head /\ d.buffer.length = packet.length
        /\ d.buffer.masked = b.masked
    <3>1. x \in Buffer /\ packet.length \in Int
      BY <1>0, <1>2
    <3>. DEFINE y == [x EXCEPT !.head = head, !.length = packet.length]
    <3>2. /\ y \in Buffer /\ y.start = x.start /\ y.stream = x.stream
          /\ y.masked = x.masked /\ y.head = head /\ y.length = packet.length
      BY <1>5, <3>1 DEF Buffer
    <3>3. d.buffer = y
      BY <2>1
    <3>. HIDE DEF y
    <3>. QED BY <1>2, <3>2, <3>3
  <2>. QED BY <1>7, <2>1, <2>2 DEF d, head
<1>. QED BY <1>6, <1>7

LEMMA DecodeRestores ==
  ASSUME TypeOK, OnItsWay, Decode PROVE TypeOK' /\ OnItsWay'
<1>. DEFINE r == [buffer EXCEPT !.start = PrebufferSize]
            u == IF r.masked THEN [Unwrapped(r) EXCEPT !.masked = FALSE] ELSE r
            d == Decoded(u)
<1>1. /\ stage = "wire" /\ buffer.length <= MaxDatagram /\ stage' = "decoded"
      /\ buffer' = d.buffer /\ found' = d.version /\ UNCHANGED <<packet, version>>
  BY DEF Decode
<1>2. PICK dummy \in DummyLengths(packet.type, packet.length) : OnWire(buffer, dummy)
  BY <1>1 DEF OnItsWay
<1>3. /\ dummy \in Nat /\ packet.length \in Nat /\ packet.length <= MaxDatagram
      /\ packet \in [type : WGType, length : Lengths] /\ version \in {0, 1}
  BY DummyBounds, Sizes DEF TypeOK
<1>4. /\ r \in Buffer /\ r.start = PrebufferSize /\ r.length = buffer.length
      /\ r.stream = buffer.stream /\ r.head = buffer.head /\ r.masked = buffer.masked
      /\ r.data_len = buffer.data_len
  <2>1. PrebufferSize \in Int
    BY Sizes
  <2>. QED BY <2>1 DEF TypeOK, Buffer
<1>. HIDE DEF r
<1>5. /\ u \in Buffer /\ Carries(u, dummy) /\ u.length = packet.length + dummy
      /\ u.stream = u.length % 256 /\ u.masked = FALSE
      /\ u.start >= 0 /\ u.start + packet.length <= PrebufferSize + BufferSize
  <2>1. CASE r.masked
    <3>1. /\ buffer.length = packet.length + dummy + StunOverhead
          /\ buffer.data_len = (packet.length + dummy) % 65536
      BY <1>2, <1>4, <2>1 DEF OnWire, Overhead
    <3>2. buffer.data_len = packet.length + dummy
      BY <1>1, <1>3, <3>1, Sizes
    <3>3. r.data_len + StunOverhead <= r.length
      BY <1>3, <1>4, <3>1, <3>2, Sizes
    <3>4. u = [start |-> PrebufferSize + StunOverhead, length |-> packet.length + dummy,
               stream |-> r.stream, head |-> r.head, masked |-> FALSE,
               data_len |-> packet.length + dummy]
      BY <1>4, <2>1, <3>2, <3>3 DEF Unwrapped, Buffer
    <3>5. PrebufferSize + StunOverhead \in Int /\ packet.length + dummy \in Int
      BY <1>3, Sizes
    <3>. HIDE DEF u
    <3>6. /\ u \in Buffer /\ u.head = buffer.head /\ u.length = packet.length + dummy
          /\ u.stream = buffer.stream /\ u.masked = FALSE
          /\ u.start = PrebufferSize + StunOverhead
      BY <1>4, <3>4, <3>5 DEF Buffer
    <3>7. u.start >= 0 /\ u.start + packet.length <= PrebufferSize + BufferSize
      BY <1>1, <1>3, <3>1, <3>6, Sizes
    <3>8. Carries(u, dummy) /\ u.stream = u.length % 256
      BY <1>2, <3>6 DEF OnWire, Carries
    <3>. QED BY <3>6, <3>7, <3>8
  <2>2. CASE ~r.masked
    <3>1. u = r /\ buffer.masked = FALSE
      BY <1>4, <2>2 DEF TypeOK, Buffer
    <3>2. buffer.length = packet.length + dummy /\ Carries(buffer, dummy)
      BY <1>2, <1>3, <3>1, Sizes DEF OnWire, Overhead
    <3>3. Carries(r, dummy) /\ r.stream = r.length % 256
      BY <1>2, <1>4, <3>2, SameHead DEF OnWire
    <3>4. r.start >= 0 /\ r.start + packet.length <= PrebufferSize + BufferSize
      BY <1>3, <1>4, Sizes
    <3>. QED BY <1>4, <3>1, <3>2, <3>3, <3>4
  <2>. QED BY <2>1, <2>2
<1>. HIDE DEF u
<1>6. /\ d.buffer \in Buffer /\ d.buffer.start = u.start /\ d.buffer.stream = NoStream
      /\ d.buffer.head = <<packet.type, 0, 0, 0>> /\ d.buffer.length = packet.length
      /\ d.version = version
  BY <1>3, <1>5, DecodedExactly
<1>. HIDE DEF d
<1>7. TypeOK'
  BY <1>1, <1>3, <1>6 DEF TypeOK
<1>8. RoundTrip' /\ StaysInBuffer'
  BY <1>1, <1>5, <1>6 DEF RoundTrip, StaysInBuffer
<1>. QED BY <1>1, <1>7, <1>8 DEF OnItsWay

----------------------------------------------------------------------------
LEMMA CodecInit == Init => TypeOK /\ OnItsWay
BY ReceivedType DEF Init, TypeOK, OnItsWay

LEMMA CodecNext == TypeOK /\ OnItsWay /\ [Next]_vars => TypeOK' /\ OnItsWay'
<1>. SUFFICES ASSUME TypeOK, OnItsWay, [Next]_vars PROVE TypeOK' /\ OnItsWay'
  OBVIOUS
<1>1. CASE \E rand \in Rand, mask \in BOOLEAN :
             \E dummy \in DummyLengths(packet.type, packet.length) :
               (version = 0 => dummy = 0) /\ Encode(rand, dummy, mask)
  BY <1>1, EncodeOnWire
<1>2. CASE Decode
  BY <1>2, DecodeRestores
<1>3. CASE UNCHANGED vars
  <2>1. TypeOK'
    BY <1>3 DEF TypeOK, vars
  <2>2. CASE stage = "plain"
    <3>1. (buffer = Received(packet) /\ found = 1)' /\ stage' = "plain"
      BY <1>3, <2>2 DEF OnItsWay, vars, Received
    <3>. QED BY <2>1, <3>1 DEF OnItsWay
  <2>3. CASE stage = "wire"
    <3>1. PICK dummy \in DummyLengths(packet.type, packet.length) : OnWire(buffer, dummy)
      BY <2>3 DEF OnItsWay
    <3>2. (OnWire(buffer, dummy))'
      BY <1>3, <3>1 DEF OnWire, Overhead, Carries, vars
    <3>3. DummyLengths(packet'.type, packet'.length) = DummyLengths(packet.type, packet.length)
      BY <1>3 DEF vars
    <3>. QED BY <1>3, <2>1, <2>3, <3>2, <3>3 DEF OnItsWay, vars
  <2>4. CASE stage = "decoded"
    <3>1. RoundTrip' /\ StaysInBuffer'
      BY <1>3, <2>4 DEF OnItsWay, RoundTrip, StaysInBuffer, vars
    <3>. QED BY <1>3, <2>1, <2>4, <3>1 DEF OnItsWay, vars
  <2>. QED BY <2>2, <2>3, <2>4 DEF TypeOK
<1>. QED BY <1>1, <1>2, <1>3 DEF Next

LEMMA CodecSuffices == TypeOK /\ OnItsWay => RoundTrip /\ StaysInBuffer
<1>. SUFFICES ASSUME TypeOK, OnItsWay PROVE RoundTrip /\ StaysInBuffer
  OBVIOUS
<1>1. packet.length \in Lengths /\ packet.length \in Nat /\ packet.length <= BufferSize
  BY Sizes DEF TypeOK
<1>2. CASE stage = "plain"
  <2>1. buffer.start = PrebufferSize /\ buffer.length = packet.length
    BY <1>2 DEF OnItsWay, Received
  <2>. QED BY <1>1, <1>2, <2>1, Sizes DEF RoundTrip, StaysInBuffer
<1>3. CASE stage = "wire"
  <2>1. PICK dummy \in DummyLengths(packet.type, packet.length) : OnWire(buffer, dummy)
    BY <1>3 DEF OnItsWay
  <2>2. /\ dummy \in Nat
        /\ packet.length + dummy = packet.length \/ packet.length + dummy <= MaxDummyTotal
    BY <1>1, DummyBounds
  <2>. DEFINE overhead == IF buffer.masked THEN StunOverhead ELSE 0
  <2>3. /\ buffer.start = PrebufferSize - overhead
        /\ buffer.length = packet.length + dummy + overhead /\ overhead \in {0, StunOverhead}
    BY <2>1 DEF OnWire, Overhead
  <2>4. buffer.length - overhead = packet.length \/ buffer.length - overhead <= MaxDummyTotal
    <3>. HIDE DEF overhead
    <3>. QED BY <1>1, <2>2, <2>3, Sizes
  <2>5. buffer.start >= 0 /\ buffer.start + buffer.length <= PrebufferSize + BufferSize
    <3>. HIDE DEF overhead
    <3>. QED BY <1>1, <2>2, <2>3, Sizes
  <2>. QED BY <1>3, <2>4, <2>5 DEF RoundTrip, StaysInBuffer
<1>4. CASE stage = "decoded"
  BY <1>4 DEF OnItsWay
<1>. QED BY <1>2, <1>3, <1>4 DEF TypeOK

(* What one obfuscator encodes another one decodes, whatever the packet,   *)
(* the random byte, the dummy data and the mask: the packet comes out as   *)
(* it was, and decode() reports the version it was encoded with.           *)
THEOREM EncodeThenDecode == Spec => []RoundTrip
BY CodecInit, CodecNext, CodecSuffices, PTL DEF Spec

(* Dummy data makes no packet longer than MAX_DUMMY_LENGTH_TOTAL, and no   *)
(* step of either side leaves the buffer, at its front or at its end.      *)
THEOREM PacketsStayInBuffer == Spec => []StaysInBuffer
BY CodecInit, CodecNext, CodecSuffices, PTL DEF Spec
=============================================================================
