-------------------------- MODULE KeystreamProofs --------------------------
(***************************************************************************)
(* That the keystream cache never changes what is put on the wire: for     *)
(* every key, number of length classes, row limit, chunk size and packet   *)
(* length, and for every history of packets and failed allocations.        *)
(* IsStream says what the stream of a class is without CHOOSE; Chain and   *)
(* Reference are shown to be such streams by induction over a set of       *)
(* numbers (NatInduction), and a chain to go on where a stream ends.       *)
(***************************************************************************)
EXTENDS Keystream, SequenceTheorems, WellFoundedInduction, TLAPS

Byte == 0 .. 255

(* The key byte that goes into byte i of a stream, i from 1. *)
KeyByte(cls, i) == InByte((i - 1) % Len(Key), cls)

(* f holds the first n bytes of the stream of a class, after its seed. *)
IsStream(f, cls, n) ==
  /\ f \in [0 .. n -> Byte] /\ f[0] = 0
  /\ \A i \in 1 .. n : f[i] = Crc8Step(f[i - 1], KeyByte(cls, i))

(* f goes on for n bytes from crc, with the key index ki. *)
IsChain(f, n, ki, crc, cls) ==
  /\ f \in [0 .. n -> Byte] /\ f[0] = crc
  /\ \A i \in 1 .. n : f[i] = Crc8Step(f[i - 1], InByte((ki + i - 1) % Len(Key), cls))

----------------------------------------------------------------------------
(* Natural numbers and recursive functions.                                *)

LEMMA SetInduction ==
  ASSUME NEW S, 0 \in S, \A n \in Nat : n \in S => n + 1 \in S
  PROVE  \A n \in Nat : n \in S
<1> DEFINE T == {n \in Nat : n \notin S}
<1> SUFFICES ASSUME T # {} PROVE FALSE
  OBVIOUS
<1>1. PICK x \in T : \A y \in T : ~(<<y, x>> \in OpToRel(<, Nat))
  <2>1. T \subseteq Nat
    OBVIOUS
  <2> QED
    BY <2>1, WFMin, NatLessThanWellFounded
<1>2. x \in Nat /\ x # 0
  OBVIOUS
<1>3. x - 1 \in Nat /\ x - 1 \in T
  BY <1>2
<1>4. <<x - 1, x>> \in OpToRel(<, Nat)
  BY <1>2, <1>3 DEF OpToRel
<1> QED
  BY <1>1, <1>3, <1>4

Steps(S) == [(Nat \ {0}) \X S -> S]

Iteration(g, n, s, F) == g[0] = s /\ \A i \in 1 .. n : g[i] = F[<<i, g[i - 1]>>]

(* A function that gives each value from the one before it exists. *)
LEMMA Iterates ==
  ASSUME NEW S, NEW s \in S, NEW F \in Steps(S), NEW n \in Nat
  PROVE  \E g \in [0 .. n -> S] : Iteration(g, n, s, F)
<1> USE DEF Iteration, Steps
<1> DEFINE Good(m, g) == Iteration(g, m, s, F)
           T == {m \in Nat : \E g \in [0 .. m -> S] : Good(m, g)}
<1>1. 0 \in T
  <2> DEFINE z == [i \in 0 .. 0 |-> s]
  <2>1. z \in [0 .. 0 -> S] /\ Good(0, z)
    OBVIOUS
  <2> QED
    BY <2>1
<1>2. ASSUME NEW m \in Nat, m \in T PROVE m + 1 \in T
  <2>1. PICK g \in [0 .. m -> S] : Good(m, g)
    BY <1>2
  <2> DEFINE h == [i \in 0 .. m + 1 |-> IF i <= m THEN g[i] ELSE F[<<m + 1, g[m]>>]]
  <2>2. g[m] \in S /\ F[<<m + 1, g[m]>>] \in S
    OBVIOUS
  <2>3. h \in [0 .. m + 1 -> S]
    BY <2>2
  <2>4. h[0] = s
    BY <2>1
  <2>5. ASSUME NEW i \in 1 .. m + 1 PROVE h[i] = F[<<i, h[i - 1]>>]
    <3>1. CASE i <= m
      <4>1. i \in 1 .. m /\ h[i] = g[i] /\ h[i - 1] = g[i - 1]
        BY <3>1
      <4> QED
        BY <4>1, <2>1
    <3>2. CASE i = m + 1
      <4>1. h[i] = F[<<m + 1, g[m]>>] /\ h[i - 1] = g[m]
        BY <3>2
      <4> QED
        BY <4>1, <3>2
    <3> QED
      BY <3>1, <3>2
  <2>6. Good(m + 1, h)
    BY <2>4, <2>5
  <2>7. \E k \in [0 .. m + 1 -> S] : Good(m + 1, k)
    <3> HIDE DEF h, Good
    <3> QED
      BY <2>3, <2>6
  <2> QED
    BY <2>7
<1>3. n \in T
  <2> HIDE DEF T
  <2> QED
    BY <1>1, <1>2, SetInduction
<1> QED
  BY <1>3

(* A property of values in a set holds of a whole iteration. *)
LEMMA StaysIn ==
  ASSUME NEW S, NEW n \in Nat, NEW h, h[0] \in S,
         \A i \in 1 .. n : h[i - 1] \in S => h[i] \in S
  PROVE  \A i \in 0 .. n : h[i] \in S
<1> DEFINE T == {i \in Nat : i <= n => h[i] \in S}
<1>1. 0 \in T
  OBVIOUS
<1>2. ASSUME NEW i \in Nat, i \in T PROVE i + 1 \in T
  <2> SUFFICES ASSUME i + 1 <= n PROVE h[i + 1] \in S
    OBVIOUS
  <2>1. i + 1 \in 1 .. n /\ (i + 1) - 1 = i /\ h[i] \in S
    BY <1>2
  <2> QED
    BY <2>1
<1>3. \A i \in Nat : i \in T
  <2> HIDE DEF T
  <2> QED
    BY <1>1, <1>2, SetInduction
<1> QED
  BY <1>3

(* Such functions agree as far as both of them go. *)
LEMMA StreamsAgree ==
  ASSUME NEW cls, NEW n \in Nat, NEW m \in Nat, n <= m,
         NEW f, IsStream(f, cls, n), NEW g, IsStream(g, cls, m)
  PROVE  \A i \in 0 .. n : f[i] = g[i]
<1> DEFINE T == {i \in Nat : i <= n => f[i] = g[i]}
<1>1. 0 \in T
  BY DEF IsStream
<1>2. ASSUME NEW i \in Nat, i \in T PROVE i + 1 \in T
  <2> SUFFICES ASSUME i + 1 <= n PROVE f[i + 1] = g[i + 1]
    OBVIOUS
  <2>1. i + 1 \in 1 .. n /\ i + 1 \in 1 .. m /\ (i + 1) - 1 = i /\ f[i] = g[i]
    BY <1>2
  <2>2. f[i + 1] = Crc8Step(f[(i + 1) - 1], KeyByte(cls, i + 1))
    BY <2>1 DEF IsStream
  <2>3. g[i + 1] = Crc8Step(g[(i + 1) - 1], KeyByte(cls, i + 1))
    BY <2>1 DEF IsStream
  <2> QED
    BY <2>1, <2>2, <2>3
<1>3. \A i \in Nat : i \in T
  <2> HIDE DEF T
  <2> QED
    BY <1>1, <1>2, SetInduction
<1> QED
  BY <1>3

----------------------------------------------------------------------------
(* The step of the chain, by bits or by the two tables.                    *)

LEMMA StepByte ==
  ASSUME NEW crc \in Byte, NEW b \in Byte
  PROVE  Crc8Step(crc, b) \in Byte /\ Crc8Step(crc, b) = XorBytes(crc_a[crc], crc_b[b])
BY TableAssumption, Zenon DEF Byte

LEMMA KeyLength == Len(Key) \in Nat /\ Len(Key) >= 1
BY KeystreamAssumption

LEMMA Remainder ==
  ASSUME NEW k \in Nat, k >= 1, NEW a \in Nat
  PROVE  a % k \in 0 .. k - 1 /\ a \div k \in Nat /\ a = k * (a \div k) + (a % k)
OBVIOUS

LEMMA MultipleDropped ==
  ASSUME NEW k \in Nat, k >= 1, NEW q \in Nat, NEW r \in 0 .. k - 1
  PROVE  (k * q + r) % k = r
OBVIOUS

(* The index of a key byte can be carried on from any byte of the stream. *)
LEMMA IndexCarriesOn ==
  ASSUME NEW k \in Nat, k >= 1, NEW v \in Nat, NEW j \in Nat
  PROVE  ((v % k) + j) % k = (v + j) % k
<1> DEFINE r == v % k
           q == v \div k
           r2 == (r + j) % k
           q2 == (r + j) \div k
<1>1. r \in 0 .. k - 1 /\ q \in Nat /\ v = k * q + r
  BY Remainder
<1>2. r2 \in 0 .. k - 1 /\ q2 \in Nat /\ r + j = k * q2 + r2
  <2>1. r + j \in Nat
    BY <1>1
  <2> QED
    BY <2>1, Remainder, Zenon
<1>3. v + j = k * (q + q2) + r2
  <2> HIDE DEF r, q, r2, q2
  <2>1. k * (q + q2) = k * q + k * q2
    BY <1>1, <1>2
  <2>2. k * q \in Nat /\ k * q2 \in Nat
    BY <1>1, <1>2
  <2> QED
    BY <1>1, <1>2, <2>1, <2>2
<1>4. (k * (q + q2) + r2) % k = r2
  <2> HIDE DEF r, q, r2, q2
  <2>1. q + q2 \in Nat
    BY <1>1, <1>2
  <2> QED
    BY <1>2, <2>1, MultipleDropped, Zenon
<1>5. (v + j) % k = r2
  <2> HIDE DEF r, q, r2, q2
  <2> QED
    BY <1>3, <1>4
<1> QED
  BY <1>5

LEMMA InByteIsByte ==
  ASSUME NEW cls \in Nat, NEW ki \in Nat
  PROVE  InByte(ki % Len(Key), cls) \in Byte
<1>1. ki % Len(Key) \in 0 .. Len(Key) - 1
  BY KeyLength, Remainder
<1>2. ASSUME NEW i \in 0 .. Len(Key) - 1 PROVE InByte(i, cls) \in Byte
  <2>1. i + 1 \in 1 .. Len(Key)
    BY KeyLength
  <2>2. Key[i + 1] \in 0 .. 255
    BY <2>1, KeystreamAssumption, ElementOfSeq, Zenon
  <2>3. ASSUME NEW x \in 0 .. 255 PROVE (x + cls + Len(Key)) % 256 \in 0 .. 255
    <3>1. x + cls + Len(Key) \in Nat
      BY KeyLength
    <3>2. ASSUME NEW y \in Nat PROVE y % 256 \in 0 .. 255
      OBVIOUS
    <3> QED
      BY <3>1, <3>2, Zenon
  <2> QED
    BY <2>2, <2>3, Zenon DEF InByte, Byte
<1> QED
  BY <1>1, <1>2

----------------------------------------------------------------------------
(* Reference and Chain are what their names say.                           *)

LEMMA ReferenceIsStream ==
  ASSUME NEW cls \in Nat, NEW n \in Nat
  PROVE  IsStream(Reference(cls, n), cls, n)
<1> DEFINE F == [p \in (Nat \ {0}) \X Byte |-> Crc8Step(p[2], KeyByte(cls, p[1]))]
           Body(g) == [i \in 0 .. n |->
                        IF i = 0 THEN 0
                        ELSE Crc8Step(g[i - 1], InByte((i - 1) % Len(Key), cls))]
           ref == Reference(cls, n)
<1>1. ASSUME NEW i \in Nat \ {0}, NEW b \in Byte
      PROVE  Crc8Step(b, KeyByte(cls, i)) \in Byte
  <2>1. i - 1 \in Nat
    OBVIOUS
  <2>2. InByte((i - 1) % Len(Key), cls) \in Byte
    BY <2>1, InByteIsByte, Zenon
  <2> QED
    BY <2>2, StepByte, Zenon DEF KeyByte
<1>2. \E g : g = Body(g)
  <2>1. F \in Steps(Byte)
    BY <1>1 DEF Steps
  <2>2. PICK g \in [0 .. n -> Byte] : Iteration(g, n, 0, F)
    <3> HIDE DEF F
    <3>1. 0 \in Byte
      BY DEF Byte
    <3> QED
      BY <2>1, <3>1, Iterates, Zenon
  <2>3. ASSUME NEW i \in 1 .. n
        PROVE  g[i] = Crc8Step(g[i - 1], InByte((i - 1) % Len(Key), cls))
    <3>1. i \in Nat \ {0} /\ g[i - 1] \in Byte
      OBVIOUS
    <3>2. F[<<i, g[i - 1]>>] = Crc8Step(g[i - 1], KeyByte(cls, i))
      BY <3>1
    <3> QED
      BY <2>2, <3>2, Zenon DEF KeyByte, Iteration
  <2>4. g = Body(g)
    BY <2>2, <2>3 DEF Iteration
  <2> QED
    BY <2>4
<1>3. ref = CHOOSE g : g = Body(g)
  BY Zenon DEF Reference
<1>4. ref = Body(ref)
  <2> HIDE DEF ref
  <2> QED
    BY <1>2, <1>3, Zenon
<1>5. DOMAIN ref = 0 .. n /\ ref[0] = 0
  <2> HIDE DEF ref
  <2> QED
    BY <1>4
<1>6. ASSUME NEW i \in 1 .. n PROVE ref[i] = Crc8Step(ref[i - 1], KeyByte(cls, i))
  <2> HIDE DEF ref
  <2> QED
    BY <1>4 DEF KeyByte
<1>7. \A i \in 0 .. n : ref[i] \in Byte
  <2> HIDE DEF ref
  <2>1. ref[0] \in Byte
    BY <1>5 DEF Byte
  <2>2. ASSUME NEW i \in 1 .. n, ref[i - 1] \in Byte PROVE ref[i] \in Byte
    <3>1. i \in Nat \ {0}
      OBVIOUS
    <3> QED
      BY <1>1, <1>6, <2>2, <3>1, Zenon
  <2> QED
    BY <2>1, <2>2, StaysIn
<1>8. ref \in [0 .. n -> Byte]
  <2> HIDE DEF ref
  <2> QED
    BY <1>4, <1>7
<1> QED
  BY <1>5, <1>6, <1>8, Zenon DEF IsStream

LEMMA ChainIsChain ==
  ASSUME NEW cls \in Nat, NEW n \in Nat, NEW ki \in Nat, NEW crc \in Byte
  PROVE  IsChain(Chain(n, ki, crc, cls), n, ki, crc, cls)
<1> DEFINE In(i) == InByte((ki + i - 1) % Len(Key), cls)
           F == [p \in (Nat \ {0}) \X Byte |-> Crc8Step(p[2], In(p[1]))]
           Body(g) == [i \in 0 .. n |->
                        IF i = 0 THEN crc ELSE XorBytes(crc_a[g[i - 1]], crc_b[In(i)])]
           chain == Chain(n, ki, crc, cls)
<1>1. ASSUME NEW i \in Nat \ {0}, NEW b \in Byte
      PROVE  /\ Crc8Step(b, In(i)) \in Byte
             /\ Crc8Step(b, In(i)) = XorBytes(crc_a[b], crc_b[In(i)])
  <2>1. ki + i - 1 \in Nat
    OBVIOUS
  <2>2. In(i) \in Byte
    BY <2>1, InByteIsByte, Zenon
  <2> QED
    BY <2>2, StepByte, Zenon
<1>2. \E g : g = Body(g)
  <2>1. F \in Steps(Byte)
    <3> HIDE DEF In
    <3> QED
      BY <1>1 DEF Steps
  <2>2. PICK g \in [0 .. n -> Byte] : Iteration(g, n, crc, F)
    <3> HIDE DEF F
    <3> QED
      BY <2>1, Iterates, Zenon
  <2>3. ASSUME NEW i \in 1 .. n PROVE g[i] = XorBytes(crc_a[g[i - 1]], crc_b[In(i)])
    <3>1. i \in Nat \ {0} /\ g[i - 1] \in Byte
      OBVIOUS
    <3>2. F[<<i, g[i - 1]>>] = Crc8Step(g[i - 1], In(i))
      <4> HIDE DEF In
      <4> QED
        BY <3>1
    <3>3. g[i] = F[<<i, g[i - 1]>>]
      BY <2>2, Zenon DEF Iteration
    <3> HIDE DEF F, In
    <3> QED
      BY <1>1, <3>1, <3>2, <3>3, Zenon
  <2>4. g = Body(g)
    <3> HIDE DEF In
    <3> QED
      BY <2>2, <2>3 DEF Iteration
  <2> QED
    BY <2>4
<1>3. chain = CHOOSE g : g = Body(g)
  BY Zenon DEF Chain
<1>4. chain = Body(chain)
  <2> HIDE DEF chain, In
  <2> QED
    BY <1>2, <1>3, Zenon
<1>5. chain[0] = crc
  <2> HIDE DEF chain, In
  <2> QED
    BY <1>4
<1>6. ASSUME NEW i \in 1 .. n PROVE chain[i] = XorBytes(crc_a[chain[i - 1]], crc_b[In(i)])
  <2> HIDE DEF chain, In
  <2> QED
    BY <1>4
<1>7. ASSUME NEW i \in 1 .. n, chain[i - 1] \in Byte
      PROVE  chain[i] \in Byte /\ chain[i] = Crc8Step(chain[i - 1], In(i))
  <2> HIDE DEF chain, In
  <2>1. i \in Nat \ {0}
    OBVIOUS
  <2>2. /\ Crc8Step(chain[i - 1], In(i)) \in Byte
        /\ Crc8Step(chain[i - 1], In(i)) = XorBytes(crc_a[chain[i - 1]], crc_b[In(i)])
    BY <1>1, <1>7, <2>1, Zenon
  <2>3. chain[i] = XorBytes(crc_a[chain[i - 1]], crc_b[In(i)])
    BY <1>6, Zenon
  <2>4. chain[i] = Crc8Step(chain[i - 1], In(i))
    BY <2>2, <2>3, Zenon
  <2> QED
    BY <2>2, <2>4, Zenon
<1>8. \A i \in 0 .. n : chain[i] \in Byte
  <2> HIDE DEF chain, In
  <2> QED
    BY <1>5, <1>7, StaysIn
<1>9. chain \in [0 .. n -> Byte]
  <2> HIDE DEF chain, In
  <2> QED
    BY <1>4, <1>8
<1>10. ASSUME NEW i \in 1 .. n PROVE chain[i] = Crc8Step(chain[i - 1], In(i))
  <2> HIDE DEF chain, In
  <2>1. i - 1 \in 0 .. n
    OBVIOUS
  <2> QED
    BY <1>7, <1>8, <2>1, Zenon
<1> QED
  BY <1>5, <1>9, <1>10, Zenon DEF IsChain

----------------------------------------------------------------------------
(* Streams are prefixes of longer ones, and chains complete them.          *)

LEMMA FirstBytes ==
  ASSUME NEW cls \in Nat, NEW n \in Nat, NEW m \in Nat, n <= m
  PROVE  \A i \in 0 .. n : Reference(cls, n)[i] = Reference(cls, m)[i]
<1>1. IsStream(Reference(cls, n), cls, n) /\ IsStream(Reference(cls, m), cls, m)
  BY ReferenceIsStream, Zenon
<1> DEFINE f == Reference(cls, n)
           g == Reference(cls, m)
<1> HIDE DEF f, g
<1>2. \A i \in 0 .. n : f[i] = g[i]
  BY <1>1, StreamsAgree DEF f, g
<1> QED
  BY <1>2 DEF f, g

LEMMA ChainGoesOn ==
  ASSUME NEW cls \in Nat, NEW v \in Nat, NEW c \in Nat, NEW f, IsStream(f, cls, v),
         NEW g, IsChain(g, c, v % Len(Key), f[v], cls)
  PROVE  IsStream([i \in 0 .. v + c |-> IF i <= v THEN f[i] ELSE g[i - v]], cls, v + c)
<1> DEFINE h == [i \in 0 .. v + c |-> IF i <= v THEN f[i] ELSE g[i - v]]
<1>1. /\ f \in [0 .. v -> Byte] /\ f[0] = 0
      /\ g \in [0 .. c -> Byte] /\ g[0] = f[v]
  BY Zenon DEF IsStream, IsChain
<1>2. h \in [0 .. v + c -> Byte]
  BY <1>1
<1>3. h[0] = 0
  BY <1>1
<1>4. ASSUME NEW i \in 1 .. v + c PROVE h[i] = Crc8Step(h[i - 1], KeyByte(cls, i))
  <2>1. CASE i <= v
    <3>1. i \in 1 .. v /\ h[i] = f[i] /\ h[i - 1] = f[i - 1]
      BY <2>1
    <3>2. f[i] = Crc8Step(f[i - 1], KeyByte(cls, i))
      BY <3>1, Zenon DEF IsStream
    <3> HIDE DEF h
    <3> QED
      BY <3>1, <3>2
  <2>2. CASE i > v
    <3> DEFINE j == i - v
    <3>1. j \in 1 .. c /\ j - 1 \in Nat /\ v + (j - 1) = i - 1
      BY <2>2
    <3>2. h[i] = g[j]
      BY <2>2
    <3>3. h[i - 1] = g[j - 1]
      <4>1. CASE i = v + 1
        <5>1. h[i - 1] = f[v] /\ j - 1 = 0
          BY <4>1
        <5> QED
          BY <5>1, <1>1
      <4>2. CASE i # v + 1
        <5>1. i - 1 \in 0 .. v + c /\ ~(i - 1 <= v) /\ (i - 1) - v = j - 1
          BY <2>2, <4>2
        <5> HIDE DEF j
        <5> QED
          BY <5>1
      <4> QED
        BY <4>1, <4>2
    <3>4. g[j] = Crc8Step(g[j - 1], InByte(((v % Len(Key)) + j - 1) % Len(Key), cls))
      <4> HIDE DEF j
      <4> QED
        BY <3>1, Zenon DEF IsChain
    <3>5. ((v % Len(Key)) + j - 1) % Len(Key) = (i - 1) % Len(Key)
      <4>1. v % Len(Key) \in Nat
        BY KeyLength, Remainder
      <4>2. (v % Len(Key)) + j - 1 = (v % Len(Key)) + (j - 1)
        BY <3>1, <4>1
      <4>3. ((v % Len(Key)) + (j - 1)) % Len(Key) = (v + (j - 1)) % Len(Key)
        <5> HIDE DEF j
        <5> QED
          BY <3>1, KeyLength, IndexCarriesOn, Zenon
      <4> HIDE DEF j
      <4> QED
        BY <3>1, <4>2, <4>3, Zenon
    <3> HIDE DEF h, j
    <3> QED
      BY <3>2, <3>3, <3>4, <3>5, Zenon DEF KeyByte
  <2> QED
    BY <2>1, <2>2
<1> HIDE DEF h
<1>5. IsStream(h, cls, v + c)
  BY <1>2, <1>3, <1>4, Zenon DEF IsStream
<1> QED
  BY <1>5 DEF h

(* The chain from the end of the first v bytes, what both loops compute. *)
Rest(c, v, cls) == Chain(c, v % Len(Key), Reference(cls, v)[v], cls)

LEMMA RestOfStream ==
  ASSUME NEW cls \in Nat, NEW v \in Nat, NEW c \in Nat
  PROVE  /\ Rest(c, v, cls) \in [0 .. c -> Byte]
         /\ \A i \in 0 .. c : Rest(c, v, cls)[i] = Reference(cls, v + c)[v + i]
<1> DEFINE f == Reference(cls, v)
           crc == f[v]
           g == Chain(c, v % Len(Key), crc, cls)
           h == [i \in 0 .. v + c |-> IF i <= v THEN f[i] ELSE g[i - v]]
<1>1. IsStream(f, cls, v)
  BY ReferenceIsStream, Zenon
<1>2. crc \in Byte
  <2> HIDE DEF f
  <2>1. f \in [0 .. v -> Byte] /\ crc = f[v]
    BY <1>1, Zenon DEF IsStream
  <2> QED
    BY <2>1
<1>3. IsChain(g, c, v % Len(Key), f[v], cls)
  <2>1. v % Len(Key) \in Nat
    BY KeyLength, Remainder
  <2> QED
    BY <1>2, <2>1, ChainIsChain, Zenon
<1>4. g \in [0 .. c -> Byte] /\ g[0] = f[v]
  BY <1>3, Zenon DEF IsChain
<1>5. IsStream(h, cls, v + c)
  <2> HIDE DEF f, g
  <2> QED
    BY <1>1, <1>3, ChainGoesOn, Zenon
<1>6. \A i \in 0 .. v + c : h[i] = Reference(cls, v + c)[i]
  <2> DEFINE ref == Reference(cls, v + c)
             m == v + c
  <2>1. m \in Nat /\ m <= m
    OBVIOUS
  <2>2. IsStream(ref, cls, m) /\ IsStream(h, cls, m)
    BY <1>5, <2>1, ReferenceIsStream, Zenon
  <2>3. \A i \in 0 .. m : h[i] = ref[i]
    <3> HIDE DEF h, ref, m
    <3> QED
      BY <2>1, <2>2, StreamsAgree
  <2> QED
    BY <2>3
<1>7. ASSUME NEW i \in 0 .. c PROVE g[i] = Reference(cls, v + c)[v + i]
  <2>1. v + i \in 0 .. v + c
    OBVIOUS
  <2>2. h[v + i] = g[i]
    <3> HIDE DEF f, g
    <3>1. CASE i = 0
      BY <3>1, <1>4
    <3>2. CASE i # 0
      <4>1. ~(v + i <= v) /\ (v + i) - v = i
        BY <3>2
      <4> QED
        BY <2>1, <4>1
    <3> QED
      BY <3>1, <3>2
  <2> HIDE DEF h, g
  <2> QED
    BY <1>6, <2>1, <2>2, Zenon
<1>8. Rest(c, v, cls) = g
  BY Zenon DEF Rest
<1> HIDE DEF g
<1> QED
  BY <1>4, <1>7, <1>8, Zenon

----------------------------------------------------------------------------
(* A row and its growth.                                                   *)

Row == [data : Seq(Byte), valid : Nat, cap : Nat, crc : Byte]

(* RowsSound of one row. *)
Sound(row, cls) ==
  /\ row.valid <= row.cap /\ row.cap <= RowMax
  /\ row.data = [i \in 1 .. row.valid |-> Reference(cls, row.valid)[i]]
  /\ row.crc = Reference(cls, row.valid)[row.valid]

Begin(cls, n) == [i \in 1 .. n |-> Reference(cls, n)[i]]

LEMMA ReferenceBytes ==
  ASSUME NEW cls \in Nat, NEW n \in Nat
  PROVE  Reference(cls, n) \in [0 .. n -> Byte] /\ Reference(cls, n)[0] = 0
BY ReferenceIsStream, Zenon DEF IsStream

LEMMA BeginIsSequence ==
  ASSUME NEW cls \in Nat, NEW n \in Nat
  PROVE  /\ Begin(cls, n) \in Seq(Byte) /\ Len(Begin(cls, n)) = n
         /\ \A i \in 1 .. n : Begin(cls, n)[i] = Reference(cls, n)[i]
<1> DEFINE f == Reference(cls, n)
           s == [i \in 1 .. n |-> f[i]]
<1>1. f \in [0 .. n -> Byte]
  BY ReferenceBytes, Zenon
<1>2. s \in [1 .. n -> Byte] /\ \A i \in 1 .. n : s[i] = f[i]
  <2> HIDE DEF f
  <2> QED
    BY <1>1
<1>3. s \in Seq(Byte) /\ Len(s) = n
  <2> HIDE DEF s
  <2> QED
    BY <1>2
<1> HIDE DEF f
<1> QED
  BY <1>2, <1>3 DEF Begin, f

(* What is valid of a stream, and the rest from the chain, is a longer one. *)
LEMMA BeginAndRest ==
  ASSUME NEW cls \in Nat, NEW v \in Nat, NEW m \in Nat, v <= m
  PROVE  Begin(cls, v) \o [i \in 1 .. m - v |-> Rest(m - v, v, cls)[i]] = Begin(cls, m)
<1> DEFINE g == Rest(m - v, v, cls)
           rest == [i \in 1 .. m - v |-> g[i]]
           ref == Reference(cls, m)
           begin == Begin(cls, v)
           whole == Begin(cls, m)
<1>1. m - v \in Nat /\ v + (m - v) = m
  OBVIOUS
<1>2. g \in [0 .. m - v -> Byte] /\ \A i \in 0 .. m - v : g[i] = ref[v + i]
  <2>1. /\ g \in [0 .. m - v -> Byte]
        /\ \A i \in 0 .. m - v : g[i] = Reference(cls, v + (m - v))[v + i]
    BY <1>1, RestOfStream, Zenon
  <2> HIDE DEF g
  <2> QED
    BY <1>1, <2>1
<1>3. rest \in Seq(Byte) /\ Len(rest) = m - v /\ \A i \in 1 .. m - v : rest[i] = ref[v + i]
  <2> HIDE DEF g, ref
  <2>1. rest \in [1 .. m - v -> Byte] /\ \A i \in 1 .. m - v : rest[i] = ref[v + i]
    BY <1>1, <1>2
  <2>2. rest \in Seq(Byte) /\ Len(rest) = m - v
    <3> HIDE DEF rest
    <3> QED
      BY <1>1, <2>1
  <2> QED
    BY <2>1, <2>2
<1>4. begin \in Seq(Byte) /\ Len(begin) = v /\ \A i \in 1 .. v : begin[i] = ref[i]
  <2>1. /\ begin \in Seq(Byte) /\ Len(begin) = v
        /\ \A i \in 1 .. v : begin[i] = Reference(cls, v)[i]
    BY BeginIsSequence, Zenon
  <2>2. \A i \in 0 .. v : Reference(cls, v)[i] = ref[i]
    BY FirstBytes, Zenon
  <2>3. \A i \in 1 .. v : i \in 0 .. v
    OBVIOUS
  <2> QED
    BY <2>1, <2>2, <2>3, Zenon
<1>5. whole \in Seq(Byte) /\ Len(whole) = m /\ \A i \in 1 .. m : whole[i] = ref[i]
  BY BeginIsSequence, Zenon
<1> HIDE DEF rest, ref, begin, whole
<1>6. /\ begin \o rest \in Seq(Byte) /\ Len(begin \o rest) = m
      /\ \A i \in 1 .. m : (begin \o rest)[i] = ref[i]
  <2>1. /\ begin \o rest \in Seq(Byte) /\ Len(begin \o rest) = Len(begin) + Len(rest)
        /\ \A i \in 1 .. Len(begin) + Len(rest) :
             (begin \o rest)[i] = IF i <= Len(begin) THEN begin[i] ELSE rest[i - Len(begin)]
    BY <1>3, <1>4, ConcatProperties, Zenon
  <2>2. ASSUME NEW i \in 1 .. m PROVE (begin \o rest)[i] = ref[i]
    <3>0. i \in 1 .. Len(begin) + Len(rest)
      <4>1. Len(begin) + Len(rest) = m
        BY <1>3, <1>4
      <4> QED
        BY <4>1
    <3>1. CASE i <= v
      <4>1. (begin \o rest)[i] = begin[i]
        BY <2>1, <3>0, <3>1, <1>4
      <4> QED
        BY <4>1, <3>1, <1>4
    <3>2. CASE ~(i <= v)
      <4>1. (begin \o rest)[i] = rest[i - v]
        BY <2>1, <3>0, <3>2, <1>4
      <4>2. i - v \in 1 .. m - v /\ v + (i - v) = i
        BY <3>2
      <4> QED
        BY <4>1, <4>2, <1>3
    <3> QED
      BY <3>1, <3>2
  <2> QED
    BY <1>1, <1>3, <1>4, <2>1, <2>2
<1>7. begin \o rest = whole
  <2> DEFINE joined == begin \o rest
  <2>1. \A i \in 1 .. Len(joined) : joined[i] = whole[i]
    BY <1>5, <1>6
  <2> QED
    BY <1>5, <1>6, <2>1, SeqEqual, Zenon
<1> QED
  BY <1>7 DEF begin, rest, whole

LEMMA CapacityEnough ==
  ASSUME NEW need \in Nat, need <= RowMax
  PROVE  Capacity(need) \in Nat /\ need <= Capacity(need) /\ Capacity(need) <= RowMax
<1> DEFINE a == need + Chunk - 1
           q == a \div Chunk
<1>1. Chunk \in Nat /\ Chunk >= 1 /\ RowMax \in Nat
  BY KeystreamAssumption
<1>2. a \in Nat
  BY <1>1
<1>3. a % Chunk \in 0 .. Chunk - 1 /\ q \in Nat /\ a = Chunk * q + (a % Chunk)
  <2> HIDE DEF a
  <2> QED
    BY <1>1, <1>2, Remainder, Zenon
<1>4. Chunk * q \in Nat /\ Chunk * q = q * Chunk
  <2> HIDE DEF q
  <2> QED
    BY <1>1, <1>3
<1>5. need <= q * Chunk
  <2> DEFINE r == a % Chunk
             p == Chunk * q
  <2>1. r \in 0 .. Chunk - 1 /\ p \in Nat /\ need + Chunk - 1 = p + r
    BY <1>3, <1>4
  <2>2. need <= p
    <3> HIDE DEF r, p, q, a
    <3> QED
      BY <1>1, <2>1
  <2> HIDE DEF q, a
  <2> QED
    BY <1>4, <2>2
<1>6. Capacity(need) = IF q * Chunk < RowMax THEN q * Chunk ELSE RowMax
  BY DEF Capacity, AtMost
<1> HIDE DEF q, a
<1> QED
  BY <1>1, <1>4, <1>5, <1>6

LEMMA GrowthIsSound ==
  ASSUME NEW cls \in Nat, NEW row \in Row, Sound(row, cls),
         NEW need \in Nat, need <= RowMax, NEW memory \in BOOLEAN
  PROVE  Grown(row, cls, need, memory) \in Row /\ Sound(Grown(row, cls, need, memory), cls)
<1> DEFINE v == row.valid
           more == Chain(need - v, v % Len(Key), row.crc, cls)
           data == row.data \o [i \in 1 .. need - v |-> more[i]]
           cap == IF row.cap < need THEN Capacity(need) ELSE row.cap
           crc == more[need - v]
           grown == [data |-> data, valid |-> need, cap |-> cap, crc |-> crc]
           Kept == row.valid >= need \/ (row.cap < need /\ ~memory)
<1>1. Grown(row, cls, need, memory) = IF Kept THEN row ELSE grown
  BY DEF Grown
<1>2. /\ row.data \in Seq(Byte) /\ v \in Nat /\ row.cap \in Nat /\ row.crc \in Byte
      /\ v <= row.cap /\ row.cap <= RowMax
      /\ row.data = Begin(cls, v) /\ row.crc = Reference(cls, v)[v]
  BY DEF Row, Sound, Begin
<1>3. ASSUME ~Kept PROVE grown \in Row /\ Sound(grown, cls)
  <2>0. more = Rest(need - v, v, cls)
    BY <1>2, Zenon DEF Rest
  <2>1. v < need
    BY <1>2, <1>3
  <2>2. data = Begin(cls, need)
    <3> DEFINE w == v
    <3>1. w \in Nat /\ w <= need
      BY <1>2, <2>1
    <3>2. Begin(cls, w) \o [i \in 1 .. need - w |-> Rest(need - w, w, cls)[i]]
            = Begin(cls, need)
      <4> HIDE DEF w
      <4> QED
        BY <3>1, BeginAndRest, Zenon
    <3> HIDE DEF more
    <3> QED
      BY <1>2, <2>0, <3>2, Zenon
  <2>3. cap \in Nat /\ need <= cap /\ cap <= RowMax
    <3>1. Capacity(need) \in Nat /\ need <= Capacity(need) /\ Capacity(need) <= RowMax
      BY CapacityEnough, Zenon
    <3> QED
      BY <1>2, <3>1
  <2>4. crc = Reference(cls, need)[need] /\ crc \in Byte
    <3> DEFINE c == need - v
               w == v
    <3>1. w \in Nat /\ c \in Nat /\ w + c = need /\ c \in 0 .. c
      BY <1>2, <2>1
    <3>2. Rest(c, w, cls)[c] = Reference(cls, w + c)[w + c]
      <4> HIDE DEF c, w
      <4>1. \A i \in 0 .. c : Rest(c, w, cls)[i] = Reference(cls, w + c)[w + i]
        BY <3>1, RestOfStream, Zenon
      <4> QED
        BY <3>1, <4>1, Zenon
    <3>3. crc = Reference(cls, need)[need]
      <4> HIDE DEF more
      <4> QED
        BY <2>0, <3>1, <3>2, Zenon
    <3>4. Reference(cls, need) \in [0 .. need -> Byte] /\ need \in 0 .. need
      BY ReferenceBytes
    <3>5. Reference(cls, need)[need] \in Byte
      BY <3>4, Zenon
    <3> QED
      BY <3>3, <3>5, Zenon
  <2>5. Begin(cls, need) \in Seq(Byte)
    BY BeginIsSequence, Zenon
  <2> HIDE DEF data, cap, crc
  <2>6. grown \in Row
    BY <2>2, <2>3, <2>4, <2>5 DEF Row
  <2>7. /\ grown.data = data /\ grown.valid = need /\ grown.cap = cap /\ grown.crc = crc
    OBVIOUS
  <2> HIDE DEF grown
  <2>8. Sound(grown, cls)
    BY <2>2, <2>3, <2>4, <2>7, Zenon DEF Sound, Begin
  <2> QED
    BY <2>6, <2>8
<1> HIDE DEF grown, Kept
<1>4. CASE Kept
  BY <1>1, <1>4, Zenon
<1>5. CASE ~Kept
  BY <1>1, <1>3, <1>5, Zenon
<1> QED
  BY <1>4, <1>5

(* Whatever a row holds, a packet of any length gets the stream. *)
LEMMA StreamIsReference ==
  ASSUME NEW cls \in Nat, NEW row \in Row, Sound(row, cls), NEW length \in Nat
  PROVE  Stream(row, cls, length) = Begin(cls, length)
<1> DEFINE v == row.valid
           Of(n) == SubSeq(row.data, 1, n) \o
                      [i \in 1 .. length - n |->
                         Chain(length - n, n % Len(Key), row.crc, cls)[i]]
<1>1. Stream(row, cls, length) = Of(AtMost(length, v))
  BY Zenon DEF Stream
<1>2. v \in Nat /\ row.data = Begin(cls, v) /\ row.crc = Reference(cls, v)[v]
  BY DEF Row, Sound, Begin
<1>3. /\ row.data \in Seq(Byte) /\ Len(row.data) = v
      /\ \A i \in 1 .. v : row.data[i] = Reference(cls, v)[i]
  <2> DEFINE b == Begin(cls, v)
             w == v
  <2>1. w \in Nat
    BY <1>2
  <2>2. /\ b \in Seq(Byte) /\ Len(b) = w
        /\ \A i \in 1 .. w : b[i] = Reference(cls, w)[i]
    <3>1. b = Begin(cls, w)
      OBVIOUS
    <3> HIDE DEF w, b
    <3> QED
      BY <2>1, <3>1, BeginIsSequence
  <2>3. row.data = b
    BY <1>2
  <2> HIDE DEF b
  <2> QED
    BY <2>2, <2>3
<1>4. CASE length < v
  <2>1. AtMost(length, v) = length
    BY <1>4 DEF AtMost
  <2> DEFINE s == SubSeq(row.data, 1, length)
             none == [i \in 1 .. length - length |->
                        Chain(length - length, length % Len(Key), row.crc, cls)[i]]
             whole == Begin(cls, length)
  <2>2. none = <<>>
    <3>1. 1 .. length - length = {}
      OBVIOUS
    <3> QED
      BY <3>1
  <2>3. s \in Seq(Byte) /\ Len(s) = length /\ \A i \in 1 .. length : s[i] = row.data[i]
    <3> DEFINE d == row.data
    <3>1. d \in Seq(Byte) /\ length <= Len(d)
      BY <1>2, <1>3, <1>4
    <3> HIDE DEF d
    <3> QED
      BY <3>1 DEF d
  <2>4. whole \in Seq(Byte) /\ Len(whole) = length
        /\ \A i \in 1 .. length : whole[i] = Reference(cls, length)[i]
    BY BeginIsSequence, Zenon
  <2>5. ASSUME NEW i \in 1 .. length PROVE s[i] = whole[i]
    <3>1. i \in 1 .. v /\ i \in 0 .. length
      BY <1>2, <1>4
    <3>2. length <= v
      BY <1>2, <1>4
    <3>3. Reference(cls, length)[i] = Reference(cls, v)[i]
      BY <1>2, <3>1, <3>2, FirstBytes, Zenon
    <3> HIDE DEF s, whole
    <3> QED
      BY <1>3, <2>3, <2>4, <3>1, <3>3, Zenon
  <2> HIDE DEF s, whole, none
  <2>6. s = whole
    BY <2>3, <2>4, <2>5, SeqEqual, Zenon
  <2>7. s \o none = s
    BY <2>2, <2>3, ConcatEmptySeq, Zenon
  <2>8. Of(length) = s \o none
    BY Zenon DEF s, none
  <2> QED
    BY <1>1, <2>1, <2>6, <2>7, <2>8, Zenon DEF whole
<1>5. CASE ~(length < v)
  <2>1. AtMost(length, v) = v /\ v <= length
    BY <1>2, <1>5 DEF AtMost
  <2>2. SubSeq(row.data, 1, v) = Begin(cls, v)
    BY <1>2, <1>3, SubSeqFull, Zenon
  <2>3. Begin(cls, v) \o [i \in 1 .. length - v |-> Rest(length - v, v, cls)[i]]
          = Begin(cls, length)
    BY <1>2, <2>1, BeginAndRest, Zenon
  <2>4. Chain(length - v, v % Len(Key), row.crc, cls) = Rest(length - v, v, cls)
    BY <1>2, Zenon DEF Rest
  <2> QED
    BY <1>1, <2>1, <2>2, <2>3, <2>4, Zenon
<1> QED
  BY <1>4, <1>5

----------------------------------------------------------------------------
(* The inductive invariant, and the theorems.                              *)

Held == rows \in [0 .. Classes - 1 -> Row]

CacheSound ==
  /\ Held
  /\ \A cls \in 0 .. Classes - 1 : Sound(rows[cls], cls)
  /\ StreamExact

LEMMA Parameters ==
  /\ Classes \in Nat /\ Classes >= 1 /\ RowMax \in Nat
  /\ \A length \in Lengths : length \in Nat
BY KeystreamAssumption

LEMMA InitSound == Init => CacheSound
<1> SUFFICES ASSUME Init PROVE CacheSound
  OBVIOUS
<1> DEFINE empty == [data |-> <<>>, valid |-> 0, cap |-> 0, crc |-> 0]
<1>1. empty \in Row
  BY DEF Row, Byte
<1>2. rows = [cls \in 0 .. Classes - 1 |-> empty]
  BY Zenon DEF Init
<1>3. Held
  <2> HIDE DEF empty
  <2> QED
    BY <1>1, <1>2 DEF Held
<1>4. ASSUME NEW cls \in 0 .. Classes - 1 PROVE Sound(rows[cls], cls)
  <2>1. rows[cls] = empty
    <3> HIDE DEF empty
    <3> QED
      BY <1>2
  <2>2. cls \in Nat
    BY Parameters
  <2>3. Reference(cls, 0)[0] = 0
    BY <2>2, ReferenceBytes, Zenon
  <2>4. 1 .. 0 = {}
    OBVIOUS
  <2>5. <<>> = [i \in 1 .. 0 |-> Reference(cls, 0)[i]]
    BY <2>4
  <2>6. empty.data = <<>> /\ empty.valid = 0 /\ empty.cap = 0 /\ empty.crc = 0
    OBVIOUS
  <2>7. 0 <= 0 /\ 0 <= RowMax
    BY Parameters
  <2> HIDE DEF empty
  <2> QED
    BY <2>1, <2>3, <2>5, <2>6, <2>7, Zenon DEF Sound
<1>5. StreamExact
  <2>1. last.length = 0 /\ last.stream = <<>>
    BY DEF Init
  <2>2. 1 .. 0 = {}
    OBVIOUS
  <2> QED
    BY <2>1, <2>2 DEF StreamExact
<1> QED
  BY <1>3, <1>4, <1>5 DEF CacheSound

LEMMA NextSound == CacheSound /\ [Next]_vars => CacheSound'
<1> SUFFICES ASSUME CacheSound, [Next]_vars PROVE CacheSound'
  OBVIOUS
<1>1. CASE UNCHANGED vars
  BY <1>1, Zenon DEF CacheSound, Held, StreamExact, vars
<1>2. ASSUME NEW length \in Lengths, NEW memory \in BOOLEAN, XorData(length, memory)
      PROVE  CacheSound'
  <2> DEFINE cls == length % Classes
             need == AtMost(length, RowMax)
             row == Grown(rows[cls], cls, need, memory)
  <2>1. length \in Nat
    BY Parameters
  <2>2. cls \in 0 .. Classes - 1 /\ cls \in Nat
    <3>1. cls \in 0 .. Classes - 1
      BY <2>1, Parameters, Remainder, Zenon
    <3> HIDE DEF cls
    <3> QED
      BY <3>1, Parameters
  <2>3. need \in Nat /\ need <= RowMax
    BY <2>1, Parameters DEF AtMost
  <2>4. rows[cls] \in Row /\ Sound(rows[cls], cls)
    <3> HIDE DEF cls
    <3> QED
      BY <2>2 DEF CacheSound, Held
  <2>5. row \in Row /\ Sound(row, cls)
    <3> HIDE DEF cls, need
    <3> QED
      BY <2>2, <2>3, <2>4, GrowthIsSound, Zenon
  <2>6. /\ rows' = [rows EXCEPT ![cls] = row]
        /\ last' = [length |-> length, stream |-> Stream(row, cls, length)]
    BY <1>2, Zenon DEF XorData
  <2>7. Held'
    <3> HIDE DEF cls, row
    <3> QED
      BY <2>2, <2>5, <2>6 DEF Held, CacheSound
  <2>8. ASSUME NEW c \in 0 .. Classes - 1 PROVE Sound(rows'[c], c)
    <3> HIDE DEF cls, row
    <3>1. CASE c = cls
      <4>1. rows'[c] = row
        BY <2>2, <2>6, <3>1 DEF Held, CacheSound
      <4> QED
        BY <4>1, <3>1, <2>5, Zenon
    <3>2. CASE c # cls
      <4>1. rows'[c] = rows[c]
        BY <2>2, <2>6, <3>2 DEF Held, CacheSound
      <4>2. Sound(rows[c], c)
        BY DEF CacheSound
      <4> QED
        BY <4>1, <4>2, Zenon
    <3> QED
      BY <3>1, <3>2
  <2>9. StreamExact'
    <3>1. Stream(row, cls, length) = Begin(cls, length)
      <4> HIDE DEF cls, row
      <4> QED
        BY <2>1, <2>2, <2>5, StreamIsReference, Zenon
    <3>2. last'.length = length /\ last'.stream = Stream(row, cls, length)
      <4> HIDE DEF cls, row
      <4> QED
        BY <2>6
    <3>3. last'.stream = Begin(last'.length % Classes, last'.length)
      <4> HIDE DEF row
      <4> QED
        BY <3>1, <3>2, Zenon
    <3> QED
      BY <3>3, Zenon DEF StreamExact, Begin
  <2> QED
    BY <2>7, <2>8, <2>9, Zenon DEF CacheSound
<1> QED
  BY <1>1, <1>2, Zenon DEF Next

LEMMA AlwaysSound == Spec => []CacheSound
BY InitSound, NextSound, PTL DEF Spec

(* Every row holds the stream of its length class, as the bit-by-bit      *)
(* implementation computes it, as far as it says it does, within what was *)
(* allocated and within the limit; and the chain can be carried on from   *)
(* where the row ends (grow_row), whatever the packets and the failures.  *)
THEOREM RowsStaySound == Spec => []RowsSound
<1>1. CacheSound => RowsSound
  BY Zenon DEF CacheSound, Held, RowsSound, Sound
<1> QED
  BY <1>1, AlwaysSound, PTL

(* A packet is XORed with exactly the bytes the old, bit-by-bit code would *)
(* have used (obfuscation.h), whatever was sent before, however the rows   *)
(* grew and whenever memory ran out: two sides with different histories    *)
(* use the same stream.                                                    *)
THEOREM StreamAlwaysExact == Spec => []StreamExact
<1>1. CacheSound => StreamExact
  BY DEF CacheSound
<1> QED
  BY <1>1, AlwaysSound, PTL
=============================================================================
