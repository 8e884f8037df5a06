----------------------------- MODULE Keystream -----------------------------
(***************************************************************************)
(* The keystream cache of obfuscation.c.  A packet is XORed with a CRC-8   *)
(* chain that depends on the key and on the packet's length modulo 256     *)
(* only, so one row of keystream is kept per length class.  Rows grow on   *)
(* demand in chunks, up to RowMax bytes; when memory runs out, or beyond   *)
(* RowMax, the tail of a packet is computed from where the row ends.       *)
(***************************************************************************)
EXTENDS Integers, Sequences

CONSTANTS XorBytes(_, _), \* ^ of two bytes
          Key,            \* the bytes of the key
          Classes,        \* 256 in the code
          RowMax,         \* KEYSTREAM_ROW_MAX
          Chunk,          \* rows are allocated in multiples of it, 256 in the code
          Lengths         \* lengths of the packets

ASSUME KeystreamAssumption ==
  /\ Key \in Seq(0 .. 255) /\ Key # <<>>
  /\ Classes \in Nat \ {0} /\ RowMax \in Nat \ {0} /\ Chunk \in Nat \ {0}
  /\ Lengths \subseteq Nat \ {0}

VARIABLES rows,   \* length class -> keystream_row_t, its allocated bytes as data
          last    \* the last packet's length and the stream it was XORed with
vars == <<rows, last>>

----------------------------------------------------------------------------
(* crc8_step, the original bit-by-bit update. *)
Crc8Step(crc, inbyte) ==
  LET bit[j \in 0 .. 8] ==
        IF j = 0 THEN [crc |-> crc, in |-> inbyte]
        ELSE LET b == bit[j - 1] IN
             [crc |-> IF (b.crc + b.in) % 2 = 1 THEN XorBytes(b.crc \div 2, 140) ELSE b.crc \div 2,
              in |-> b.in \div 2]
  IN  bit[8].crc

(* ensure_tables *)
crc_a == [i \in 0 .. 255 |-> Crc8Step(i, 0)]
crc_b == [i \in 0 .. 255 |-> Crc8Step(0, i)]

(* crc8_step is linear: looking up both tables gives the same byte.        *)
ASSUME TableAssumption ==
  \A crc, inbyte \in 0 .. 255 :
    /\ Crc8Step(crc, inbyte) \in 0 .. 255
    /\ Crc8Step(crc, inbyte) = XorBytes(crc_a[crc], crc_b[inbyte])

InByte(ki, cls) == (Key[ki + 1] + cls + Len(Key)) % 256

(* The chain from byte number first on, continuing from crc, with the      *)
(* key index ki that belongs to it: what both loops of the file compute.   *)
Chain(count, ki, crc, cls) ==
  LET byte[i \in 0 .. count] ==
        IF i = 0 THEN crc
        ELSE XorBytes(crc_a[byte[i - 1]], crc_b[InByte((ki + i - 1) % Len(Key), cls)])
  IN  byte

(* The wire format: byte i of the stream of a class, from the definition.  *)
Reference(cls, count) ==
  LET byte[i \in 0 .. count] ==
        IF i = 0 THEN 0 ELSE Crc8Step(byte[i - 1], InByte((i - 1) % Len(Key), cls))
  IN  byte

----------------------------------------------------------------------------
AtMost(a, b) == IF a < b THEN a ELSE b

(* Mutant of Capacity: rounded up only. *)
CapacityRounded(need) == ((need + Chunk - 1) \div Chunk) * Chunk

(* realloc, to whole chunks but no more than RowMax. *)
Capacity(need) == AtMost(((need + Chunk - 1) \div Chunk) * Chunk, RowMax)

(* Mutant of Grown: the key starts over where the row grows. *)
GrownAfresh(row, cls, need, memory) ==
  LET more == Chain(need - row.valid, 0, row.crc, cls) IN
  IF row.valid >= need \/ (row.cap < need /\ ~memory) THEN row
  ELSE [data |-> row.data \o [i \in 1 .. need - row.valid |-> more[i]], valid |-> need,
        cap |-> IF row.cap < need THEN Capacity(need) ELSE row.cap,
        crc |-> more[need - row.valid]]

(* grow_row; memory: realloc succeeds. *)
Grown(row, cls, need, memory) ==
  LET more == Chain(need - row.valid, row.valid % Len(Key), row.crc, cls) IN
  IF row.valid >= need \/ (row.cap < need /\ ~memory) THEN row
  ELSE [data |-> row.data \o [i \in 1 .. need - row.valid |-> more[i]], valid |-> need,
        cap |-> IF row.cap < need THEN Capacity(need) ELSE row.cap,
        crc |-> more[need - row.valid]]

(* The stream xor_data applies to a packet, row being the grown row. *)
Stream(row, cls, length) ==
  LET n == AtMost(length, row.valid)
      tail == Chain(length - n, n % Len(Key), row.crc, cls) IN
  SubSeq(row.data, 1, n) \o [i \in 1 .. length - n |-> tail[i]]

----------------------------------------------------------------------------
Init ==
  /\ rows = [cls \in 0 .. Classes - 1 |-> [data |-> <<>>, valid |-> 0, cap |-> 0, crc |-> 0]]
  /\ last = [length |-> 0, stream |-> <<>>]

XorData(length, memory) ==
  LET cls == length % Classes
      row == Grown(rows[cls], cls, AtMost(length, RowMax), memory) IN
  /\ rows' = [rows EXCEPT ![cls] = row]
  /\ last' = [length |-> length, stream |-> Stream(row, cls, length)]

Next == \E length \in Lengths, memory \in BOOLEAN : XorData(length, memory)

Spec == Init /\ [][Next]_vars

----------------------------------------------------------------------------
(* Properties.                                                             *)

(* obfuscation.h: the result on the wire is the one of the bit-by-bit      *)
(* implementation, whatever was sent before, however the rows grew and     *)
(* whenever memory ran out: the other side has another history.            *)
StreamExact ==
  LET cls == last.length % Classes
      byte == Reference(cls, last.length) IN
  last.stream = [i \in 1 .. last.length |-> byte[i]]

(* A row holds what it claims, within what was allocated for it and within *)
(* RowMax, and its crc is where the chain goes on.                         *)
RowsSound ==
  \A cls \in DOMAIN rows :
    LET row == rows[cls]
        byte == Reference(cls, row.valid) IN
    /\ row.valid <= row.cap /\ row.cap <= RowMax
    /\ row.data = [i \in 1 .. row.valid |-> byte[i]]
    /\ row.crc = byte[row.valid]
=============================================================================
