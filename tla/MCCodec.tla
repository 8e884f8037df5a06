------------------------------ MODULE MCCodec ------------------------------
(* Codec with the constants of the code and lengths at its boundaries: the  *)
(* shortest packet, WireGuard's keepalive and handshake request, the limit  *)
(* of dummy data, an MTU, and the last ones UDP takes with the mask and     *)
(* without it.                                                              *)
EXTENDS Codec, Bitwise

BitXor(a, b) == a ^^ b

Boundaries == {4, 32, 148, 1023, 1024, 1420, 65483, 65484, 65507}
=============================================================================
