------------------------------ MODULE MCService ------------------------------
(* Files with three sections for TLC.                                       *)
EXTENDS Service

s == "section"
o == "option"
ThreeSections == {<<o, s, o, s, o, o, s>>, <<s, s, o, "invalid", s, o>>}
=============================================================================
