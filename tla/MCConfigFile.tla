---------------------------- MODULE MCConfigFile ----------------------------
(* A short file that fits the stdio buffer, for TLC.                        *)
EXTENDS ConfigFile

ThreeServers ==
  {<<"section", "option", "section", "option", "section", "option">>}
=============================================================================
