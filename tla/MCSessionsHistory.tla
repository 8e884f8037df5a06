------------------------- MODULE MCSessionsHistory -------------------------
(* The instances of MCSessions for the runs on SessionsHistory.             *)
EXTENDS SessionsHistory, MCSessions
=============================================================================
