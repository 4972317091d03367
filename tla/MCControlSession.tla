--------------------------- MODULE MCControlSession ---------------------------
(***************************************************************************)
(* The values TLC gives to the constants of ControlSession.                *)
(***************************************************************************)
EXTENDS ControlSession

OneCode   == {0}
NoSignals == {0}
=============================================================================
