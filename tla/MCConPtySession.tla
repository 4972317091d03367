--------------------------- MODULE MCConPtySession ---------------------------
(***************************************************************************)
(* The values TLC gives to the constants of ConPtySession.                 *)
(***************************************************************************)
EXTENDS ConPtySession

OneByte    == {1}
Narrow     == {80}
EdgeSizes  == {0, 5, 9}
OneCode    == {3}
CodesTo259 == {3, STILL_ACTIVE}
=============================================================================
