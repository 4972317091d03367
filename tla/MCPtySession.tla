---------------------------- MODULE MCPtySession ----------------------------
(***************************************************************************)
(* The values TLC gives to the constants of PtySession.                    *)
(***************************************************************************)
EXTENDS PtySession

OneByte    == {1}
TwoSizes   == {1, 3}
Narrow     == {80}
OneCode    == {3}
HupAndTerm == {SIGHUP, SIGTERM}
NoSignal   == {}
LongWrite  == {6}
ShortWrite == {2}
=============================================================================
