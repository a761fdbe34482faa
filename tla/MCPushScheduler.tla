-------------------------- MODULE MCPushScheduler --------------------------
(* PushScheduler for TLC. *)
EXTENDS PushScheduler

CONSTANTS s1, s2, u1

TwoSids    == {s1, s2}
OneUid     == {u1}
Selectable == {"direct", "buffer"}
=============================================================================
