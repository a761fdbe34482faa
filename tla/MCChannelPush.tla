--------------------------- MODULE MCChannelPush ---------------------------
(* ChannelPush for TLC. *)
EXTENDS ChannelPush

CONSTANTS m1, f1, f2, f3, u1

OneMessage   == {m1}
ThreeServers == {f1, f2, f3}
OneUser      == {u1}
=============================================================================
