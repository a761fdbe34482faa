---------------------------- MODULE MCConnector ----------------------------
(* Connector for TLC: a few sockets and users. *)
EXTENDS Connector

CONSTANTS s1, s2, s3, u1, u2

TwoSids   == {s1, s2}
ThreeSids == {s1, s2, s3}
OneUid    == {u1}
TwoUids   == {u1, u2}

=============================================================================
