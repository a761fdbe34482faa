-------------------------- MODULE MCSessionService --------------------------
(* SessionService for TLC: a few session and user ids. *)
EXTENDS SessionService

CONSTANTS s1, s2, s3, u1, u2

ThreeSids == {s1, s2, s3}
TwoUids   == {u1, u2}
=============================================================================
