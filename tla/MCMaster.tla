------------------------------- MODULE MCMaster -------------------------------
(* Master for TLC: two servers, one of them restarted automatically; one       *)
(* command of any kind, or two stops.                                          *)
EXTENDS Master

CONSTANTS s1, s2, self

TwoServers == {s1, s2}
OneServer  == {s1}
TwoCommands == 1..2
OneOrTwoStops == {<<op>> : op \in Operations} \cup {<<"stop", "stop">>}
=============================================================================
