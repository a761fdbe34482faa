-------------------------- MODULE MCHybridSocket --------------------------
(* HybridSocket for TLC: heads of two bytes, type and size; the bodies look *)
(* like heads of other packages.                                            *)
EXTENDS HybridSocket

GoodHandshake == <<1, 1, 1>>
BadHandshake  == <<1, 1, 2>>
Ack           == <<2, 0>>
Beat          == <<3, 0>>
TwoData       == <<4, 2, 3, 0>>
KickOfClient  == <<5, 0>>
Garbage       == <<0, 1, 3>>

AllPackages == {GoodHandshake, BadHandshake, Ack, Beat, TwoData, KickOfClient, Garbage}
=============================================================================
