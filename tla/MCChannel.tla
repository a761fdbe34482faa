----------------------------- MODULE MCChannel -----------------------------
(* Channel for TLC. *)
EXTENDS Channel, TLC

CONSTANTS o1, o2, u1, u2, f1, f2

TwoObjects == {o1, o2}
TwoUsers   == {u1, u2}
TwoServers == {f1, f2}

Symmetry == Permutations(TwoUsers) \cup Permutations(TwoServers)
=============================================================================
