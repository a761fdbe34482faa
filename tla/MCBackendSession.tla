-------------------------- MODULE MCBackendSession --------------------------
(* BackendSession for TLC: a session, a backend and a frontend copy. *)
EXTENDS BackendSession, TLC

CONSTANTS s1, u1, u2, b1, f1, k1, k2

TwoUids    == {u1, u2}
TwoHandles == {b1, f1}
OneSid     == {s1}
OneHandle  == {f1}
TwoKeys    == {k1, k2}

Symmetry == Permutations(Sids) \cup Permutations(Uids) \cup Permutations(Keys)
=============================================================================
