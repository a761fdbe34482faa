----------------------------- MODULE MCCluster -----------------------------
(* Cluster for TLC. *)
EXTENDS Cluster

CONSTANTS a, b

ThreeServers == {Master, a, b}
=============================================================================
