---------------------------- MODULE MCWakuFilter -----------------------------
(* Instances of WakuFilter.  Peers, and criteria without a message, are      *)
(* interchangeable.                                                          *)
EXTENDS WakuFilter, TLC

CONSTANTS c1, m1

OneMessage == m1 :> c1
NoMessage == [m \in {} |-> c1]
PeerSymmetry == Permutations(Peer)
FullSymmetry == Permutations(Peer) \cup Permutations(Criterion)
==============================================================================
