---------------------------- MODULE MCRecvService ----------------------------
(* Instances of RecvService: messages that are sent at different times, and  *)
(* topics on one or two shards.                                              *)
EXTENDS RecvService, TLC

CONSTANTS s1, s2, t1, t2, m1, m2

TwoShards == (t1 :> s1) @@ (t2 :> s2)
OneShard == t1 :> s1
SameShard == (m1 :> s1) @@ (m2 :> s1)
SameTopic == (m1 :> t1) @@ (m2 :> t1)
EarlyAndLate == (m1 :> 0) @@ (m2 :> 1)
==============================================================================
