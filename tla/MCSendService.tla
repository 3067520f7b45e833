---------------------------- MODULE MCSendService ----------------------------
(* Instances of SendService: two or three requests, of which two may carry  *)
(* the same message hash and one may be ephemeral, on one content topic.    *)
EXTENDS SendService, TLC

CONSTANTS t1, t2, t3, h1, h2, ct, s1

\* t1 and t2 are sent in the same clock tick: one hash.
SharedHash == t1 :> h1 @@ t2 :> h1 @@ t3 :> h2
PlainHash == t1 :> h1 @@ t2 :> h2
OneTopic == [t \in Task |-> ct]
OneShard == ct :> s1
==============================================================================
