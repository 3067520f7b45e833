---------------------------- MODULE MCWakuRlnRelay ----------------------------
(* A node that follows the rules, whose clock is ahead, and one that does not. *)
EXTENDS WakuRlnRelay, TLC

CONSTANTS h, f

HIsAhead == h :> 1 @@ f :> 0
NoneAndOne == h :> 0 @@ f :> 1
=============================================================================
