------------------------------ MODULE SyncCalls ------------------------------
(***************************************************************************)
(* What a program that waits for its callbacks makes of an asynchronous    *)
(* library: calls that follow one another, each answered once, after it    *)
(* was made and before it returns.                                         *)
(***************************************************************************)
EXTENDS Naturals

VARIABLES
  strict,       \* whether the program promises this at all
  begun,        \* calls made so far
  answered,     \* answers delivered so far
  returned      \* calls that have returned

vars == <<strict, begun, answered, returned>>

Init ==
  /\ strict \in BOOLEAN
  /\ begun = 0 /\ answered = 0 /\ returned = 0

Call ==
  /\ returned = begun
  /\ begun' = begun + 1
  /\ UNCHANGED <<answered, returned>>

Answer ==
  /\ answered < begun
  /\ answered' = answered + 1
  /\ UNCHANGED <<begun, returned>>

Return ==
  /\ answered = begun
  /\ returned' = begun
  /\ UNCHANGED <<begun, answered>>

Next ==
  /\ strict' = strict
  /\ strict => Call \/ Answer \/ Return

Spec == Init /\ [][Next]_vars
=============================================================================
