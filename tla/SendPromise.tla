---------------------------- MODULE SendPromise ----------------------------
(***************************************************************************)
(* What the delivery service tells an application of the requests it makes *)
(* with send(): which events it may hear of each, and in which order.      *)
(* SendService implements it.  It is the contract of the code, in which    *)
(* Sent means "a store node has it" and is a request's last word           *)
(* (reportTaskResult).  liblogosdelivery/MESSAGE_EVENTS.md documents       *)
(* another one, in which Sent means "accepted and queued" and comes first; *)
(* SendService!DocumentedFlow states that one, and the service breaks it.  *)
(***************************************************************************)
EXTENDS Naturals

CONSTANTS
  Request,     \* the requests an application may make
  HashOf,      \* the hash of a request's message
  Ephemeral    \* the requests whose message no store node keeps

VARIABLES
  asked,       \* the requests made
  said,        \* per request: how often each event was told
  archived     \* the hashes that a store node has

promiseVars == <<asked, said, archived>>

Unsaid == [propagated |-> 0, sent |-> 0, failed |-> 0]

Init == asked = {} /\ said = [r \in Request |-> Unsaid] /\ archived = {}

Ask(r) ==
  /\ r \notin asked
  /\ asked' = asked \cup {r}
  /\ UNCHANGED <<said, archived>>

\* What may be told next about r: its propagation, once; or its result, after
\* which nothing more is told. It is "sent" if a store node has the message.
Open(r) == r \in asked /\ said[r].sent + said[r].failed = 0

Hears(r, news) ==
  /\ Open(r)
  /\ \/ said[r].propagated = 0 /\ news = [said[r] EXCEPT !.propagated = 1]
     \/ news = [said[r] EXCEPT !.failed = 1]
     \/ HashOf[r] \in archived /\ r \notin Ephemeral /\ news = [said[r] EXCEPT !.sent = 1]

\* One round of the service may tell of several requests.
Tell ==
  /\ DOMAIN said' = Request
  /\ \A r \in Request : said'[r] = said[r] \/ Hears(r, said'[r])
  /\ UNCHANGED <<asked, archived>>

Archive(r) ==
  /\ r \in asked \ Ephemeral
  /\ archived' = archived \cup {HashOf[r]}
  /\ UNCHANGED <<asked, said>>

Next == Tell \/ \E r \in Request : Ask(r) \/ Archive(r)

Spec == Init /\ [][Next]_promiseVars
=============================================================================
