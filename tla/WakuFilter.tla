----------------------------- MODULE WakuFilter ------------------------------
(***************************************************************************)
(* The filter service: the four kinds of subscribe request, the periodic   *)
(* maintenance, and the push of a message to the peers subscribed to its   *)
(* criterion.  Requests are handled without a wait between reading and     *)
(* writing the tables, so each is one step.  A request over the rate limit *)
(* or with no, or too many, topics is answered without touching the tables.*)
(***************************************************************************)
EXTENDS FilterSubscriptions

CONSTANTS
  Message,
  CriterionOf,                 \* a message's criterion: [Message -> Criterion]
  MaxContentTopicsPerRequest

ASSUME RequestAssumption ==
  /\ CriterionOf \in [Message -> Criterion]
  /\ MaxContentTopicsPerRequest \in Nat

VARIABLES
  running,       \* the maintenance loop is started
  messageCache,  \* hashes in messageCache, until their TTL is over
  inFlight,      \* pushes that pushToPeers has started: peer, message
  peerStore      \* peers the peer store has with the filter push protocol

\* What a peer can count on for a criterion: "yes" it was told that it is
\* subscribed, and has been in the peer store and within its timeout since,
\* "no" it never was or has unsubscribed, "gone" it was told that it has no
\* subscription, "maybe" after a lapse, an error or an absence from the peer
\* store, of which the service tells it nothing.
VARIABLE belief

vars == <<tableVars, running, messageCache, inFlight, peerStore, belief>>

Init ==
  /\ TablesInit
  /\ running = FALSE /\ messageCache = {} /\ inFlight = {} /\ peerStore = {}
  /\ belief = [p \in Peer |-> [c \in Criterion |-> "no"]]

\* The criteria of one acceptable request.
Request == {S \in SUBSET Criterion : S # {} /\ Cardinality(S) <= MaxContentTopicsPerRequest}

\* belief with peer p's entries for the criteria S that are in From set to v.
Believes(p, S, From, v) ==
  [belief EXCEPT ![p] = [c \in Criterion |->
     IF c \in S /\ belief[p][c] \in From THEN v ELSE belief[p][c]]]

All == {"yes", "no", "gone", "maybe"}

\* Peers that silently lost their subscriptions cannot be sure any more.
Unsure(peers) ==
  [p \in Peer |-> [c \in Criterion |->
     IF p \in peers /\ belief[p][c] = "yes" THEN "maybe" ELSE belief[p][c]]]
------------------------------------------------------------------------------
\* SUBSCRIBE
Subscribe(p, criteria) ==
  /\ running
  /\ addSubscription(p, criteria)
  /\ belief' = Believes(p, criteria, All, IF p \in peerStore THEN "yes" ELSE "maybe")
  /\ UNCHANGED <<running, messageCache, inFlight, peerStore>>

\* UNSUBSCRIBE, answered OK
Unsubscribe(p, criteria) ==
  /\ running
  /\ removeSubscription(p, criteria)
  /\ belief' = Believes(p, criteria, All, "no")
  /\ UNCHANGED <<running, messageCache, inFlight, peerStore>>

\* UNSUBSCRIBE, answered NOT_FOUND because of a criterion nobody has
UnsubscribeFails(p, criteria) ==
  /\ running
  /\ removeSubscriptionFails(p, criteria)
  /\ belief' = Believes(p, criteria, {"yes"}, "maybe")
  /\ UNCHANGED <<running, messageCache, inFlight, peerStore>>

\* UNSUBSCRIBE_ALL: the peer's entry is removed, then the tables cleaned.
UnsubscribeAll(p) ==
  /\ running /\ isSubscribed(p)
  /\ \E late \in Late({p}) :
       /\ cleanUp({p}, late)
       /\ belief' = [Unsure(late) EXCEPT ![p] = [c \in Criterion |-> "no"]]
  /\ UNCHANGED <<running, messageCache, inFlight, peerStore>>

\* SUBSCRIBER_PING of a subscribed peer
Ping(p) ==
  /\ running /\ isSubscribed(p)
  /\ refreshSubscription(p)
  /\ UNCHANGED <<peersSubscribed, criteriaCount, subscriptions, running, messageCache,
                 inFlight, peerStore, belief>>

\* SUBSCRIBER_PING or UNSUBSCRIBE_ALL answered NOT_FOUND
NotFound(p) ==
  /\ running /\ ~isSubscribed(p)
  /\ belief' = Believes(p, Criterion, {"yes", "maybe"}, "gone")
  /\ UNCHANGED <<tableVars, running, messageCache, inFlight, peerStore>>

\* Mutant of maintainSubscriptions: hasPeer is not negated.
MutantMaintainSubscriptions ==
  \E late \in Late(peersSubscribed \cap peerStore) :
    /\ cleanUp(peersSubscribed \cap peerStore, late)
    /\ belief' = Unsure(late)

\* maintainSubscriptions: the peers that are not in the peer store (hasPeer)
\* are removed, then the tables cleaned.
maintainSubscriptions ==
  \E late \in Late(peersSubscribed \ peerStore) :
    /\ cleanUp(peersSubscribed \ peerStore, late)
    /\ belief' = Unsure(late)

Maintain ==
  /\ running
  /\ maintainSubscriptions
  /\ UNCHANGED <<running, messageCache, inFlight, peerStore>>

\* start: the loop maintains once before its first sleep.
Start ==
  /\ ~running /\ running' = TRUE
  /\ maintainSubscriptions
  /\ UNCHANGED <<messageCache, inFlight, peerStore>>

Stop ==
  /\ running /\ running' = FALSE
  /\ UNCHANGED <<tableVars, messageCache, inFlight, peerStore, belief>>

\* Mutant of handleMessage: the message is remembered but the pushes go only
\* to one peer.
MutantHandleMessage(m) ==
  LET peers == findSubscribedPeers(CriterionOf[m])
  IN  /\ peers # {} /\ m \notin messageCache
      /\ messageCache' = messageCache \cup {m}
      /\ inFlight' = inFlight \cup {<<CHOOSE p \in peers : TRUE, m>>}
      /\ UNCHANGED <<tableVars, running, peerStore, belief>>

\* handleMessage: without a subscriber nothing happens, a message that is in
\* the cache is only refreshed there, and another one is pushed to every
\* subscriber.
handleMessage(m) ==
  LET peers == findSubscribedPeers(CriterionOf[m])
  IN  /\ peers # {} /\ m \notin messageCache
      /\ messageCache' = messageCache \cup {m}
      /\ inFlight' = inFlight \cup (peers \X {m})
      /\ UNCHANGED <<tableVars, running, peerStore, belief>>

\* A push is written to its stream, fails, or runs into MessagePushTimeout.
PushEnds(p, m) ==
  /\ <<p, m>> \in inFlight
  /\ inFlight' = inFlight \ {<<p, m>>}
  /\ UNCHANGED <<tableVars, running, messageCache, peerStore, belief>>

\* The cache forgets a message after MessageCacheTTL.
CacheExpires(m) ==
  /\ m \in messageCache
  /\ messageCache' = messageCache \ {m}
  /\ UNCHANGED <<tableVars, running, inFlight, peerStore, belief>>

\* A peer was not seen for subscriptionTimeout.
Lapse(p) ==
  /\ isSubscribed(p)
  /\ stale' = stale \cup {p}
  /\ belief' = Unsure({p})
  /\ UNCHANGED <<peersSubscribed, criteriaCount, subscriptions, running, messageCache,
                 inFlight, peerStore>>

\* The peer store learns that a peer serves the filter push protocol; a peer
\* may subscribe before that.
PeerIdentified(p) ==
  /\ peerStore' = peerStore \cup {p}
  /\ UNCHANGED <<tableVars, running, messageCache, inFlight, belief>>

\* The peer store forgets a peer, or that it serves the protocol.
PeerForgotten(p) ==
  /\ peerStore' = peerStore \ {p}
  /\ belief' = Unsure({p})
  /\ UNCHANGED <<tableVars, running, messageCache, inFlight>>

Next ==
  \/ \E p \in Peer : \E criteria \in Request :
       Subscribe(p, criteria) \/ Unsubscribe(p, criteria) \/ UnsubscribeFails(p, criteria)
  \/ \E p \in Peer : UnsubscribeAll(p) \/ Ping(p) \/ NotFound(p) \/ Lapse(p)
  \/ \E p \in Peer : PeerIdentified(p) \/ PeerForgotten(p)
  \/ Start \/ Stop \/ Maintain
  \/ \E m \in Message : handleMessage(m) \/ CacheExpires(m)
  \/ \E p \in Peer, m \in Message : PushEnds(p, m)

Spec == Init /\ [][Next]_vars
------------------------------------------------------------------------------
TypeOK ==
  /\ TablesTypeOK
  /\ running \in BOOLEAN
  /\ messageCache \subseteq Message
  /\ inFlight \subseteq Peer \X Message
  /\ peerStore \subseteq Peer
  /\ belief \in [Peer -> [Criterion -> All]]

\* A peer that was told its subscription is accepted, and since then neither
\* asked to end it, nor let it lapse, nor was missing from the node's peer
\* store, is served: no request of another peer, refused request,
\* unsubscription of something else or clean-up takes the criterion from it.
\* A peer that is missing when maintainSubscriptions looks loses it, although
\* its timeout is not over, and is not told.
PromiseKept ==
  \A p \in Peer, c \in Criterion : belief[p][c] = "yes" => p \in findSubscribedPeers(c)

\* Nothing is kept for a peer that never asked for the criterion or was told
\* that it is unsubscribed.
NothingUnwanted ==
  \A p \in Peer, c \in Criterion : p \in subscriptions[c] => belief[p][c] # "no"

\* No peer holds more criteria than filter-max-criteria, or than one request
\* may name if that is more: addSubscription compares a known peer's count and
\* request with the limit, and a new peer's first request with nothing.
CriteriaWithinLimit ==
  \A p \in Peer : \/ Cardinality(CriteriaOf(p)) <= MaxCriteriaPerPeer
                  \/ Cardinality(CriteriaOf(p)) <= MaxContentTopicsPerRequest

\* The first copy of a message is pushed to every peer that can count on it.
FirstCopyReachesAll ==
  [][\A m \in Message : (m \notin messageCache /\ m \in messageCache') =>
       \A p \in Peer : belief[p][CriterionOf[m]] = "yes" => <<p, m>> \in inFlight']_vars
==============================================================================
