------------------------- MODULE FilterSubscriptions -------------------------
(***************************************************************************)
(* The filter service's two tables: the peers with a subscription, each    *)
(* with the time it was last seen and a count of its criteria, and the     *)
(* criteria with the peers subscribed to each.  The tables are updated     *)
(* separately and nothing but this code keeps them consistent.             *)
(*                                                                         *)
(* A criterion (a pubsub and a content topic) is one value.  lastSeen is   *)
(* abstracted to whether it is older than subscriptionTimeout.  A          *)
(* criterion's key is in the table exactly when it has a peer, so an       *)
(* absent key is the empty set.  No procedure waits for anything: removePeer*)
(* is async, but awaiting a future that is already finished does not yield. *)
(***************************************************************************)
EXTENDS Integers, FiniteSets

CONSTANTS
  Peer,
  Criterion,
  MaxPeers,             \* maxPeers
  MaxCriteriaPerPeer,   \* maxCriteriaPerPeer
  ClockMoves            \* a deadline may pass between two clock reads of cleanUp

ASSUME FilterAssumption ==
  /\ IsFiniteSet(Peer) /\ IsFiniteSet(Criterion)
  /\ MaxPeers \in Nat
  /\ MaxCriteriaPerPeer \in Nat
  /\ ClockMoves \in BOOLEAN

VARIABLES
  peersSubscribed,  \* keys of peersSubscribed
  criteriaCount,    \* PeerData.criteriaCount, 0 for a peer that is no key
  stale,            \* keys whose lastSeen is older than subscriptionTimeout
  subscriptions     \* Table[FilterCriterion, SubscribedPeers]

tableVars == <<peersSubscribed, criteriaCount, stale, subscriptions>>

TablesInit ==
  /\ peersSubscribed = {} /\ stale = {}
  /\ criteriaCount = [p \in Peer |-> 0]
  /\ subscriptions = [c \in Criterion |-> {}]

\* getPeerSubscriptions, without the shortcut on the count.
CriteriaOf(p) == {c \in Criterion : p \in subscriptions[c]}

\* isSubscribed(peerId)
isSubscribed(p) == p \in peersSubscribed \ stale

findSubscribedPeers(c) == {p \in subscriptions[c] : isSubscribed(p)}

\* refreshSubscription
refreshSubscription(p) == stale' = stale \ {p}

\* Mutant of AddRefused: a known peer's count is compared without the request.
MutantAddRefused(p, criteria) ==
  IF p \in peersSubscribed THEN criteriaCount[p] > MaxCriteriaPerPeer
  ELSE Cardinality(peersSubscribed) >= MaxPeers

\* Mutant of AddRefused: one peer too many is accepted.
MutantAddRefusedPeers(p, criteria) ==
  IF p \in peersSubscribed
  THEN criteriaCount[p] + Cardinality(criteria) > MaxCriteriaPerPeer
  ELSE Cardinality(peersSubscribed) > MaxPeers

\* The error cases of addSubscription: a known peer is over its limit, a new
\* one is one too many.
AddRefused(p, criteria) ==
  IF p \in peersSubscribed
  THEN criteriaCount[p] + Cardinality(criteria) > MaxCriteriaPerPeer
  ELSE Cardinality(peersSubscribed) >= MaxPeers

\* Mutant of addSubscription: only a new peer's criteria are counted.
MutantAddSubscription(p, criteria) ==
  /\ ~AddRefused(p, criteria)
  /\ peersSubscribed' = peersSubscribed \cup {p}
  /\ stale' = stale \ {p}
  /\ subscriptions' = [c \in Criterion |->
                         IF c \in criteria THEN subscriptions[c] \cup {p} ELSE subscriptions[c]]
  /\ criteriaCount' = IF p \in peersSubscribed THEN criteriaCount
                      ELSE [criteriaCount EXCEPT ![p] = Cardinality(criteria)]

\* addSubscription(peerId, filterCriteria) that succeeds.
addSubscription(p, criteria) ==
  LET before == IF p \in peersSubscribed THEN criteriaCount[p] ELSE 0
  IN  /\ ~AddRefused(p, criteria)
      /\ peersSubscribed' = peersSubscribed \cup {p}
      /\ stale' = stale \ {p}
      /\ subscriptions' = [c \in Criterion |->
                             IF c \in criteria THEN subscriptions[c] \cup {p}
                                               ELSE subscriptions[c]]
      /\ criteriaCount' = [criteriaCount EXCEPT
                             ![p] = before + Cardinality(criteria \ CriteriaOf(p))]

\* Mutant of RemoveProcessed: the peer stays in the criterion's set.
MutantRemoveProcessed(p, processed) ==
  LET left == criteriaCount[p] - Cardinality(processed \cap CriteriaOf(p))
      gone == processed \cap CriteriaOf(p) # {} /\ left = 0
  IN  /\ peersSubscribed' = IF gone THEN peersSubscribed \ {p} ELSE peersSubscribed
      /\ criteriaCount' = [criteriaCount EXCEPT ![p] = left]
      /\ stale' = stale \ {p}
      /\ UNCHANGED subscriptions

\* The loop of removeSubscription over the criteria it gets to.  The entry
\* of a peer goes with its last criterion; a criterion counted after that
\* would be taken off a deleted entry, which shows as a negative count.
RemoveProcessed(p, processed) ==
  LET left == criteriaCount[p] - Cardinality(processed \cap CriteriaOf(p))
      gone == processed \cap CriteriaOf(p) # {} /\ left = 0
  IN  /\ peersSubscribed' = IF gone THEN peersSubscribed \ {p} ELSE peersSubscribed
      /\ criteriaCount' = [criteriaCount EXCEPT ![p] = left]
      /\ stale' = stale \ {p}
      /\ subscriptions' = [c \in Criterion |->
                             IF c \in processed THEN subscriptions[c] \ {p}
                                                ELSE subscriptions[c]]

\* removeSubscription finds every criterion in the table.
removeSubscription(p, criteria) ==
  /\ p \in peersSubscribed
  /\ \A c \in criteria : subscriptions[c] # {}
  /\ RemoveProcessed(p, criteria)

\* removeSubscription meets a criterion nobody is subscribed to and answers
\* an error; what the hash set's order put before it stays removed.
removeSubscriptionFails(p, criteria) ==
  /\ p \in peersSubscribed
  /\ \E c \in criteria : subscriptions[c] = {}
  /\ \E processed \in SUBSET {c \in criteria : subscriptions[c] # {}} :
       RemoveProcessed(p, processed)

\* Mutant of Cleaned: only the peers' table is cleaned.
MutantCleaned(removed, late, dropped) ==
  LET kept == peersSubscribed \ (removed \cup stale)
  IN  /\ peersSubscribed' = kept
      /\ criteriaCount' = [p \in Peer |-> IF p \in kept THEN criteriaCount[p] ELSE 0]
      /\ stale' = late
      /\ UNCHANGED subscriptions

\* removePeers(removed) and then cleanUp.  The peers of late pass their
\* deadline after cleanUp has filtered the first table; each is found
\* expired for the criteria dropped[p] that the second loop visits later.
Cleaned(removed, late, dropped) ==
  LET kept == peersSubscribed \ (removed \cup stale)
  IN  /\ peersSubscribed' = kept
      /\ criteriaCount' = [p \in Peer |-> IF p \in kept THEN criteriaCount[p] ELSE 0]
      /\ stale' = late
      /\ subscriptions' = [c \in Criterion |->
           {p \in subscriptions[c] : p \in kept /\ (p \in late => c \notin dropped[p])}]

\* The loop visits the criteria in one order, so what it drops for one late
\* peer includes what it drops for a later one.
OneOrder(late, dropped) ==
  \A p, q \in late : dropped[p] \subseteq dropped[q] \/ dropped[q] \subseteq dropped[p]

Late(removed) ==
  IF ClockMoves THEN SUBSET (peersSubscribed \ (removed \cup stale)) ELSE {{}}

cleanUp(removed, late) ==
  /\ late \in Late(removed)
  /\ \E dropped \in [late -> SUBSET Criterion] :
       OneOrder(late, dropped) /\ Cleaned(removed, late, dropped)
------------------------------------------------------------------------------
TablesTypeOK ==
  /\ peersSubscribed \subseteq Peer
  /\ criteriaCount \in [Peer -> Nat]
  /\ stale \subseteq peersSubscribed
  /\ subscriptions \in [Criterion -> SUBSET Peer]

\* Every subscribed peer has an entry, and the entry counts at least the
\* peer's criteria.  This is what keeps criteriaCount (a uint) from wrapping
\* around and removeSubscription from using the entry it has deleted.
CountCovers ==
  \A p \in Peer : /\ CriteriaOf(p) # {} => p \in peersSubscribed
                  /\ Cardinality(CriteriaOf(p)) <= criteriaCount[p]
                  /\ p \notin peersSubscribed => criteriaCount[p] = 0

\* cleanUp "Remove[s] all subscriptions for peers that have not been seen for
\* a while": the count is exactly the number of the peer's criteria.
CountIsExact == \A p \in Peer : criteriaCount[p] = Cardinality(CriteriaOf(p))

\* The service never serves more peers than it was configured to.
PeersWithinLimit == Cardinality(peersSubscribed) <= MaxPeers
==============================================================================
