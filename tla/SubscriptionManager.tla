------------------------- MODULE SubscriptionManager -------------------------
(***************************************************************************)
(* The delivery service's SubscriptionManager: which content topics the    *)
(* application is interested in, per shard (pubsub topic), and which shards *)
(* the relay mesh is subscribed to on its behalf.  Every procedure of the  *)
(* manager runs without an await, so each is one atomic step; the modules  *)
(* that EXTEND this one put the steps between the steps of the services    *)
(* that share the manager.                                                 *)
(***************************************************************************)
EXTENDS Naturals, FiniteSets

CONSTANTS
  ContentTopic,   \* content topics the application uses
  Shard,          \* pubsub topics of the cluster
  NoShard,        \* what getShard answers for a topic it cannot place
  AutoSharding,   \* node.wakuAutoSharding is set
  GetShard,       \* Sharding.getShard: [ContentTopic -> Shard \cup {NoShard}]
  RelayMounted,   \* node.wakuRelay is not nil
  FilterMounted   \* node.wakuFilterClient is not nil

ASSUME SubscriptionAssumption ==
  /\ NoShard \notin Shard
  /\ AutoSharding \in BOOLEAN
  /\ GetShard \in [ContentTopic -> Shard \cup {NoShard}]
  /\ RelayMounted \in BOOLEAN
  /\ FilterMounted \in BOOLEAN

VARIABLES
  contentTopicSubs,  \* Table[PubsubTopic, HashSet[ContentTopic]]
  mesh               \* shards wakuRelay is subscribed to

subscriptionVars == <<contentTopicSubs, mesh>>

SubscriptionInit ==
  /\ contentTopicSubs = [s \in {} |-> {}]
  /\ mesh = {}

hasKey(shard) == shard \in DOMAIN contentTopicSubs

\* isSubscribed(shard, contentTopic)
isSubscribed(shard, topic) == hasKey(shard) /\ topic \in contentTopicSubs[shard]

\* Mutant of ActiveSubscriptions: keys without an interest are not left out.
MutantActiveSubscriptions == DOMAIN contentTopicSubs

\* getActiveSubscriptions: the shards with at least one interest.
ActiveSubscriptions == {s \in DOMAIN contentTopicSubs : contentTopicSubs[s] # {}}

\* subscribe and unsubscribe answer an error, and change nothing, without a
\* relay or a filter client, without autosharding, or for a topic that has
\* no shard.
CanPlace(topic) ==
  (RelayMounted \/ FilterMounted) /\ AutoSharding /\ GetShard[topic] # NoShard

\* A table with the key present, its value replaced.
WithInterest(table, shard, topics) ==
  [s \in DOMAIN table \cup {shard} |-> IF s = shard THEN topics ELSE table[s]]

WithoutKey(table, shard) == [s \in DOMAIN table \ {shard} |-> table[s]]

\* startSubscriptionManager: the relay joins every shard of the cluster and
\* each becomes a key with no interest.  With a relay, node.subscribe on a
\* pubsub topic never fails.
startSubscriptionManager ==
  IF RelayMounted /\ AutoSharding
  THEN /\ contentTopicSubs' = [s \in Shard |-> IF hasKey(s) THEN contentTopicSubs[s] ELSE {}]
       /\ mesh' = mesh \cup (Shard \ DOMAIN contentTopicSubs)
  ELSE UNCHANGED subscriptionVars

\* Mutant of subscribe: only the interest is recorded.
MutantSubscribe(topic) ==
  LET shard == GetShard[topic]
      old == IF hasKey(shard) THEN contentTopicSubs[shard] ELSE {}
  IN  /\ CanPlace(topic)
      /\ contentTopicSubs' = WithInterest(contentTopicSubs, shard, old \cup {topic})
      /\ UNCHANGED mesh

\* subscribe(topic): joins the shard's mesh if the shard is not yet a key
\* (subscribePubsubTopics), then records the interest.
subscribe(topic) ==
  LET shard == GetShard[topic]
      old == IF hasKey(shard) THEN contentTopicSubs[shard] ELSE {}
  IN  /\ CanPlace(topic)
      /\ contentTopicSubs' = WithInterest(contentTopicSubs, shard, old \cup {topic})
      /\ mesh' = IF RelayMounted /\ ~hasKey(shard) THEN mesh \cup {shard} ELSE mesh

\* unsubscribe(topic): drops the interest; the key goes with its last topic
\* only when there is no relay, and the relay stays in the mesh.
unsubscribe(topic) ==
  LET shard == GetShard[topic]
      rest == contentTopicSubs[shard] \ {topic}
  IN  /\ CanPlace(topic)
      /\ isSubscribed(shard, topic)
      /\ contentTopicSubs' = IF rest = {} /\ ~RelayMounted
                             THEN WithoutKey(contentTopicSubs, shard)
                             ELSE WithInterest(contentTopicSubs, shard, rest)
      /\ UNCHANGED mesh

SubscriptionTypeOK ==
  /\ DOMAIN contentTopicSubs \subseteq Shard
  /\ contentTopicSubs \in [DOMAIN contentTopicSubs -> SUBSET ContentTopic]
  /\ mesh \subseteq Shard

\* With a relay, every shard the table has a key for is in the mesh: the
\* fast path of subscribe, which does not touch the relay when the key is
\* there, never leaves an interest without its mesh subscription.
InterestIsMeshed == RelayMounted => DOMAIN contentTopicSubs \subseteq mesh
==============================================================================
