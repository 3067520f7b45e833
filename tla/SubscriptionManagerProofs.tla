---------------------- MODULE SubscriptionManagerProofs ----------------------
(***************************************************************************)
(* What the subscription manager's procedures do to its table: lemmas for  *)
(* the services that share it.                                             *)
(***************************************************************************)
EXTENDS SubscriptionManager, TLAPS

\* subscribe(topic) files the topic under its shard and touches nothing else.
LEMMA SubscribeStep ==
  ASSUME SubscriptionTypeOK, NEW t \in ContentTopic, subscribe(t)
  PROVE  /\ SubscriptionTypeOK'
         /\ \A s \in Shard, u \in ContentTopic :
              isSubscribed(s, u)' <=> isSubscribed(s, u) \/ (s = GetShard[t] /\ u = t)
<1> USE SubscriptionAssumption DEF SubscriptionTypeOK
<1>1. GetShard[t] \in Shard
  BY DEF subscribe, CanPlace
<1>2. mesh' \subseteq Shard
  BY <1>1 DEF subscribe
<1> DEFINE old == IF hasKey(GetShard[t]) THEN contentTopicSubs[GetShard[t]] ELSE {}
<1>3. old \cup {t} \subseteq ContentTopic
  BY DEF hasKey
<1>4. contentTopicSubs' = WithInterest(contentTopicSubs, GetShard[t], old \cup {t})
  BY DEF subscribe
<1>5. \A u \in ContentTopic : u \in old <=> isSubscribed(GetShard[t], u)
  BY DEF isSubscribed
<1> HIDE DEF old
<1>6. DOMAIN contentTopicSubs' = DOMAIN contentTopicSubs \cup {GetShard[t]}
  BY <1>4 DEF WithInterest
<1>7. \A s \in DOMAIN contentTopicSubs' :
        contentTopicSubs'[s] = IF s = GetShard[t] THEN old \cup {t} ELSE contentTopicSubs[s]
  BY <1>4 DEF WithInterest
<1>8. contentTopicSubs' \in [DOMAIN contentTopicSubs' -> SUBSET ContentTopic]
  BY <1>3, <1>4, <1>6, <1>7 DEF WithInterest
<1>9. \A s \in Shard, u \in ContentTopic :
        isSubscribed(s, u)' <=> isSubscribed(s, u) \/ (s = GetShard[t] /\ u = t)
  BY <1>5, <1>6, <1>7 DEF isSubscribed, hasKey
<1>10. QED BY <1>1, <1>2, <1>6, <1>8, <1>9

\* unsubscribe(topic) takes that topic away and no other.
LEMMA UnsubscribeStep ==
  ASSUME SubscriptionTypeOK, NEW t \in ContentTopic, unsubscribe(t)
  PROVE  /\ SubscriptionTypeOK'
         /\ \A s \in Shard, u \in ContentTopic :
              isSubscribed(s, u)' <=> isSubscribed(s, u) /\ ~(s = GetShard[t] /\ u = t)
<1> USE SubscriptionAssumption DEF SubscriptionTypeOK
<1> DEFINE shard == GetShard[t]
           rest == contentTopicSubs[shard] \ {t}
<1>1. shard \in DOMAIN contentTopicSubs /\ rest \subseteq ContentTopic
  BY DEF unsubscribe, isSubscribed, hasKey
<1>2. mesh' \subseteq Shard
  BY DEF unsubscribe
<1>3. CASE rest = {} /\ ~RelayMounted
  <2>1. contentTopicSubs' = WithoutKey(contentTopicSubs, shard)
    BY <1>3 DEF unsubscribe
  <2>2. /\ DOMAIN contentTopicSubs' = DOMAIN contentTopicSubs \ {shard}
        /\ \A s \in DOMAIN contentTopicSubs' : contentTopicSubs'[s] = contentTopicSubs[s]
    BY <2>1 DEF WithoutKey
  <2>3. contentTopicSubs' \in [DOMAIN contentTopicSubs' -> SUBSET ContentTopic]
    BY <2>1, <2>2 DEF WithoutKey
  <2>4. \A s \in Shard, u \in ContentTopic :
          isSubscribed(s, u)' <=> isSubscribed(s, u) /\ ~(s = shard /\ u = t)
    BY <1>1, <1>3, <2>2 DEF isSubscribed, hasKey
  <2>5. QED BY <1>2, <2>2, <2>3, <2>4
<1>4. CASE ~(rest = {} /\ ~RelayMounted)
  <2>1. contentTopicSubs' = WithInterest(contentTopicSubs, shard, rest)
    BY <1>4 DEF unsubscribe
  <2>2. /\ DOMAIN contentTopicSubs' = DOMAIN contentTopicSubs
        /\ \A s \in DOMAIN contentTopicSubs' :
             contentTopicSubs'[s] = IF s = shard THEN rest ELSE contentTopicSubs[s]
    BY <1>1, <2>1 DEF WithInterest
  <2>3. contentTopicSubs' \in [DOMAIN contentTopicSubs' -> SUBSET ContentTopic]
    BY <1>1, <2>1, <2>2 DEF WithInterest
  <2>4. \A s \in Shard, u \in ContentTopic :
          isSubscribed(s, u)' <=> isSubscribed(s, u) /\ ~(s = shard /\ u = t)
    BY <1>1, <2>2 DEF isSubscribed, hasKey
  <2>5. QED BY <1>2, <2>2, <2>3, <2>4
<1>5. QED BY <1>3, <1>4

\* startSubscriptionManager adds keys, and no interest.
LEMMA StartStep ==
  ASSUME SubscriptionTypeOK, startSubscriptionManager
  PROVE  /\ SubscriptionTypeOK'
         /\ \A s \in Shard, u \in ContentTopic : isSubscribed(s, u)' <=> isSubscribed(s, u)
<1> USE SubscriptionAssumption DEF SubscriptionTypeOK
<1>1. CASE RelayMounted /\ AutoSharding
  <2>1. contentTopicSubs' = [s \in Shard |-> IF hasKey(s) THEN contentTopicSubs[s] ELSE {}]
    BY <1>1 DEF startSubscriptionManager
  <2>2. contentTopicSubs' \in [Shard -> SUBSET ContentTopic]
    BY <2>1 DEF hasKey
  <2>3. mesh' \subseteq Shard
    BY <1>1 DEF startSubscriptionManager
  <2>4. \A s \in Shard, u \in ContentTopic : isSubscribed(s, u)' <=> isSubscribed(s, u)
    BY <2>1 DEF isSubscribed, hasKey
  <2>5. QED BY <2>2, <2>3, <2>4
<1>2. CASE ~(RelayMounted /\ AutoSharding)
  BY <1>2 DEF startSubscriptionManager, subscriptionVars, isSubscribed, hasKey
<1>3. QED BY <1>1, <1>2

\* The types after any procedure that send() and the start of the service use.
LEMMA SubscriptionSteps ==
  ASSUME SubscriptionTypeOK
  PROVE  /\ \A t \in ContentTopic : subscribe(t) => SubscriptionTypeOK'
         /\ startSubscriptionManager => SubscriptionTypeOK'
  BY SubscribeStep, StartStep

\* InterestIsMeshed is inductive over the manager's procedures.
LEMMA MeshSteps ==
  ASSUME SubscriptionTypeOK, InterestIsMeshed
  PROVE  /\ \A t \in ContentTopic : subscribe(t) => InterestIsMeshed'
         /\ \A t \in ContentTopic : unsubscribe(t) => InterestIsMeshed'
         /\ startSubscriptionManager => InterestIsMeshed'
<1> USE SubscriptionAssumption DEF SubscriptionTypeOK, InterestIsMeshed
<1>1. ASSUME NEW t \in ContentTopic, subscribe(t) PROVE InterestIsMeshed'
  BY <1>1 DEF subscribe, WithInterest, hasKey
<1>2. ASSUME NEW t \in ContentTopic, unsubscribe(t) PROVE InterestIsMeshed'
  BY <1>2 DEF unsubscribe, WithInterest, WithoutKey, isSubscribed, hasKey
<1>3. ASSUME startSubscriptionManager PROVE InterestIsMeshed'
  BY <1>3 DEF startSubscriptionManager, hasKey, subscriptionVars
<1>4. QED BY <1>1, <1>2, <1>3
==============================================================================
