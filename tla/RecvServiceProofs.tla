-------------------------- MODULE RecvServiceProofs --------------------------
(***************************************************************************)
(* For any messages, topics, stamps and lives: what the checker takes for  *)
(* missed, and what it cannot miss.                                        *)
(***************************************************************************)
EXTENDS RecvService, SubscriptionManagerProofs

\* An interest is filed under its topic's shard, from a known time on.
Interests ==
  /\ \A s \in Shard, t \in ContentTopic :
       isSubscribed(s, t) => GetShard[t] = s /\ since[t] # Never
  /\ \A t \in ContentTopic : since[t] <= now

\* Only messages whose stamp is older than a life are forgotten.
Forgotten ==
  /\ \A m \in Message : m \in received /\ m \notin recentReceivedMsgs =>
                          Stamp[m] + MaxMessageLife <= now
  /\ \A m \in recentReceivedMsgs : m \in received

\* What a check has found so far is in its window, and the window is over.
Window ==
  /\ startTimeToCheck <= now /\ endTimeToCheck <= now
  /\ \A m \in msgHashesInStore : startTimeToCheck - DelayExtra <= Stamp[m]
  /\ checkerPc \notin {"query", "fetch"} => msgHashesInStore = {}

RInv == TypeOK /\ InterestIsMeshed /\ Interests /\ Forgotten /\ Window

\* The messages the application must hear of.
Covered(m) ==
  /\ m \in onTime
  /\ isSubscribed(ShardOf[m], TopicOf[m]) /\ since[TopicOf[m]] <= Stamp[m]

\* The application knows of m, or a check asked for it and did not get it.
Heard(m) == m \in received \/ m \in reported \/ m \in lost

\* A running check has not lost a message that its window is the last one
\* to cover.
InCheck ==
  \A m \in Message :
    /\ Covered(m) /\ ~Heard(m)
    /\ startTimeToCheck <= Stamp[m] + DelayExtra /\ Stamp[m] + DelayExtra < endTimeToCheck
    => /\ checkerPc = "query" =>
            \/ m \in msgHashesInStore
            \/ \E sub \in subsToQuery : sub.shard = ShardOf[m] /\ TopicOf[m] \in sub.topics
       /\ checkerPc = "fetch" => m \in missedHashes
------------------------------------------------------------------------------
\* A page holds matching messages.
LEMMA PageFacts ==
  ASSUME NEW S, NEW P \in Page(S)
  PROVE  P \subseteq S
  BY DEF Page

\* A check that goes on with subs after collecting hashes.
LEMMA CollectedKeeps ==
  ASSUME RInv, NEW subs \in SUBSET Subs, NEW hashes \in SUBSET archived,
         Collected(subs, hashes), endTimeToCheck' \in {endTimeToCheck, now},
         lost' \in SUBSET archived,
         \A m \in hashes : startTimeToCheck - DelayExtra <= Stamp[m]
  PROVE  RInv'
<1> USE DEF RInv
<1>1. /\ subsToQuery' = subs /\ msgHashesInStore' = hashes
      /\ checkerPc' \in {"query", "fetch"}
      /\ missedHashes' \subseteq archived
      /\ UNCHANGED <<subscriptionVars, recentReceivedMsgs, listening, stopping,
                     startTimeToCheck, worldVars, received, reported, since>>
  BY DEF Collected, TypeOK
<1>2. TypeOK'
  BY <1>1 DEF TypeOK, subscriptionVars, SubscriptionTypeOK, worldVars
<1>3. InterestIsMeshed' /\ Interests'
  BY <1>1 DEF Interests, InterestIsMeshed, isSubscribed, hasKey, subscriptionVars,
              worldVars
<1>4. Forgotten'
  BY <1>1 DEF Forgotten, worldVars
<1>5. Window'
  BY <1>1 DEF Window, worldVars, TypeOK
<1>6. QED BY <1>2, <1>3, <1>4, <1>5

\* What the checker asks about first.
LEMMA Snapshot ==
  ASSUME TypeOK
  PROVE  {[shard |-> s, topics |-> contentTopicSubs[s]] : s \in ActiveSubscriptions}
           \subseteq Subs
  BY DEF TypeOK, SubscriptionTypeOK, ActiveSubscriptions, Subs

LEMMA RecvInit == Init => RInv
<1> SUFFICES ASSUME Init PROVE RInv
  OBVIOUS
<1> USE RecvAssumption, SubscriptionAssumption DEF Init, SubscriptionInit, Never
<1>1. TypeOK
  BY DEF TypeOK, SubscriptionTypeOK
<1>2. InterestIsMeshed /\ Interests
  BY DEF Interests, InterestIsMeshed, isSubscribed, hasKey
<1>3. Forgotten /\ Window
  BY DEF Forgotten, Window
<1>4. QED BY <1>1, <1>2, <1>3 DEF RInv

LEMMA RecvNext == RInv /\ [Next]_vars => RInv'
<1> SUFFICES ASSUME RInv, [Next]_vars PROVE RInv'
  OBVIOUS
<1> USE RecvAssumption DEF RInv
<1>1. ASSUME NEW t \in ContentTopic, Subscribe(t) PROVE RInv'
  <2>1. /\ SubscriptionTypeOK' /\ InterestIsMeshed' /\ GetShard[t] \in Shard
        /\ \A s \in Shard, u \in ContentTopic :
             isSubscribed(s, u)' <=> isSubscribed(s, u) \/ (s = GetShard[t] /\ u = t)
    BY <1>1, SubscribeStep, MeshSteps, SubscriptionAssumption
       DEF Subscribe, TypeOK, subscribe, CanPlace
  <2>2. TypeOK'
    BY <1>1, <2>1 DEF Subscribe, TypeOK, checkVars, worldVars
  <2>3. Interests'
    <3>1. /\ \A u \in ContentTopic : since'[u] = since[u]
                                     \/ (u = t /\ since'[u] = now)
          /\ isSubscribed(GetShard[t], t) \/ since'[t] = now
          /\ now' = now
      BY <1>1 DEF Subscribe, worldVars, TypeOK
    <3>2. \A u \in ContentTopic : since'[u] <= now'
      BY <3>1 DEF Interests, TypeOK, Never
    <3>3. \A s \in Shard, u \in ContentTopic :
            isSubscribed(s, u)' => GetShard[u] = s /\ since'[u] # Never
      BY <2>1, <3>1 DEF Interests, TypeOK, Never
    <3>4. QED BY <3>2, <3>3 DEF Interests
  <2>4. Forgotten' /\ Window'
    BY <1>1 DEF Subscribe, Forgotten, Window, checkVars, worldVars
  <2>5. QED BY <2>1, <2>2, <2>3, <2>4
<1>2. ASSUME NEW t \in ContentTopic, Unsubscribe(t) PROVE RInv'
  <2>1. /\ SubscriptionTypeOK' /\ InterestIsMeshed'
        /\ \A s \in Shard, u \in ContentTopic :
             isSubscribed(s, u)' <=> isSubscribed(s, u) /\ ~(s = GetShard[t] /\ u = t)
    BY <1>2, UnsubscribeStep, MeshSteps DEF Unsubscribe, TypeOK
  <2>2. TypeOK'
    BY <1>2, <2>1 DEF Unsubscribe, TypeOK, checkVars, worldVars
  <2>3. Interests'
    <3>1. /\ \A u \in ContentTopic : since'[u] = IF u = t THEN Never ELSE since[u]
          /\ now' = now
      BY <1>2 DEF Unsubscribe, worldVars, TypeOK
    <3>2. \A u \in ContentTopic : since'[u] <= now'
      BY <3>1 DEF Interests, TypeOK, Never
    <3>3. \A s \in Shard, u \in ContentTopic :
            isSubscribed(s, u)' => GetShard[u] = s /\ since'[u] # Never
      BY <2>1, <3>1 DEF Interests
    <3>4. QED BY <3>2, <3>3 DEF Interests
  <2>4. Forgotten' /\ Window'
    BY <1>2 DEF Unsubscribe, Forgotten, Window, checkVars, worldVars
  <2>5. QED BY <2>1, <2>2, <2>3, <2>4
<1>3. ASSUME NEW m \in Message, MessageSeen(m) PROVE RInv'
  <2>1. TypeOK'
    BY <1>3 DEF MessageSeen, TypeOK, subscriptionVars, SubscriptionTypeOK, checkVars, worldVars
  <2>2. Interests' /\ InterestIsMeshed' /\ Window'
    BY <1>3 DEF MessageSeen, Interests, InterestIsMeshed, Window, isSubscribed, hasKey,
                subscriptionVars, checkVars, worldVars
  <2>3. Forgotten'
    BY <1>3 DEF MessageSeen, Forgotten, TypeOK, worldVars, Never
  <2>4. QED BY <2>1, <2>2, <2>3
<1>4. ASSUME NEW m \in Message, StoreArchives(m) PROVE RInv'
  <2>1. TypeOK'
    BY <1>4 DEF StoreArchives, TypeOK, subscriptionVars, SubscriptionTypeOK, checkVars, toldVars
  <2>2. Interests' /\ InterestIsMeshed' /\ Window' /\ Forgotten'
    BY <1>4 DEF StoreArchives, Interests, InterestIsMeshed, Window, Forgotten, isSubscribed,
                hasKey, subscriptionVars, checkVars, toldVars
  <2>3. QED BY <2>1, <2>2
<1>5. ASSUME Tick PROVE RInv'
  <2>1. TypeOK'
    BY <1>5 DEF Tick, TypeOK, subscriptionVars, SubscriptionTypeOK, checkVars, toldVars
  <2>2. Interests' /\ InterestIsMeshed'
    BY <1>5 DEF Tick, Interests, InterestIsMeshed, isSubscribed, hasKey, subscriptionVars,
                toldVars, TypeOK, Never
  <2>3. Window' /\ Forgotten'
    BY <1>5 DEF Tick, Window, Forgotten, checkVars, toldVars, TypeOK
  <2>4. QED BY <2>1, <2>2, <2>3
<1>6. Pruned \subseteq recentReceivedMsgs
      /\ \A m \in recentReceivedMsgs \ Pruned : Stamp[m] + MaxMessageLife <= now
  BY DEF Pruned, TypeOK
<1>7. ASSUME Prune PROVE RInv'
  <2>1. TypeOK'
    BY <1>6, <1>7 DEF Prune, TypeOK, subscriptionVars, SubscriptionTypeOK, checkVars,
                      worldVars, toldVars
  <2>2. Interests' /\ InterestIsMeshed' /\ Window'
    BY <1>7 DEF Prune, Interests, InterestIsMeshed, Window, isSubscribed, hasKey,
                subscriptionVars, checkVars, worldVars, toldVars
  <2>3. Forgotten'
    BY <1>6, <1>7 DEF Prune, Forgotten, worldVars, toldVars
  <2>4. QED BY <2>1, <2>2, <2>3
<1>8. ASSUME StartRecvService PROVE RInv'
  <2>1. /\ SubscriptionTypeOK' /\ InterestIsMeshed'
        /\ \A s \in Shard, u \in ContentTopic : isSubscribed(s, u)' <=> isSubscribed(s, u)
    BY <1>8, StartStep, MeshSteps DEF StartRecvService, TypeOK
  <2>2. TypeOK'
    BY <1>6, <1>8, <2>1 DEF StartRecvService, TypeOK, worldVars, toldVars
  <2>3. Interests' /\ Window'
    BY <1>8, <2>1 DEF StartRecvService, Interests, Window, worldVars, toldVars
  <2>4. Forgotten'
    BY <1>6, <1>8 DEF StartRecvService, Forgotten, worldVars, toldVars
  <2>5. QED BY <2>1, <2>2, <2>3, <2>4
<1>9. ASSUME StopRecvService PROVE RInv'
  <2>1. TypeOK'
    BY <1>9 DEF StopRecvService, TypeOK, subscriptionVars, SubscriptionTypeOK, worldVars, toldVars
  <2>2. Interests' /\ InterestIsMeshed' /\ Window' /\ Forgotten'
    BY <1>9 DEF StopRecvService, Interests, InterestIsMeshed, Window, Forgotten, isSubscribed,
                hasKey, subscriptionVars, worldVars, toldVars
  <2>3. QED BY <2>1, <2>2
<1>10. ASSUME BeginCheck PROVE RInv'
  <2>1. lost' \in SUBSET archived
    BY <1>10 DEF BeginCheck, TypeOK
  <2>2. QED BY <1>10, <2>1, Snapshot, CollectedKeeps DEF BeginCheck
<1>11. ASSUME NEW sub \in subsToQuery, QueryAnswered(sub) PROVE RInv'
  <2>1. PICK page \in Page(Matching(sub)) :
          Collected(subsToQuery \ {sub}, msgHashesInStore \cup page)
    BY <1>11 DEF QueryAnswered
  <2>2. Matching(sub) \in SUBSET Message /\ page \subseteq Matching(sub)
    BY PageFacts DEF Matching, TypeOK
  <2>3. \A m \in msgHashesInStore \cup page : startTimeToCheck - DelayExtra <= Stamp[m]
    BY <2>2 DEF Window, Matching, InWindow
  <2>4. msgHashesInStore \cup page \in SUBSET archived /\ subsToQuery \ {sub} \in SUBSET Subs
    BY <2>2 DEF TypeOK, Matching
  <2>5. endTimeToCheck' = endTimeToCheck /\ lost' \in SUBSET archived
    BY <1>11 DEF QueryAnswered, Matching, TypeOK
  <2>6. QED BY <2>1, <2>3, <2>4, <2>5, CollectedKeeps
<1>12. ASSUME NEW sub \in subsToQuery, QueryFails(sub) PROVE RInv'
  <2>1. /\ msgHashesInStore \in SUBSET archived /\ subsToQuery \ {sub} \in SUBSET Subs
        /\ lost' \in SUBSET archived
    BY <1>12 DEF QueryFails, Matching, TypeOK
  <2>2. QED BY <1>12, <2>1, CollectedKeeps DEF QueryFails, Window
<1>13. ASSUME EndCheck, reported' \subseteq archived, lost' \subseteq archived PROVE RInv'
  <2>1. TypeOK'
    BY <1>13 DEF EndCheck, TypeOK, subscriptionVars, SubscriptionTypeOK, worldVars
  <2>2. Interests' /\ InterestIsMeshed' /\ Window' /\ Forgotten'
    BY <1>13 DEF EndCheck, Interests, InterestIsMeshed, Window, Forgotten, isSubscribed,
                 hasKey, subscriptionVars, worldVars
  <2>3. QED BY <2>1, <2>2
<1>14. ASSUME FetchAnswered PROVE RInv'
  <2>1. Requested \in SUBSET Message /\ Requested \subseteq archived
    BY DEF Requested, TypeOK
  <2>2. QED BY <1>13, <1>14, <2>1, PageFacts DEF FetchAnswered, EndCheck, worldVars, TypeOK
<1>15. ASSUME FetchFails PROVE RInv'
  BY <1>13, <1>15 DEF FetchFails, TypeOK
<1>16. ASSUME UNCHANGED vars PROVE RInv'
  BY <1>16 DEF vars, subscriptionVars, SubscriptionTypeOK, checkVars, worldVars, toldVars,
               TypeOK, Interests, InterestIsMeshed, Window, Forgotten, isSubscribed, hasKey
<1>17. QED
  BY <1>1, <1>2, <1>3, <1>4, <1>5, <1>7, <1>8, <1>9, <1>10, <1>11, <1>12, <1>14, <1>15, <1>16
     DEF Next

LEMMA AlwaysRInv == Spec => []RInv
  BY RecvInit, RecvNext, PTL DEF Spec

\* The types of the receive service's state: only archived messages are found,
\* missed or reported, and only interests are asked about.
THEOREM RecvTypeCorrect == Spec => []TypeOK
  BY AlwaysRInv, PTL DEF RInv

\* Every shard with an interest is in the relay's mesh.
THEOREM InterestsAreMeshed == Spec => []InterestIsMeshed
  BY AlwaysRInv, PTL DEF RInv

\* Where a comparison finds something missed, the check's window bounds how old
\* it is.
LEMMA ComparedInWindow ==
  ASSUME RInv, NEW subs, NEW hashes \in SUBSET archived, Collected(subs, hashes),
         \A m \in hashes : startTimeToCheck - DelayExtra <= Stamp[m],
         NEW m \in missedHashes' \ missedHashes, m \in received
  PROVE  now - startTimeToCheck >= MaxMessageLife - DelayExtra
<1>1. m \in hashes /\ m \notin recentReceivedMsgs
  BY DEF Collected
<1>2. m \in Message
  BY <1>1 DEF RInv, TypeOK
<1>3. Stamp[m] + MaxMessageLife <= now /\ startTimeToCheck - DelayExtra <= Stamp[m]
  BY <1>1, <1>2 DEF RInv, Forgotten
<1>4. QED BY <1>2, <1>3, RecvAssumption DEF RInv, TypeOK

\* A received message is taken for missed only by a check that comes or lasts
\* too long, whatever the stamps of the messages are.
THEOREM MissedUnlessSlow == Spec => MissedWereNotReceived
<1>1. RInv /\ [Next]_vars =>
        [\A m \in missedHashes' \ missedHashes :
           m \in received => now - startTimeToCheck >= MaxMessageLife - DelayExtra]_vars
  <2> SUFFICES ASSUME RInv, Next, NEW m \in missedHashes' \ missedHashes, m \in received
               PROVE  now - startTimeToCheck >= MaxMessageLife - DelayExtra
    BY DEF vars, checkVars
  <2>1. PICK subs : \E hashes \in SUBSET archived :
          Collected(subs, hashes) /\ \A h \in hashes : startTimeToCheck - DelayExtra <= Stamp[h]
    <3>1. CASE BeginCheck
      BY <3>1 DEF BeginCheck
    <3>2. ASSUME NEW sub \in subsToQuery, QueryAnswered(sub)
          PROVE  \E subs : \E hashes \in SUBSET archived :
            Collected(subs, hashes) /\ \A h \in hashes : startTimeToCheck - DelayExtra <= Stamp[h]
      <4>1. PICK page \in Page(Matching(sub)) :
              Collected(subsToQuery \ {sub}, msgHashesInStore \cup page)
        BY <3>2 DEF QueryAnswered
      <4>2. Matching(sub) \in SUBSET Message /\ page \subseteq Matching(sub)
        BY PageFacts DEF Matching, RInv, TypeOK
      <4>3. QED BY <4>1, <4>2 DEF RInv, Window, TypeOK, Matching, InWindow
    <3>3. ASSUME NEW sub \in subsToQuery, QueryFails(sub)
          PROVE  \E subs : \E hashes \in SUBSET archived :
            Collected(subs, hashes) /\ \A h \in hashes : startTimeToCheck - DelayExtra <= Stamp[h]
      BY <3>3 DEF QueryFails, RInv, Window, TypeOK
    <3>4. CASE FetchAnswered \/ FetchFails
      BY <3>4 DEF FetchAnswered, FetchFails, EndCheck
    <3>5. CASE Tick \/ Prune \/ StartRecvService \/ StopRecvService
      BY <3>5 DEF Tick, Prune, StartRecvService, StopRecvService, checkVars
    <3>6. CASE \E t \in ContentTopic : Subscribe(t) \/ Unsubscribe(t)
      BY <3>6 DEF Subscribe, Unsubscribe, checkVars
    <3>7. CASE \E n \in Message : MessageSeen(n) \/ StoreArchives(n)
      BY <3>7 DEF MessageSeen, StoreArchives, checkVars
    <3>8. QED BY <3>1, <3>2, <3>3, <3>4, <3>5, <3>6, <3>7 DEF Next
  <2>2. QED BY <2>1, ComparedInWindow
<1>2. QED BY <1>1, AlwaysRInv, PTL DEF Spec, MissedWereNotReceived
------------------------------------------------------------------------------
\* Coverage is never gained by what happens after the window's end: a message
\* that is archived or subscribed to then is too late to count.
LEMMA CoverageIsOld ==
  ASSUME RInv, [Next]_vars, NEW m \in Message, Covered(m)', ~Heard(m)'
  PROVE  /\ Covered(m) \/ now <= Stamp[m] + DelayExtra
         /\ ~Heard(m)
<1> DEFINE s == ShardOf[m]
           t == TopicOf[m]
<1>0. s \in Shard /\ t \in ContentTopic /\ Stamp[m] \in Nat /\ DelayExtra \in Nat /\ now \in Nat
  BY RecvAssumption DEF RInv, TypeOK
<1>a. SubscriptionTypeOK
  BY DEF RInv, TypeOK
<1>1. ASSUME UNCHANGED <<subscriptionVars, since, onTime>> PROVE Covered(m)
  BY <1>1 DEF Covered, isSubscribed, hasKey, subscriptionVars
<1>2. ASSUME UNCHANGED <<received, reported, lost>> PROVE ~Heard(m)
  BY <1>2 DEF Heard
<1>3. ASSUME NEW u \in ContentTopic, Subscribe(u)
      PROVE  (Covered(m) \/ now <= Stamp[m] + DelayExtra) /\ ~Heard(m)
  <2>1. isSubscribed(s, t)' <=> isSubscribed(s, t) \/ (s = GetShard[u] /\ t = u)
    BY <1>0, <1>a, <1>3, SubscribeStep DEF Subscribe
  <2>2. CASE isSubscribed(s, t)
    <3>1. GetShard[t] = s
      BY <1>0, <2>2 DEF RInv, Interests
    <3>2. since'[t] = since[t]
      BY <1>0, <1>3, <2>2, <3>1 DEF Subscribe, RInv, TypeOK
    <3>3. QED BY <1>2, <1>3, <2>2, <3>2 DEF Subscribe, Covered, worldVars
  <2>3. CASE ~isSubscribed(s, t)
    <3>1. s = GetShard[u] /\ t = u
      BY <2>1, <2>3 DEF Covered
    <3>2. since'[t] = now
      BY <1>0, <1>3, <2>3, <3>1 DEF Subscribe, RInv, TypeOK
    <3>3. now <= Stamp[m]
      BY <3>2 DEF Covered
    <3>4. QED BY <1>0, <1>2, <1>3, <3>3 DEF Subscribe
  <2>4. QED BY <2>2, <2>3
<1>4. ASSUME NEW u \in ContentTopic, Unsubscribe(u) PROVE Covered(m) /\ ~Heard(m)
  <2>1. isSubscribed(s, t)' <=> isSubscribed(s, t) /\ ~(s = GetShard[u] /\ t = u)
    BY <1>0, <1>a, <1>4, UnsubscribeStep DEF Unsubscribe
  <2>2. isSubscribed(s, t) /\ GetShard[t] = s /\ t # u
    BY <1>0, <2>1 DEF Covered, RInv, Interests
  <2>3. since'[t] = since[t]
    BY <1>0, <1>4, <2>2 DEF Unsubscribe, RInv, TypeOK
  <2>4. QED BY <1>2, <1>4, <2>2, <2>3 DEF Unsubscribe, Covered, worldVars
<1>5. ASSUME NEW n \in Message, MessageSeen(n) PROVE Covered(m) /\ ~Heard(m)
  <2>1. m # n
    BY <1>0, <1>5 DEF MessageSeen, Heard, RInv, TypeOK, Never
  <2>2. QED BY <1>1, <1>5, <2>1 DEF MessageSeen, Heard, RInv, TypeOK, worldVars
<1>6. ASSUME NEW n \in Message, StoreArchives(n)
      PROVE  (Covered(m) \/ now <= Stamp[m] + DelayExtra) /\ ~Heard(m)
  <2>1. m \in onTime \/ now <= Stamp[m] + DelayExtra
    BY <1>6 DEF StoreArchives, Covered
  <2>2. isSubscribed(s, t) /\ since[t] <= Stamp[m]
    BY <1>6 DEF StoreArchives, Covered, isSubscribed, hasKey, subscriptionVars, toldVars
  <2>3. QED BY <1>2, <1>6, <2>1, <2>2 DEF StoreArchives, Covered, toldVars
<1>7. ASSUME StartRecvService PROVE Covered(m) /\ ~Heard(m)
  <2>1. isSubscribed(s, t)' <=> isSubscribed(s, t)
    BY <1>0, <1>a, <1>7, StartStep DEF StartRecvService
  <2>2. QED BY <1>2, <1>7, <2>1 DEF StartRecvService, Covered, worldVars, toldVars
<1>8. ASSUME Tick \/ Prune \/ StopRecvService \/ UNCHANGED vars PROVE Covered(m) /\ ~Heard(m)
  BY <1>1, <1>2, <1>8 DEF Tick, Prune, StopRecvService, vars, worldVars, toldVars
<1>9. ASSUME NEW subs, NEW hashes, Collected(subs, hashes), lost \subseteq lost'
      PROVE  Covered(m) /\ ~Heard(m)
  BY <1>1, <1>9 DEF Collected, worldVars, Heard
<1>10. ASSUME EndCheck, reported \subseteq reported', lost \subseteq lost' PROVE Covered(m) /\ ~Heard(m)
  BY <1>1, <1>10 DEF EndCheck, worldVars, Heard
<1>11. ASSUME FetchAnswered \/ FetchFails PROVE Covered(m) /\ ~Heard(m)
  BY <1>10, <1>11 DEF FetchAnswered, FetchFails
<1>12. ASSUME BeginCheck \/ \E sub \in subsToQuery : QueryAnswered(sub) \/ QueryFails(sub)
       PROVE  Covered(m) /\ ~Heard(m)
  BY <1>9, <1>12 DEF BeginCheck, QueryAnswered, QueryFails
<1>13. QED
  BY <1>3, <1>4, <1>5, <1>6, <1>7, <1>8, <1>11, <1>12 DEF Next

\* What the checks that are over owe the application.
Settled ==
  \A m \in Message : Covered(m) /\ Stamp[m] + DelayExtra < startTimeToCheck => Heard(m)

LEMMA SettledIsReported == TypeOK /\ Settled => MissedIsReported
  BY DEF TypeOK, Settled, MissedIsReported, Covered, Heard

\* A step that does not touch the running check.
LEMMA IdleKeeps ==
  ASSUME RInv, Settled, InCheck, [Next]_vars,
         UNCHANGED <<startTimeToCheck, endTimeToCheck, subsToQuery, msgHashesInStore,
                     missedHashes>>,
         checkerPc' \in {checkerPc, "sleep", "stopped"}
  PROVE  Settled' /\ InCheck'
<1> USE RecvAssumption
<1>1. /\ startTimeToCheck \in Nat /\ endTimeToCheck \in Nat /\ now \in Nat
      /\ startTimeToCheck <= now /\ endTimeToCheck <= now
  BY DEF RInv, TypeOK, Window
<1>2. ASSUME NEW m \in Message, Covered(m)', ~Heard(m)', Stamp[m] + DelayExtra < startTimeToCheck
      PROVE FALSE
  BY <1>1, <1>2, CoverageIsOld DEF Settled
<1>3. ASSUME NEW m \in Message, Covered(m)', ~Heard(m)', Stamp[m] + DelayExtra < endTimeToCheck
      PROVE Covered(m) /\ ~Heard(m)
  BY <1>1, <1>3, CoverageIsOld
<1>4. Settled'
  BY <1>2 DEF Settled
<1>5. InCheck'
  BY <1>3 DEF InCheck
<1>6. QED BY <1>4, <1>5

\* The loop over the subscriptions: whoever covers m is asked, or m is found.
LEMMA CollectedOwes ==
  ASSUME RInv, Settled, [Next]_vars, NEW subs, NEW hashes, Collected(subs, hashes),
         endTimeToCheck' \in Nat, lost \subseteq lost',
         \A m \in Message :
           /\ Covered(m) /\ ~Heard(m)'
           /\ startTimeToCheck <= Stamp[m] + DelayExtra /\ Stamp[m] + DelayExtra < endTimeToCheck'
           => \/ m \in hashes
              \/ \E sub \in subs : sub.shard = ShardOf[m] /\ TopicOf[m] \in sub.topics
  PROVE  Settled' /\ InCheck'
<1>1. /\ subsToQuery' = subs /\ msgHashesInStore' = hashes
      /\ startTimeToCheck' = startTimeToCheck
      /\ checkerPc' = IF subs = {} THEN "fetch" ELSE "query"
      /\ subs = {} => missedHashes' = hashes \ recentReceivedMsgs
  BY DEF Collected
<1>2. ASSUME NEW m \in Message
      PROVE  (Covered(m)' <=> Covered(m)) /\ (Heard(m) => Heard(m)')
  BY DEF Collected, Covered, Heard, isSubscribed, hasKey, subscriptionVars, worldVars
<1>3. Settled'
  BY <1>1, <1>2 DEF Settled
<1>4. \A m \in Message : ~Heard(m) => m \notin recentReceivedMsgs
  BY DEF RInv, Forgotten, Heard
<1>5. InCheck'
  BY <1>1, <1>2, <1>4 DEF InCheck
<1>6. QED BY <1>3, <1>5

LEMMA OwedNext ==
  ASSUME RInv, Settled, InCheck, [Next]_vars
  PROVE  Settled' /\ InCheck'
<1> USE RecvAssumption
<1>0. /\ startTimeToCheck \in Nat /\ endTimeToCheck \in Nat /\ now \in Nat
      /\ archived \subseteq Message /\ missedHashes \subseteq archived
  BY DEF RInv, TypeOK
<1>1. ASSUME \/ Tick \/ Prune \/ StartRecvService \/ StopRecvService \/ UNCHANGED vars
             \/ \E t \in ContentTopic : Subscribe(t) \/ Unsubscribe(t)
             \/ \E m \in Message : MessageSeen(m) \/ StoreArchives(m)
      PROVE  Settled' /\ InCheck'
  BY <1>1, IdleKeeps DEF Tick, Prune, StartRecvService, StopRecvService, vars, Subscribe,
                         Unsubscribe, MessageSeen, StoreArchives, checkVars
<1>2. ASSUME BeginCheck PROVE Settled' /\ InCheck'
  <2> DEFINE subs == {[shard |-> s, topics |-> contentTopicSubs[s]] : s \in ActiveSubscriptions}
  <2>1. ASSUME NEW m \in Message, Covered(m)
        PROVE  \E sub \in subs : sub.shard = ShardOf[m] /\ TopicOf[m] \in sub.topics
    <3>1. ShardOf[m] \in ActiveSubscriptions /\ TopicOf[m] \in contentTopicSubs[ShardOf[m]]
      BY <2>1 DEF Covered, isSubscribed, hasKey, ActiveSubscriptions
    <3> DEFINE sub == [shard |-> ShardOf[m], topics |-> contentTopicSubs[ShardOf[m]]]
    <3>2. sub \in subs
      BY <3>1
    <3>3. sub.shard = ShardOf[m] /\ TopicOf[m] \in sub.topics
      BY <3>1
    <3>4. QED BY <3>2, <3>3
  <2>2. Collected(subs, {}) /\ endTimeToCheck' \in Nat /\ lost' = lost
    BY <1>0, <1>2 DEF BeginCheck
  <2> HIDE DEF subs
  <2>3. QED BY <2>1, <2>2, CollectedOwes
\* A query finds the messages it asks for, or loses them.
<1>3. ASSUME NEW sub \in subsToQuery, checkerPc = "query", NEW page,
             Collected(subsToQuery \ {sub}, msgHashesInStore \cup page),
             lost' = lost \cup (Matching(sub) \ page), endTimeToCheck' = endTimeToCheck
      PROVE  Settled' /\ InCheck'
  <2>1. ASSUME NEW m \in Message, Covered(m), ~Heard(m)',
               startTimeToCheck <= Stamp[m] + DelayExtra, Stamp[m] + DelayExtra < endTimeToCheck
        PROVE  \/ m \in msgHashesInStore \cup page
               \/ \E other \in subsToQuery \ {sub} :
                    other.shard = ShardOf[m] /\ TopicOf[m] \in other.topics
    <3>1. ~Heard(m) /\ m \notin lost'
      BY <1>3, <2>1 DEF Heard, Collected
    <3>2. \/ m \in msgHashesInStore
          \/ \E other \in subsToQuery : other.shard = ShardOf[m] /\ TopicOf[m] \in other.topics
      BY <1>3, <2>1, <3>1 DEF InCheck
    <3>3. InWindow(m) /\ m \in archived
      BY <1>0, <2>1 DEF InWindow, Covered, RInv, TypeOK
    <3>4. sub.shard = ShardOf[m] /\ TopicOf[m] \in sub.topics => m \in page
      BY <1>3, <3>1, <3>3 DEF Matching
    <3>5. QED BY <3>2, <3>4
  <2>2. QED BY <1>0, <1>3, <2>1, CollectedOwes
<1>4. ASSUME NEW sub \in subsToQuery, QueryAnswered(sub) PROVE Settled' /\ InCheck'
  BY <1>3, <1>4 DEF QueryAnswered
<1>5. ASSUME NEW sub \in subsToQuery, QueryFails(sub) PROVE Settled' /\ InCheck'
  <2>1. /\ Collected(subsToQuery \ {sub}, msgHashesInStore \cup {})
        /\ lost' = lost \cup (Matching(sub) \ {})
    BY <1>5 DEF QueryFails
  <2>2. QED BY <1>3, <1>5, <2>1 DEF QueryFails
\* So does the fetch at the end of a check.
<1>6. ASSUME EndCheck, reported \subseteq reported', lost \subseteq lost',
             missedHashes \subseteq reported' \cup lost'
      PROVE  Settled' /\ InCheck'
  <2>1. /\ checkerPc = "fetch" /\ checkerPc' = "sleep"
        /\ startTimeToCheck' = endTimeToCheck
        /\ UNCHANGED <<subscriptionVars, worldVars, received, since>>
    BY <1>6 DEF EndCheck
  <2>2. ASSUME NEW m \in Message, Covered(m)', Stamp[m] + DelayExtra < endTimeToCheck
        PROVE  Heard(m)'
    <3>1. Covered(m)
      BY <2>1, <2>2 DEF Covered, isSubscribed, hasKey, subscriptionVars, worldVars
    <3>2. CASE Heard(m)
      BY <1>6, <2>1, <3>2 DEF Heard
    <3>3. CASE ~Heard(m)
      <4>1. startTimeToCheck <= Stamp[m] + DelayExtra
        BY <1>0, <3>1, <3>3 DEF Settled
      <4>2. m \in missedHashes
        BY <2>1, <2>2, <3>1, <3>3, <4>1 DEF InCheck
      <4>3. QED BY <1>6, <4>2 DEF Heard
    <3>4. QED BY <3>2, <3>3
  <2>3. Settled'
    BY <2>1, <2>2 DEF Settled
  <2>4. InCheck'
    BY <2>1 DEF InCheck
  <2>5. QED BY <2>3, <2>4
<1>7. ASSUME FetchAnswered PROVE Settled' /\ InCheck'
  BY <1>0, <1>6, <1>7 DEF FetchAnswered
<1>8. ASSUME FetchFails PROVE Settled' /\ InCheck'
  BY <1>6, <1>8 DEF FetchFails
<1>9. QED
  BY <1>1, <1>2, <1>4, <1>5, <1>7, <1>8 DEF Next

\* The application hears of every message it must hear of, for any stamps, any
\* overlap, any page of the stores and any order of checks: the overlap makes up
\* for stores that are up to DelayExtra late.  What it may not hear of is only
\* what a failed query or fetch, or a full page, kept from a check.
THEOREM NothingIsMissed == Spec => []MissedIsReported
<1>1. Init => Settled /\ InCheck
  BY DEF Init, Settled, InCheck, Covered
<1>2. RInv /\ Settled /\ InCheck /\ [Next]_vars => Settled' /\ InCheck'
  BY OwedNext
<1>3. RInv /\ Settled => MissedIsReported
  BY SettledIsReported DEF RInv
<1>4. QED BY <1>1, <1>2, <1>3, AlwaysRInv, PTL DEF Spec
==============================================================================
