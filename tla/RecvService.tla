----------------------------- MODULE RecvService -----------------------------
(***************************************************************************)
(* The receive half of the delivery service.  A message of interest that   *)
(* arrives is told to the application once and remembered in               *)
(* recentReceivedMsgs.  The checker asks a store, from time to time, for   *)
(* what was published since the last check, and reports what it does not   *)
(* remember as missed.  The pruner forgets old messages.                   *)
(*                                                                         *)
(* A message stands for its hash.  One action is the code between two      *)
(* awaits.  How long a sleep or a query lasts is left open, so the checks  *)
(* and the prunings come in every order; the periods of the two loops are  *)
(* some of these behaviours.                                               *)
(***************************************************************************)
EXTENDS SubscriptionManager, Integers

CONSTANTS
  Message,
  ShardOf,         \* the pubsub topic of a message: [Message -> Shard]
  TopicOf,         \* its contentTopic: [Message -> ContentTopic]
  Stamp,           \* its timestamp, set by the sender: [Message -> Nat]
  MaxMessageLife,
  DelayExtra,
  PageSize,        \* the store's page, DefaultPageSize
  QueriesFail,     \* a store query may fail
  MaxTime          \* bound on the clock for model checking

ASSUME RecvAssumption ==
  /\ ShardOf \in [Message -> Shard]
  /\ TopicOf \in [Message -> ContentTopic]
  /\ Stamp \in [Message -> Nat]
  /\ IsFiniteSet(Message)
  /\ MaxMessageLife \in Nat /\ DelayExtra \in Nat /\ PageSize \in Nat /\ MaxTime \in Nat
  /\ QueriesFail \in BOOLEAN

Never == -1

VARIABLES
  recentReceivedMsgs,  \* the messages in it; rxTime is the message's Stamp
  listening,           \* seenMsgListener is registered
  stopping,            \* stopRecvService waits for a checker that goes on
  checkerPc,           \* where msgChecker stands
  startTimeToCheck, endTimeToCheck,
  subsToQuery,         \* what is left of the snapshot of active subscriptions
  msgHashesInStore, missedHashes

\* The world outside: the clock, what the stores have, and what of it they had
\* no later than DelayExtra after its Stamp.
VARIABLES now, archived, onTime

\* What the application was told, the messages it got and those reported as
\* missed; what the checks were to find and did not get, because a query
\* failed or its page was full; since when each topic has been subscribed.
VARIABLES received, reported, lost, since

checkVars == <<checkerPc, startTimeToCheck, endTimeToCheck, subsToQuery,
               msgHashesInStore, missedHashes>>
worldVars == <<now, archived, onTime>>
toldVars  == <<received, reported, lost, since>>
vars == <<subscriptionVars, recentReceivedMsgs, listening, stopping, checkVars,
          worldVars, toldVars>>

Init ==
  /\ SubscriptionInit
  /\ recentReceivedMsgs = {} /\ listening = FALSE /\ stopping = FALSE
  /\ checkerPc = "off"
  /\ startTimeToCheck = 0 /\ endTimeToCheck = 0
  /\ subsToQuery = {} /\ msgHashesInStore = {} /\ missedHashes = {}
  /\ now = 0 /\ archived = {} /\ onTime = {}
  /\ received = {} /\ reported = {} /\ lost = {}
  /\ since = [t \in ContentTopic |-> Never]
------------------------------------------------------------------------------
(* The application and the network.                                         *)

Subscribe(t) ==
  /\ subscribe(t)
  /\ since' = IF isSubscribed(GetShard[t], t) THEN since ELSE [since EXCEPT ![t] = now]
  /\ UNCHANGED <<recentReceivedMsgs, listening, stopping, checkVars, worldVars,
                 received, reported, lost>>

Unsubscribe(t) ==
  /\ unsubscribe(t)
  /\ since' = [since EXCEPT ![t] = Never]
  /\ UNCHANGED <<recentReceivedMsgs, listening, stopping, checkVars, worldVars,
                 received, reported, lost>>

\* The MessageSeenEvent of a message the relay got: one that is not of
\* interest, or is remembered, is dropped.
MessageSeen(m) ==
  /\ listening /\ ShardOf[m] \in mesh
  /\ isSubscribed(ShardOf[m], TopicOf[m])
  /\ m \notin recentReceivedMsgs
  /\ recentReceivedMsgs' = recentReceivedMsgs \cup {m}
  /\ received' = received \cup {m}
  /\ UNCHANGED <<subscriptionVars, listening, stopping, checkVars, worldVars,
                 reported, lost, since>>

\* The store nodes get a message, soon or late.
StoreArchives(m) ==
  /\ m \notin archived
  /\ archived' = archived \cup {m}
  /\ onTime' = IF now <= Stamp[m] + DelayExtra THEN onTime \cup {m} ELSE onTime
  /\ UNCHANGED <<subscriptionVars, recentReceivedMsgs, listening, stopping, checkVars,
                 now, toldVars>>

Tick ==
  /\ now < MaxTime
  /\ now' = now + 1
  /\ UNCHANGED <<subscriptionVars, recentReceivedMsgs, listening, stopping, checkVars,
                 archived, onTime, toldVars>>
------------------------------------------------------------------------------
(* loopPruneOldMessages, start and stop.                                    *)

\* Mutant of Pruned: a message's life is mistaken for the overlap.
MutantPruned == {m \in recentReceivedMsgs : Stamp[m] > now - DelayExtra}

Pruned == {m \in recentReceivedMsgs : Stamp[m] > now - MaxMessageLife}

Prune ==
  /\ checkerPc \notin {"off", "stopped"}
  /\ recentReceivedMsgs' = Pruned
  /\ UNCHANGED <<subscriptionVars, listening, stopping, checkVars, worldVars, toldVars>>

\* startDeliveryService: the manager, the checker's first sleep, the pruner's
\* first pass and the listener.  A service is started once.
StartRecvService ==
  /\ checkerPc = "off" /\ checkerPc' = "sleep"
  /\ startSubscriptionManager
  /\ recentReceivedMsgs' = Pruned
  /\ listening' = TRUE
  /\ UNCHANGED <<stopping, startTimeToCheck, endTimeToCheck, subsToQuery,
                 msgHashesInStore, missedHashes, worldVars, toldVars>>

\* stopRecvService.  A sleeping checker is cancelled, and then the pruner.  A
\* cancellation that hits a query is caught with the errors of the dial or the
\* stream and becomes a failed attempt: the query tries the next store and the
\* loop goes on, while stopRecvService waits for its end.
StopRecvService ==
  /\ listening /\ listening' = FALSE
  /\ IF checkerPc = "sleep"
     THEN checkerPc' = "stopped" /\ UNCHANGED stopping
     ELSE stopping' = TRUE /\ UNCHANGED checkerPc
  /\ UNCHANGED <<subscriptionVars, recentReceivedMsgs, startTimeToCheck, endTimeToCheck,
                 subsToQuery, msgHashesInStore, missedHashes, worldVars, toldVars>>
------------------------------------------------------------------------------
(* msgChecker                                                               *)

\* A store's answer: the newest of the matching messages, at most a page.
Page(S) ==
  {P \in SUBSET S : /\ Cardinality(P) = IF Cardinality(S) <= PageSize THEN Cardinality(S)
                                                                     ELSE PageSize
                    /\ \A p \in P, q \in S \ P : Stamp[p] >= Stamp[q]}

\* Mutant of InWindow: consecutive windows do not overlap.
MutantInWindow(m) == startTimeToCheck <= Stamp[m] /\ Stamp[m] <= endTimeToCheck

InWindow(m) ==
  startTimeToCheck - DelayExtra <= Stamp[m] /\ Stamp[m] <= endTimeToCheck + DelayExtra

Matching(sub) ==
  {m \in archived : ShardOf[m] = sub.shard /\ TopicOf[m] \in sub.topics /\ InWindow(m)}

\* The loop over the subscriptions goes on with subs, having collected hashes.
\* After the last one the missed hashes are computed, without an await.
Collected(subs, hashes) ==
  /\ subsToQuery' = subs
  /\ msgHashesInStore' = hashes
  /\ IF subs = {}
     THEN checkerPc' = "fetch" /\ missedHashes' = hashes \ recentReceivedMsgs
     ELSE checkerPc' = "query" /\ UNCHANGED missedHashes
  /\ UNCHANGED <<subscriptionVars, recentReceivedMsgs, listening, stopping, startTimeToCheck,
                 worldVars, received, reported, since>>

\* The checker wakes and takes its snapshot of the subscriptions.
BeginCheck ==
  /\ checkerPc = "sleep"
  /\ endTimeToCheck' = now
  /\ Collected({[shard |-> s, topics |-> contentTopicSubs[s]] : s \in ActiveSubscriptions}, {})
  /\ UNCHANGED lost

QueryAnswered(sub) ==
  /\ checkerPc = "query" /\ sub \in subsToQuery
  /\ \E page \in Page(Matching(sub)) :
       /\ Collected(subsToQuery \ {sub}, msgHashesInStore \cup page)
       /\ lost' = lost \cup (Matching(sub) \ page)
  /\ UNCHANGED endTimeToCheck

QueryFails(sub) ==
  /\ QueriesFail
  /\ checkerPc = "query" /\ sub \in subsToQuery
  /\ Collected(subsToQuery \ {sub}, msgHashesInStore)
  /\ lost' = lost \cup Matching(sub)
  /\ UNCHANGED endTimeToCheck

\* What getMissingMsgsFromStore asks for.  A query without hashes has no
\* filter at all.
Requested == IF missedHashes = {} THEN archived ELSE archived \cap missedHashes

EndCheck ==
  /\ checkerPc = "fetch" /\ checkerPc' = "sleep"
  /\ startTimeToCheck' = endTimeToCheck
  /\ msgHashesInStore' = {} /\ missedHashes' = {}
  /\ UNCHANGED <<subscriptionVars, recentReceivedMsgs, listening, stopping,
                 endTimeToCheck, subsToQuery, worldVars, received, since>>

FetchAnswered ==
  /\ EndCheck
  /\ \E page \in Page(Requested) : /\ reported' = reported \cup page
                                   /\ lost' = lost \cup (missedHashes \ page)

FetchFails ==
  /\ QueriesFail /\ EndCheck
  /\ lost' = lost \cup missedHashes
  /\ UNCHANGED reported

Next ==
  \/ \E t \in ContentTopic : Subscribe(t) \/ Unsubscribe(t)
  \/ \E m \in Message : MessageSeen(m) \/ StoreArchives(m)
  \/ Tick \/ Prune \/ StartRecvService \/ StopRecvService
  \/ BeginCheck \/ FetchAnswered \/ FetchFails
  \/ \E sub \in subsToQuery : QueryAnswered(sub) \/ QueryFails(sub)

Spec == Init /\ [][Next]_vars

\* A sleep ends, and so does a query: libp2p closes an idle stream.
CheckerStep ==
  \/ BeginCheck \/ FetchAnswered \/ FetchFails
  \/ \E sub \in subsToQuery : QueryAnswered(sub) \/ QueryFails(sub)

FairSpec == Spec /\ WF_vars(CheckerStep)
------------------------------------------------------------------------------
Subs == [shard : Shard, topics : (SUBSET ContentTopic) \ {{}}]

TypeOK ==
  /\ SubscriptionTypeOK
  /\ recentReceivedMsgs \subseteq Message
  /\ listening \in BOOLEAN /\ stopping \in BOOLEAN
  /\ checkerPc \in {"off", "sleep", "query", "fetch", "stopped"}
  /\ startTimeToCheck \in Nat /\ endTimeToCheck \in Nat
  /\ subsToQuery \subseteq Subs
  /\ msgHashesInStore \subseteq archived /\ missedHashes \subseteq archived
  /\ now \in Nat
  /\ archived \subseteq Message /\ onTime \subseteq archived
  /\ received \subseteq Message /\ reported \subseteq archived /\ lost \subseteq archived
  /\ since \in [ContentTopic -> Nat \cup {Never}]

\* The comparison with the store takes a message for missed that the
\* application got only if the check came, or took, so long that more than
\* MaxMessageLife, less the overlap, has passed since the window's start.
MissedWereNotReceived ==
  [][\A m \in missedHashes' \ missedHashes :
       m \in received => now - startTimeToCheck >= MaxMessageLife - DelayExtra]_vars

\* The application hears of every message of a topic that has been subscribed
\* to from before the message was sent until the check that covers it: it gets
\* the message or a report that it is missed.  The stores must have it within
\* DelayExtra, which is what the overlap of the windows makes enough.  The
\* exceptions are the messages that a check asked for and did not get, because
\* its query or its fetch failed or its page was full: a window that has passed
\* is not asked for again.
MissedIsReported ==
  \A m \in onTime :
    LET t == TopicOf[m]
    IN  /\ isSubscribed(ShardOf[m], t) /\ since[t] <= Stamp[m]
        /\ Stamp[m] + DelayExtra < startTimeToCheck
        => m \in received \/ m \in reported \/ m \in lost

\* msgCheckerHandler "allows to stop the msgChecker async task".
StopEnds == stopping ~> checkerPc = "stopped"
==============================================================================
