-------------------------- MODULE SendServiceProofs --------------------------
(***************************************************************************)
(* Proofs about SendService for any set of tasks, hashes and topics, with  *)
(* or without relay, lightpush and store check.  IInv is the inductive     *)
(* invariant: the four properties need each other, and Ownership, which    *)
(* says which call may touch a task, ties them together.                   *)
(***************************************************************************)
EXTENDS SendService, SubscriptionManagerProofs

IInv == TypeOK /\ Ownership /\ ToldAtMostOnce /\ NoSilentLoss /\ SentOnlyIfStored

\* Where a processor may leave a task: never validated, which only the store
\* check does.
ProcessedState == DeliveryState \ {"SuccessfullyValidated"}

GoodOutcome(o) == /\ o.at \in {"relay", "lightpush", "end"}
                  /\ o.st \in ProcessedState

\* The chain of processors, started or resumed, leaves the task in a state a
\* processor may leave it in (process, sendImpl).
LEMMA ChainOutcomes ==
  /\ \A st \in ProcessedState : \A o \in ProcessStart(st) : GoodOutcome(o)
  /\ \A at : \A o \in Outcomes(at) : GoodOutcome(o)
<1>1. \A st \in ProcessedState : GoodOutcome(Returned(st))
  BY DEF GoodOutcome, Returned, Outcome, ProcessedState, DeliveryState
<1>2. \A st \in ProcessedState : GoodOutcome(Outcome("lightpush", st))
                              /\ GoodOutcome(Outcome("relay", st))
  BY DEF GoodOutcome, Outcome, ProcessedState, DeliveryState
<1>4. {"SuccessfullyPropagated", "FallbackRetry", "NextRoundRetry", "FailedToDeliver"}
        \subseteq ProcessedState
  BY DEF ProcessedState, DeliveryState
<1>5. \A st \in ProcessedState : \A o \in ToLightpush(st) : GoodOutcome(o)
  BY <1>1, <1>2 DEF ToLightpush
<1>6. \A st \in ProcessedState : \A o \in ProcessStart(st) : GoodOutcome(o)
  BY <1>2, <1>5 DEF ProcessStart
<1>7. \A o \in RelayOutcomes : GoodOutcome(o)
  BY <1>1, <1>4, <1>5 DEF RelayOutcomes
<1>8. \A o \in LightpushOutcomes : GoodOutcome(o)
  BY <1>1, <1>4 DEF LightpushOutcomes
<1>9. QED BY <1>6, <1>7, <1>8 DEF Outcomes

\* What reporting a set of tasks does to the events and to each task
\* (reportTaskResult): sent is told exactly for a validated task, an error
\* exactly for one that ends up failed, propagation once.
LEMMA ReportFacts ==
  ASSUME TypeOK, NEW S \in SUBSET Task, NEW st \in [Task -> DeliveryState],
         Report(S, st)
  PROVE  /\ state' \in [Task -> DeliveryState]
         /\ told' \in SUBSET Task
         /\ propagatedEvents' \in [Task -> Nat]
         /\ sentEvents' \in [Task -> Nat]
         /\ errorEvents' \in [Task -> Nat]
         /\ \A t \in Task \ S : /\ state'[t] = st[t]
                                /\ propagatedEvents'[t] = propagatedEvents[t]
                                /\ sentEvents'[t] = sentEvents[t]
                                /\ errorEvents'[t] = errorEvents[t]
                                /\ t \in told' <=> t \in told
         /\ \A t \in S :
              /\ state'[t] = StateAfterReport(t, st[t])
              /\ propagatedEvents'[t] = propagatedEvents[t]
                   + IF st[t] = "SuccessfullyPropagated" /\ t \notin told THEN 1 ELSE 0
              /\ sentEvents'[t] = sentEvents[t]
                   + IF st[t] = "SuccessfullyValidated" THEN 1 ELSE 0
              /\ errorEvents'[t] = errorEvents[t]
                   + IF StateAfterReport(t, st[t]) = "FailedToDeliver" THEN 1 ELSE 0
              /\ t \in told' <=> t \in told \/ st[t] = "SuccessfullyPropagated"
<1>1. \A t \in Task : StateAfterReport(t, st[t]) \in DeliveryState
  BY DEF StateAfterReport, DeliveryState
<1>2. \A t \in S : StateAfterReport(t, st[t]) = "FailedToDeliver" <=> TellsError(t, st[t])
  BY DEF StateAfterReport, TellsError
<1>3. state' = [t \in Task |-> IF t \in S THEN StateAfterReport(t, st[t]) ELSE st[t]]
  BY DEF Report
<1>4. told' = told \cup {t \in S : st[t] = "SuccessfullyPropagated"}
  BY DEF Report
<1>6. propagatedEvents' = [t \in Task |->
        IF t \in S /\ st[t] = "SuccessfullyPropagated" /\ t \notin told
        THEN propagatedEvents[t] + 1 ELSE propagatedEvents[t]]
  BY DEF Report, TellsPropagated
<1>7. sentEvents' = [t \in Task |->
        IF t \in S /\ st[t] = "SuccessfullyValidated"
        THEN sentEvents[t] + 1 ELSE sentEvents[t]]
  BY DEF Report, TellsSent
<1>8. errorEvents' = [t \in Task |->
        IF t \in S /\ TellsError(t, st[t]) THEN errorEvents[t] + 1 ELSE errorEvents[t]]
  BY DEF Report
<1>9. /\ propagatedEvents \in [Task -> Nat] /\ sentEvents \in [Task -> Nat]
      /\ errorEvents \in [Task -> Nat] /\ told \in SUBSET Task
  BY DEF TypeOK
<1>10. state' \in [Task -> DeliveryState] /\ told' \in SUBSET Task
  BY <1>1, <1>3, <1>4, <1>9
<1>11. /\ propagatedEvents' \in [Task -> Nat] /\ sentEvents' \in [Task -> Nat]
       /\ errorEvents' \in [Task -> Nat]
  BY <1>6, <1>7, <1>8, <1>9
<1>12. \A t \in Task \ S : /\ state'[t] = st[t]
                           /\ propagatedEvents'[t] = propagatedEvents[t]
                           /\ sentEvents'[t] = sentEvents[t]
                           /\ errorEvents'[t] = errorEvents[t]
                           /\ t \in told' <=> t \in told
  BY <1>3, <1>4, <1>6, <1>7, <1>8
<1>13. ASSUME NEW t \in S
       PROVE  /\ state'[t] = StateAfterReport(t, st[t])
              /\ propagatedEvents'[t] = propagatedEvents[t]
                   + IF st[t] = "SuccessfullyPropagated" /\ t \notin told THEN 1 ELSE 0
              /\ sentEvents'[t] = sentEvents[t]
                   + IF st[t] = "SuccessfullyValidated" THEN 1 ELSE 0
              /\ errorEvents'[t] = errorEvents[t]
                   + IF StateAfterReport(t, st[t]) = "FailedToDeliver" THEN 1 ELSE 0
              /\ t \in told' <=> t \in told \/ st[t] = "SuccessfullyPropagated"
  BY <1>2, <1>3, <1>4, <1>6, <1>7, <1>8, <1>9
<1>14. QED BY <1>10, <1>11, <1>12, <1>13

\* A step that leaves the tasks, their events and the calls alone keeps the
\* invariant if it keeps the types, what the loop holds on to, and what the
\* stores have.
LEMMA QuietStep ==
  ASSUME IInv, TypeOK', UNCHANGED <<taskVars, sendPc, eventVars>>,
         stored \subseteq stored',
         loopPc' \in {"relay", "lightpush"} => loopTask' \in taskCache,
         loopPc' \in {"round", "relay", "lightpush"} => tasksToSend' \subseteq taskCache
  PROVE  IInv'
<1> USE DEF IInv, taskVars, eventVars
<1>1. Ownership' BY DEF Ownership
<1>2. ToldAtMostOnce' BY DEF ToldAtMostOnce
<1>3. NoSilentLoss' BY DEF NoSilentLoss
<1>4. SentOnlyIfStored' BY DEF SentOnlyIfStored
<1>5. QED BY <1>1, <1>2, <1>3, <1>4

\* A send() call that moves on keeps the invariant (SendService.send): its
\* task is not in the cache yet, so nobody else touches it.
LEMMA SendKeeps ==
  ASSUME IInv, NEW t \in Task, NEW o, GoodOutcome(o), sendPc[t] # "done",
         SendProceeds(t, o), SubscriptionTypeOK',
         UNCHANGED <<expired, loopVars, node, stored>>
  PROVE  IInv'
<1> DEFINE st == [state EXCEPT ![t] = o.st]
<1>1. st \in [Task -> DeliveryState] /\ st[t] = o.st /\ st[t] # "SuccessfullyValidated"
  BY DEF IInv, TypeOK, GoodOutcome, ProcessedState
<1>2. settled' \in SUBSET Task
  BY DEF IInv, TypeOK, SendProceeds, NewSettled
<1>3. t \notin taskCache /\ t \notin told /\ sentEvents[t] = 0 /\ errorEvents[t] = 0
  BY DEF IInv, Ownership
<1>4. CASE o.at # "end"
  <2>1. /\ state' = st /\ sendPc' = [sendPc EXCEPT ![t] = o.at]
        /\ UNCHANGED <<told, taskCache, eventVars>>
    BY <1>4 DEF SendProceeds
  <2>2. TypeOK'
    BY <1>1, <1>2, <1>4, <2>1 DEF IInv, TypeOK, GoodOutcome, loopVars, eventVars
  <2>3. Ownership'
    BY <1>1, <1>3, <1>4, <2>1 DEF IInv, TypeOK, Ownership, GoodOutcome, loopVars, eventVars
  <2>4. ToldAtMostOnce'
    BY <2>1 DEF IInv, ToldAtMostOnce, eventVars
  <2>5. NoSilentLoss'
    BY <1>4, <2>1 DEF IInv, TypeOK, NoSilentLoss, GoodOutcome, eventVars
  <2>6. SentOnlyIfStored'
    BY <2>1 DEF IInv, SentOnlyIfStored, eventVars
  <2>7. QED BY <2>2, <2>3, <2>4, <2>5, <2>6 DEF IInv
<1>5. CASE o.at = "end"
  <2>1. /\ Report({t}, st)
        /\ taskCache' = IF StateAfterReport(t, o.st) # "FailedToDeliver"
                        THEN addTask(t) ELSE taskCache
        /\ sendPc' = [sendPc EXCEPT ![t] = "done"]
    BY <1>5 DEF SendProceeds
  <2> HIDE DEF st
  <2>2. TypeOK BY DEF IInv
  <2> DEFINE Events ==
        /\ state' \in [Task -> DeliveryState]
        /\ told' \in SUBSET Task
        /\ propagatedEvents' \in [Task -> Nat]
        /\ sentEvents' \in [Task -> Nat]
        /\ errorEvents' \in [Task -> Nat]
      Others ==
        \A u \in Task \ {t} : /\ state'[u] = st[u]
                              /\ propagatedEvents'[u] = propagatedEvents[u]
                              /\ sentEvents'[u] = sentEvents[u]
                              /\ errorEvents'[u] = errorEvents[u]
                              /\ u \in told' <=> u \in told
      Own ==
        /\ state'[t] = StateAfterReport(t, st[t])
        /\ propagatedEvents'[t] = propagatedEvents[t]
             + IF st[t] = "SuccessfullyPropagated" /\ t \notin told THEN 1 ELSE 0
        /\ sentEvents'[t] = sentEvents[t]
             + IF st[t] = "SuccessfullyValidated" THEN 1 ELSE 0
        /\ errorEvents'[t] = errorEvents[t]
             + IF StateAfterReport(t, st[t]) = "FailedToDeliver" THEN 1 ELSE 0
        /\ t \in told' <=> t \in told \/ st[t] = "SuccessfullyPropagated"
  <2>3. Events /\ Others /\ Own
    <3>1. {t} \in SUBSET Task OBVIOUS
    <3>2. t \in {t} OBVIOUS
    <3>3. QED BY <1>1, <2>1, <2>2, <3>1, <3>2, ReportFacts
  <2> HIDE DEF Events, Others, Own
  <2>4. /\ taskCache' \in SUBSET Task
        /\ taskCache \subseteq taskCache'
        /\ taskCache' \subseteq taskCache \cup {t}
        /\ t \in taskCache' => state'[t] # "FailedToDeliver"
        /\ \/ t \in taskCache'
           \/ state'[t] = "FailedToDeliver"
           \/ \E u \in taskCache : HashOf[u] = HashOf[t]
    BY <1>1, <1>3, <2>1, <2>2, <2>3 DEF addTask, TypeOK, Own
  <2>5. TypeOK'
    BY <1>1, <1>2, <2>1, <2>2, <2>3, <2>4 DEF TypeOK, loopVars, Events
  <2>6. /\ sentEvents'[t] = 0
        /\ errorEvents'[t] = IF state'[t] = "FailedToDeliver" THEN 1 ELSE 0
        /\ propagatedEvents'[t] = IF t \in told' THEN 1 ELSE 0
        /\ state'[t] # "SuccessfullyValidated"
    <3>1. propagatedEvents[t] = 0
      BY <1>3 DEF IInv, Ownership
    <3>2. StateAfterReport(t, st[t]) # "SuccessfullyValidated"
      BY <1>1 DEF StateAfterReport
    <3>3. QED BY <1>1, <1>3, <2>3, <3>1, <3>2 DEF Own
  <2>7. \A u \in Task \ {t} : sendPc'[u] = sendPc[u] /\ (u \in taskCache' <=> u \in taskCache)
                           /\ st[u] = state[u]
    BY <2>1, <2>2, <2>4 DEF TypeOK, st
  <2>8. sendPc'[t] = "done"
    BY <2>1, <2>2 DEF TypeOK
  <2>9. Ownership'
    <3>1. \A u \in taskCache' : /\ sendPc'[u] = "done"
                                /\ sentEvents'[u] + errorEvents'[u] = 0
                                /\ state'[u] # "SuccessfullyValidated"
      BY <2>3, <2>4, <2>6, <2>7, <2>8, <2>2 DEF IInv, Ownership, Others, TypeOK
    <3>2. \A u \in Task : sendPc'[u] # "done" =>
             sentEvents'[u] = 0 /\ errorEvents'[u] = 0 /\ u \notin told'
      BY <2>3, <2>7, <2>8 DEF IInv, Ownership, Others
    <3>3. \A u \in Task : propagatedEvents'[u] = IF u \in told' THEN 1 ELSE 0
      BY <2>3, <2>6 DEF IInv, Ownership, Others
    <3>4. QED BY <2>4, <3>1, <3>2, <3>3 DEF IInv, Ownership, loopVars
  <2>10. ToldAtMostOnce'
    <3>1. propagatedEvents'[t] <= 1 /\ sentEvents'[t] + errorEvents'[t] <= 1
      BY <2>6
    <3>2. \A u \in Task \ {t} : propagatedEvents'[u] <= 1
                             /\ sentEvents'[u] + errorEvents'[u] <= 1
      BY <2>3 DEF IInv, ToldAtMostOnce, Others
    <3>3. QED BY <3>1, <3>2 DEF ToldAtMostOnce
  <2>11. NoSilentLoss'
    <3>1. ASSUME NEW u \in Task, sendPc'[u] = "done", u \notin taskCache'
          PROVE  \/ sentEvents'[u] + errorEvents'[u] = 1
                 \/ u \in Ephemeral /\ propagatedEvents'[u] = 1
                 \/ \E v \in Task \ {u} : HashOf[v] = HashOf[u]
      <4>1. CASE u = t
        BY <1>3, <2>2, <2>4, <2>6, <3>1, <4>1 DEF TypeOK
      <4>2. CASE u # t
        BY <2>3, <2>7, <3>1, <4>2 DEF IInv, NoSilentLoss, Others
      <4>3. QED BY <4>1, <4>2
    <3>2. QED BY <3>1 DEF NoSilentLoss
  <2>12. SentOnlyIfStored'
    BY <2>3, <2>6 DEF IInv, SentOnlyIfStored, Others
  <2>13. QED BY <2>5, <2>9, <2>10, <2>11, <2>12 DEF IInv
<1>6. QED BY <1>4, <1>5

\* The loop's work on one cached task keeps the invariant (trySendMessages):
\* no event is told before the end of the round.
LEMMA LoopKeeps ==
  ASSUME IInv, NEW t \in taskCache, NEW o, GoodOutcome(o), LoopProceeds(t, o),
         tasksToSend' \subseteq tasksToSend, tasksToSend \subseteq taskCache
  PROVE  IInv'
<1> USE DEF IInv
<1>1. t \in Task /\ tasksToSend \subseteq Task
  BY DEF TypeOK
<1>2. UNCHANGED <<subscriptionVars, told, taskCache, expired, sendPc, hashesToValidate,
                  node, eventVars, stored>>
  BY DEF LoopProceeds
<1>3. /\ state' = [state EXCEPT ![t] = o.st]
      /\ loopPc' = IF o.at = "end" THEN "round" ELSE o.at
      /\ loopTask' = IF o.at = "end" THEN NoTask ELSE t
      /\ settled' \in SUBSET Task
  BY <1>1 DEF LoopProceeds, TypeOK, NewSettled
<1>4. TypeOK'
  BY <1>1, <1>2, <1>3 DEF TypeOK, GoodOutcome, ProcessedState, eventVars, subscriptionVars,
                          SubscriptionTypeOK
<1>5. Ownership'
  <2>1. /\ loopPc' \in {"relay", "lightpush"} => loopTask' \in taskCache
        /\ tasksToSend' \subseteq taskCache
    BY <1>3
  <2>2. \A u \in taskCache : state'[u] # "SuccessfullyValidated"
    BY <1>3 DEF Ownership, GoodOutcome, ProcessedState, TypeOK
  <2>3. QED BY <1>2, <2>1, <2>2 DEF Ownership, eventVars
<1>6. ToldAtMostOnce' BY <1>2 DEF ToldAtMostOnce, eventVars
<1>7. NoSilentLoss' BY <1>2 DEF NoSilentLoss, eventVars
<1>8. SentOnlyIfStored' BY <1>2 DEF SentOnlyIfStored, eventVars
<1>9. QED BY <1>4, <1>5, <1>6, <1>7, <1>8

\* The end of a round keeps the invariant (evaluateAndCleanUp), whatever
\* states the store check left, as long as it validated only messages a
\* store has.
LEMMA EvaluateKeeps ==
  ASSUME IInv, NEW st \in [Task -> DeliveryState],
         \A t \in Task \ taskCache : st[t] = state[t],
         \A t \in taskCache : st[t] = "SuccessfullyValidated" => HashOf[t] \in stored,
         evaluateAndCleanUp(st)
  PROVE  IInv'
<1> DEFINE after(t) == StateAfterReport(t, st[t])
<1>1. /\ Report(taskCache, st)
      /\ taskCache' = {t \in taskCache :
                         /\ after(t) \notin Final
                         /\ ~(t \in Ephemeral /\ after(t) = "SuccessfullyPropagated")}
      /\ loopPc' = "sleep" /\ hashesToValidate' = {}
      /\ UNCHANGED <<subscriptionVars, timeVars, sendPc, loopTask, tasksToSend,
                     node, stored>>
  BY DEF evaluateAndCleanUp
<1>2. TypeOK /\ taskCache \in SUBSET Task
  BY DEF IInv, TypeOK
<1> DEFINE Events ==
      /\ state' \in [Task -> DeliveryState]
      /\ told' \in SUBSET Task
      /\ propagatedEvents' \in [Task -> Nat]
      /\ sentEvents' \in [Task -> Nat]
      /\ errorEvents' \in [Task -> Nat]
    Others ==
      \A u \in Task \ taskCache : /\ propagatedEvents'[u] = propagatedEvents[u]
                                  /\ sentEvents'[u] = sentEvents[u]
                                  /\ errorEvents'[u] = errorEvents[u]
                                  /\ u \in told' <=> u \in told
    Own ==
      \A t \in taskCache :
        /\ state'[t] = after(t)
        /\ propagatedEvents'[t] = propagatedEvents[t]
             + IF st[t] = "SuccessfullyPropagated" /\ t \notin told THEN 1 ELSE 0
        /\ sentEvents'[t] = sentEvents[t]
             + IF st[t] = "SuccessfullyValidated" THEN 1 ELSE 0
        /\ errorEvents'[t] = errorEvents[t]
             + IF after(t) = "FailedToDeliver" THEN 1 ELSE 0
        /\ t \in told' <=> t \in told \/ st[t] = "SuccessfullyPropagated"
<1>3. Events /\ Others /\ Own
  BY <1>1, <1>2, ReportFacts, ZenonT(40)
<1>4. \A t \in taskCache :
        /\ after(t) = "SuccessfullyValidated" <=> st[t] = "SuccessfullyValidated"
        /\ after(t) = "SuccessfullyPropagated" => st[t] = "SuccessfullyPropagated"
  BY DEF StateAfterReport, TooOld, Final
<1>5. \A t \in taskCache : sentEvents[t] + errorEvents[t] = 0 /\ sendPc[t] = "done"
  BY DEF IInv, Ownership
<1>6. \A t \in taskCache : sentEvents[t] = 0 /\ errorEvents[t] = 0
  BY <1>2, <1>5 DEF TypeOK
<1>7. taskCache' \subseteq taskCache
  BY <1>1
<1> HIDE DEF Events, Others, after
<1>8. TypeOK'
  BY <1>1, <1>2, <1>3, <1>7 DEF TypeOK, Events, timeVars, subscriptionVars, SubscriptionTypeOK
<1>9. \A t \in taskCache :
        /\ sentEvents'[t] = IF after(t) = "SuccessfullyValidated" THEN 1 ELSE 0
        /\ errorEvents'[t] = IF after(t) = "FailedToDeliver" THEN 1 ELSE 0
        /\ propagatedEvents'[t] = IF t \in told' THEN 1 ELSE 0
  <2> SUFFICES ASSUME NEW t \in taskCache
               PROVE  /\ sentEvents'[t] = IF after(t) = "SuccessfullyValidated" THEN 1 ELSE 0
                      /\ errorEvents'[t] = IF after(t) = "FailedToDeliver" THEN 1 ELSE 0
                      /\ propagatedEvents'[t] = IF t \in told' THEN 1 ELSE 0
    OBVIOUS
  <2>1. propagatedEvents[t] = IF t \in told THEN 1 ELSE 0
    BY <1>2 DEF IInv, Ownership
  <2>2. propagatedEvents'[t] = IF t \in told' THEN 1 ELSE 0
    BY <1>3, <2>1 DEF Own
  <2>3. sentEvents'[t] = IF after(t) = "SuccessfullyValidated" THEN 1 ELSE 0
    BY <1>3, <1>4, <1>6 DEF Own
  <2>4. errorEvents'[t] = IF after(t) = "FailedToDeliver" THEN 1 ELSE 0
    BY <1>3, <1>6 DEF Own
  <2>5. QED BY <2>2, <2>3, <2>4
<1>10. \A t \in Task : propagatedEvents'[t] = IF t \in told' THEN 1 ELSE 0
  BY <1>3, <1>9 DEF Others, IInv, Ownership
<1>11. Ownership'
  <2>1. \A t \in taskCache' : /\ sendPc'[t] = "done"
                              /\ sentEvents'[t] + errorEvents'[t] = 0
                              /\ state'[t] # "SuccessfullyValidated"
    BY <1>1, <1>3, <1>5, <1>9 DEF Own, Final
  <2>2. \A t \in Task : sendPc'[t] # "done" =>
           sentEvents'[t] = 0 /\ errorEvents'[t] = 0 /\ t \notin told'
    BY <1>1, <1>3, <1>5 DEF Others, IInv, Ownership
  <2>3. QED BY <1>1, <1>10, <2>1, <2>2 DEF Ownership
<1> HIDE DEF Own
<1>12. ToldAtMostOnce'
  <2>1. \A t \in taskCache : sentEvents'[t] + errorEvents'[t] <= 1
    BY <1>9
  <2>2. \A t \in Task : sentEvents'[t] + errorEvents'[t] <= 1
    BY <1>3, <2>1 DEF Others, IInv, ToldAtMostOnce
  <2>3. \A t \in Task : propagatedEvents'[t] <= 1
    BY <1>10
  <2>4. QED BY <2>2, <2>3 DEF ToldAtMostOnce
<1>13. NoSilentLoss'
  <2>1. ASSUME NEW t \in Task, sendPc'[t] = "done", t \notin taskCache'
        PROVE  \/ sentEvents'[t] + errorEvents'[t] = 1
               \/ t \in Ephemeral /\ propagatedEvents'[t] = 1
               \/ \E u \in Task \ {t} : HashOf[u] = HashOf[t]
    <3>1. CASE t \notin taskCache
      BY <1>1, <1>3, <2>1, <3>1 DEF Others, IInv, NoSilentLoss
    <3>2. CASE t \in taskCache /\ after(t) \in Final
      BY <1>9, <3>2 DEF Final
    <3>3. CASE t \in taskCache /\ t \in Ephemeral /\ after(t) = "SuccessfullyPropagated"
      BY <1>3, <1>4, <1>9, <3>3 DEF Own
    <3>4. QED BY <1>1, <2>1, <3>1, <3>2, <3>3
  <2>2. QED BY <2>1 DEF NoSilentLoss
<1>14. SentOnlyIfStored'
  <2>1. ASSUME NEW t \in Task, sentEvents'[t] > 0 PROVE HashOf[t] \in stored'
    <3>1. CASE t \notin taskCache
      BY <1>1, <1>3, <2>1, <3>1 DEF Others, IInv, SentOnlyIfStored
    <3>2. CASE t \in taskCache
      BY <1>1, <1>4, <1>9, <2>1, <3>2
    <3>3. QED BY <3>1, <3>2
  <2>2. QED BY <2>1 DEF SentOnlyIfStored
<1>15. QED BY <1>8, <1>11, <1>12, <1>13, <1>14 DEF IInv

\* The store check validates only messages the store answered with
\* (checkMsgsInStore).
LEMMA AfterStoreCheckFacts ==
  ASSUME IInv, NEW storedItems \in SUBSET stored
  PROVE  /\ AfterStoreCheck(storedItems) \in [Task -> DeliveryState]
         /\ \A t \in Task \ taskCache : AfterStoreCheck(storedItems)[t] = state[t]
         /\ \A t \in taskCache : AfterStoreCheck(storedItems)[t] = "SuccessfullyValidated"
                                   => HashOf[t] \in stored
  BY DEF AfterStoreCheck, IInv, TypeOK, Ownership, DeliveryState

\* The states before a store check that did not happen.
LEMMA NoStoreCheckFacts ==
  ASSUME IInv
  PROVE  /\ state \in [Task -> DeliveryState]
         /\ \A t \in taskCache : state[t] = "SuccessfullyValidated" => HashOf[t] \in stored
  BY DEF IInv, TypeOK, Ownership

LEMMA InitHolds == Init => IInv
<1> SUFFICES ASSUME Init PROVE IInv OBVIOUS
<1> USE DEF Init
<1>1. SubscriptionTypeOK
  BY DEF SubscriptionInit, SubscriptionTypeOK
<1>2. TypeOK BY <1>1 DEF TypeOK, DeliveryState
<1>3. Ownership BY DEF Ownership
<1>4. ToldAtMostOnce BY DEF ToldAtMostOnce
<1>5. NoSilentLoss BY DEF NoSilentLoss
<1>6. SentOnlyIfStored BY DEF SentOnlyIfStored
<1>7. QED BY <1>2, <1>3, <1>4, <1>5, <1>6 DEF IInv

LEMMA NextKeeps == IInv /\ [Next]_sendVars => IInv'
<1> SUFFICES ASSUME IInv, [Next]_sendVars PROVE IInv' OBVIOUS
<1> USE SendAssumption
<1>0. TypeOK /\ Ownership /\ SubscriptionTypeOK
  BY DEF IInv, TypeOK
<1>0a. UNCHANGED subscriptionVars => SubscriptionTypeOK'
  BY <1>0 DEF subscriptionVars, SubscriptionTypeOK
<1>0b. \A t \in Task : state[t] # "SuccessfullyValidated" => state[t] \in ProcessedState
  BY <1>0 DEF TypeOK, ProcessedState
<1>1. ASSUME NEW t \in Task, Send(t) PROVE IInv'
  <2>1. PICK o \in ProcessStart("Entry") : SendProceeds(t, o)
    BY <1>1 DEF Send
  <2>2. GoodOutcome(o)
    BY ChainOutcomes DEF ProcessedState, DeliveryState
  <2>3. SubscriptionTypeOK'
    BY <1>0, <1>1, SubscriptionSteps DEF Send
  <2>4. sendPc[t] # "done" /\ UNCHANGED <<expired, loopVars, node, stored>>
    BY <1>1 DEF Send
  <2>5. QED BY <2>1, <2>2, <2>3, <2>4, SendKeeps
<1>2. ASSUME NEW t \in Task, SendResumes(t) PROVE IInv'
  <2>1. PICK o \in Outcomes(sendPc[t]) : SendProceeds(t, o)
    BY <1>2 DEF SendResumes
  <2>2. GoodOutcome(o)
    BY ChainOutcomes
  <2>3. SubscriptionTypeOK'
    BY <1>0a, <1>2 DEF SendResumes
  <2>4. sendPc[t] # "done" /\ UNCHANGED <<expired, loopVars, node, stored>>
    BY <1>2 DEF SendResumes
  <2>5. QED BY <2>1, <2>2, <2>3, <2>4, SendKeeps
<1>3. ASSUME NEW t \in Task, SendRaises(t) PROVE IInv'
  <2>1. TypeOK'
    BY <1>0, <1>0a, <1>3 DEF SendRaises, TypeOK, taskVars, timeVars, loopVars, eventVars
  <2>2. QED BY <1>0, <1>3, <2>1, QuietStep DEF SendRaises, Ownership, loopVars, taskVars
<1>4. ASSUME NEW t \in Task, LoopSends(t) PROVE IInv'
  <2>1. PICK o \in ProcessStart(state[t]) : LoopProceeds(t, o)
    BY <1>4 DEF LoopSends
  <2>2. tasksToSend \subseteq taskCache /\ t \in taskCache /\ tasksToSend' \subseteq tasksToSend
    BY <1>0, <1>4 DEF LoopSends, Ownership
  <2>3. GoodOutcome(o)
    BY <1>0, <1>0b, <2>2, ChainOutcomes DEF Ownership
  <2>4. QED BY <2>1, <2>2, <2>3, LoopKeeps
<1>5. ASSUME trySendMessages, SubscriptionTypeOK' PROVE IInv'
  <2>1. tasksToSend' \subseteq taskCache
    BY <1>5 DEF trySendMessages
  <2>2. TypeOK'
    BY <1>0, <1>5, <2>1 DEF trySendMessages, TypeOK, taskVars, timeVars, eventVars
  <2>3. QED BY <1>5, <2>1, <2>2, QuietStep DEF trySendMessages
<1>6. ASSUME LoopResumes PROVE IInv'
  <2>1. PICK o \in Outcomes(loopPc) : LoopProceeds(loopTask, o)
    BY <1>6 DEF LoopResumes
  <2>2. /\ tasksToSend \subseteq taskCache /\ loopTask \in taskCache
        /\ tasksToSend' \subseteq tasksToSend
    BY <1>0, <1>6 DEF LoopResumes, Ownership
  <2>3. GoodOutcome(o)
    BY ChainOutcomes
  <2>4. QED BY <2>1, <2>2, <2>3, LoopKeeps
<1>7. ASSUME LoopRaises \/ StopSendService PROVE IInv'
  <2> USE DEF LoopRaises, StopSendService
  <2>1. TypeOK'
    BY <1>0, <1>0a, <1>7 DEF TypeOK, taskVars, timeVars, eventVars
  <2>2. QED BY <1>7, <2>1, QuietStep
<1>8. ASSUME QueryStore PROVE IInv'
  <2>1. TypeOK'
    BY <1>0, <1>0a, <1>8 DEF QueryStore, tasksToValidate, TypeOK, taskVars, timeVars, eventVars
  <2>2. QED BY <1>8, <2>1, QuietStep DEF QueryStore
<1>9. ASSUME SkipStoreCheck \/ QueryFails PROVE IInv'
  BY <1>9, NoStoreCheckFacts, EvaluateKeeps DEF SkipStoreCheck, QueryFails
<1>10. ASSUME QueryAnswered PROVE IInv'
  <2>1. PICK storedItems \in SUBSET (hashesToValidate \cap stored) :
          evaluateAndCleanUp(AfterStoreCheck(storedItems))
    BY <1>10 DEF QueryAnswered
  <2>2. storedItems \in SUBSET stored
    OBVIOUS
  <2>3. QED BY <2>1, <2>2, AfterStoreCheckFacts, EvaluateKeeps
<1>11. ASSUME NEW t \in Task, Expire(t) \/ Settle(t) \/ StoreArchives(t) PROVE IInv'
  <2> USE DEF Expire, Settle, StoreArchives
  <2>1. TypeOK'
    BY <1>0, <1>0a, <1>11 DEF TypeOK, taskVars, timeVars, loopVars, eventVars
  <2>2. QED BY <1>0, <1>11, <2>1, QuietStep DEF Ownership, loopVars, taskVars
<1>12. CASE UNCHANGED sendVars
  <2>1. TypeOK'
    BY <1>0, <1>0a, <1>12 DEF sendVars, TypeOK, taskVars, timeVars, loopVars, eventVars
  <2>2. QED BY <1>0, <1>12, <2>1, QuietStep DEF sendVars, Ownership, loopVars, taskVars
<1>13. ASSUME StartSendService \/ NextRound PROVE IInv'
  BY <1>0, <1>0a, <1>5, <1>13, SubscriptionSteps DEF StartSendService, NextRound
<1>14. QED
  BY <1>1, <1>2, <1>3, <1>4, <1>6, <1>7, <1>8, <1>9, <1>10, <1>11, <1>12, <1>13 DEF Next

LEMMA AlwaysIInv == Spec => []IInv
  BY InitHolds, NextKeeps, PTL DEF Spec

\* The types of the send service's state hold in every reachable state.
THEOREM TypeCorrect == Spec => []TypeOK
  BY AlwaysIInv, PTL DEF IInv

\* However the loop's retries, the store's answers and the application's
\* send() calls interleave, no request gets a second final event or a second
\* Propagated event.
THEOREM EventsAreUnique == Spec => []ToldAtMostOnce
  BY AlwaysIInv, PTL DEF IInv

\* A task whose send() is over is in the cache or its application was told,
\* unless addUnique took it for one with the same hash.
THEOREM NothingIsLost == Spec => []NoSilentLoss
  BY AlwaysIInv, PTL DEF IInv

\* A task belongs to the send() call that made it or to the loop's cache, never
\* to both, and only the one it belongs to changes its state.
THEOREM TasksAreOwned == Spec => []Ownership
  BY AlwaysIInv, PTL DEF IInv

\* "sent" means that a store node has the message.
THEOREM SentIsStored == Spec => []SentOnlyIfStored
  BY AlwaysIInv, PTL DEF IInv

Quiet(t) == /\ propagatedEvents'[t] = propagatedEvents[t]
            /\ sentEvents'[t] = sentEvents[t]
            /\ errorEvents'[t] = errorEvents[t]

\* Reporting a set of tasks says nothing about the others.
LEMMA ReportIsQuiet ==
  ASSUME NEW S, NEW st, Report(S, st)
  PROVE  \A t \in Task \ S : Quiet(t)
  BY DEF Report, Quiet

\* After its final event nothing more is said about a request: a publish
\* that ends late, a retry or a store answer finds the task neither cached
\* nor owned by a send() call.
THEOREM FinalResultIsLast == Spec => FinalIsLast
<1>1. ASSUME IInv, [Next]_sendVars, NEW t \in Task, sentEvents[t] + errorEvents[t] > 0
      PROVE  Quiet(t)
  <2>1. t \notin taskCache /\ sendPc[t] = "done"
    BY <1>1 DEF IInv, Ownership
  <2>2. UNCHANGED eventVars => Quiet(t)
    BY DEF eventVars, Quiet
  <2>3. ASSUME NEW u \in Task, NEW o, SendProceeds(u, o), sendPc[u] # "done" PROVE Quiet(t)
    <3>1. CASE o.at # "end"
      BY <2>2, <2>3, <3>1 DEF SendProceeds
    <3>2. CASE o.at = "end"
      BY <2>1, <2>3, <3>2, ReportIsQuiet DEF SendProceeds
    <3>3. QED BY <3>1, <3>2
  <2>4. ASSUME NEW st, evaluateAndCleanUp(st) PROVE Quiet(t)
    BY <2>1, <2>4, ReportIsQuiet DEF evaluateAndCleanUp
  <2>5. ASSUME NEW u \in Task, Send(u) \/ SendResumes(u) PROVE Quiet(t)
    BY <2>3, <2>5 DEF Send, SendResumes
  <2>6. ASSUME NEW u \in Task, SendRaises(u) \/ LoopSends(u) \/ Expire(u) \/ Settle(u)
                               \/ StoreArchives(u)
        PROVE  Quiet(t)
    BY <2>2, <2>6 DEF SendRaises, LoopSends, LoopProceeds, Expire, Settle, StoreArchives
  <2>7. CASE StartSendService \/ NextRound \/ LoopResumes \/ LoopRaises \/ QueryStore
             \/ StopSendService
    BY <2>2, <2>7 DEF StartSendService, NextRound, trySendMessages, LoopResumes, LoopProceeds,
                      LoopRaises, QueryStore, StopSendService
  <2>8. CASE SkipStoreCheck \/ QueryFails \/ QueryAnswered
    BY <2>4, <2>8 DEF SkipStoreCheck, QueryFails, QueryAnswered
  <2>9. CASE UNCHANGED sendVars
    BY <2>2, <2>9 DEF sendVars
  <2>10. QED BY <1>1, <2>5, <2>6, <2>7, <2>8, <2>9 DEF Next
<1>2. IInv /\ [Next]_sendVars =>
        [\A t \in Task : sentEvents[t] + errorEvents[t] > 0 =>
           /\ propagatedEvents'[t] = propagatedEvents[t]
           /\ sentEvents'[t] = sentEvents[t]
           /\ errorEvents'[t] = errorEvents[t]]_sendVars
  BY <1>1 DEF Quiet
<1>3. QED BY <1>2, AlwaysIInv, PTL DEF Spec, FinalIsLast

\* What the next round looks at, and what a first attempt leaves that ran no
\* processor.
Retryable == {"SuccessfullyPropagated", "NextRoundRetry"}
               \cup (IF RelayMounted THEN {} ELSE {"Entry"})

Attempted == Retryable \cup {"FailedToDeliver"}

\* CachedIsRetried in the middle of a round: all cached tasks have been
\* attempted, except that the loop may be working on one of them.
Retried ==
  \A t \in taskCache :
    /\ loopPc \in {"off", "sleep"} => state[t] \in Retryable
    /\ loopPc \in {"round", "query"} => state[t] \in Attempted
    /\ loopPc \in {"relay", "lightpush"} /\ loopTask # t => state[t] \in Attempted

\* The chain leaves no task in FallbackRetry (process), and with a relay none
\* in Entry: the relay's processor always runs.
LEMMA ChainEnds ==
  /\ \A st \in Attempted \cup {"Entry"} : \A o \in ProcessStart(st) : o.at = "end" => o.st \in Attempted
  /\ \A at : \A o \in Outcomes(at) : o.at = "end" => o.st \in Attempted
<1>1. \A st \in Attempted : Returned(st).st \in Attempted
  BY DEF Returned, Outcome, Attempted, Retryable
<1>2. \A st : \A o \in ToLightpush(st) : o.at = "end" => o.st = Returned(st).st
  BY DEF ToLightpush, Returned, Outcome
<1>3. Returned("FallbackRetry").st \in Attempted
  BY DEF Returned, Outcome, Attempted, Retryable
<1>4. \A st \in Attempted \cup {"Entry"} : \A o \in ProcessStart(st) : o.at = "end" => o.st \in Attempted
  <2>1. CASE RelayMounted
    BY <2>1 DEF ProcessStart, Outcome
  <2>2. CASE ~RelayMounted
    <3>1. "Entry" \in Attempted
      BY <2>2 DEF Attempted, Retryable
    <3>2. QED BY <1>1, <1>2, <2>2, <3>1 DEF ProcessStart
  <2>3. QED BY <2>1, <2>2
<1>5. {Returned("SuccessfullyPropagated").st, Returned("NextRoundRetry").st,
       Returned("FailedToDeliver").st} \subseteq Attempted
  BY <1>1 DEF Attempted, Retryable
<1>6. \A o \in RelayOutcomes : o.at = "end" => o.st \in Attempted
  BY <1>2, <1>3, <1>5 DEF RelayOutcomes
<1>7. \A o \in LightpushOutcomes : o.at = "end" => o.st \in Attempted
  BY <1>5 DEF LightpushOutcomes
<1>8. QED BY <1>4, <1>6, <1>7 DEF Outcomes

\* A send() call that moves on adds its task to the cache only if the task is
\* propagated, waits for the next round or, without a relay, ran no processor.
LEMMA SendKeepsRetried ==
  ASSUME IInv, Retried, NEW t \in Task, NEW o, o.at = "end" => o.st \in Attempted,
         sendPc[t] # "done", SendProceeds(t, o), UNCHANGED loopVars
  PROVE  Retried'
<1> DEFINE st == [state EXCEPT ![t] = o.st]
<1>1. TypeOK /\ t \notin taskCache /\ UNCHANGED <<loopPc, loopTask>>
  BY DEF IInv, Ownership, loopVars
<1>2. \A u \in Task : st[u] = IF u = t THEN o.st ELSE state[u]
  BY <1>1 DEF TypeOK
<1>3. CASE o.at # "end"
  <2>1. state' = st /\ taskCache' = taskCache
    BY <1>3 DEF SendProceeds
  <2>2. \A u \in taskCache : state'[u] = state[u]
    BY <1>1, <1>2, <2>1 DEF TypeOK
  <2>3. QED BY <1>1, <2>1, <2>2 DEF Retried
<1>4. CASE o.at = "end"
  <2>1. /\ Report({t}, st)
        /\ taskCache' = IF StateAfterReport(t, o.st) # "FailedToDeliver"
                        THEN addTask(t) ELSE taskCache
    BY <1>4 DEF SendProceeds
  <2> HIDE DEF st
  <2>2. \A u \in Task : state'[u] = IF u = t THEN StateAfterReport(t, o.st) ELSE state[u]
    BY <1>2, <2>1 DEF Report
  <2>3. taskCache \subseteq Task /\ taskCache' \subseteq taskCache \cup {t}
    BY <1>1, <2>1 DEF addTask, TypeOK
  <2>4. t \in taskCache' => state'[t] \in Retryable
    <3>1. StateAfterReport(t, o.st) \in Attempted
      BY <1>4 DEF StateAfterReport, Attempted
    <3>2. t \in taskCache' => StateAfterReport(t, o.st) # "FailedToDeliver"
      BY <1>1, <2>1
    <3>3. QED BY <2>2, <3>1, <3>2 DEF Attempted
  <2>5. \A u \in taskCache : state'[u] = state[u]
    BY <1>1, <2>2, <2>3
  <2>6. QED BY <1>1, <2>3, <2>4, <2>5 DEF Retried, Attempted
<1>5. QED BY <1>3, <1>4

\* The loop's task is the only one whose state the chain changes, and when the
\* loop lets it go it has been attempted.
LEMMA LoopKeepsRetried ==
  ASSUME IInv, Retried, loopPc \in {"round", "relay", "lightpush"}, NEW t \in taskCache, NEW o,
         GoodOutcome(o), o.at = "end" => o.st \in Attempted, LoopProceeds(t, o),
         loopPc \in {"relay", "lightpush"} => loopTask = t
  PROVE  Retried'
<1>1. /\ state \in [Task -> DeliveryState] /\ taskCache \subseteq Task
      /\ state' = [state EXCEPT ![t] = o.st] /\ taskCache' = taskCache
      /\ loopPc' = IF o.at = "end" THEN "round" ELSE o.at
      /\ loopTask' = IF o.at = "end" THEN NoTask ELSE t
  BY DEF LoopProceeds, IInv, TypeOK
<1>2. \A u \in taskCache : state'[u] = IF u = t THEN o.st ELSE state[u]
  BY <1>1
<1>3. \A u \in taskCache \ {t} : state'[u] \in Attempted
  BY <1>2 DEF Retried
<1>4. QED BY <1>1, <1>2, <1>3 DEF Retried, GoodOutcome

\* After a round every task that stays in the cache is retryable: the failed
\* and the validated ones leave it.
LEMMA EvaluateKeepsRetried ==
  ASSUME IInv, NEW st, \A t \in taskCache : st[t] \in Attempted \cup {"SuccessfullyValidated"},
         evaluateAndCleanUp(st)
  PROVE  Retried'
<1>1. /\ taskCache \subseteq Task
      /\ Report(taskCache, st) /\ loopPc' = "sleep"
      /\ \A t \in taskCache' : t \in taskCache /\ StateAfterReport(t, st[t]) \notin Final
  BY DEF evaluateAndCleanUp, IInv, TypeOK
<1>2. \A t \in taskCache : state'[t] = StateAfterReport(t, st[t])
  BY <1>1 DEF Report
<1>3. \A t \in taskCache' : state'[t] \in Retryable
  BY <1>1, <1>2 DEF StateAfterReport, Final, Attempted
<1>4. QED BY <1>1, <1>3 DEF Retried

LEMMA NextKeepsRetried ==
  ASSUME IInv, Retried, [Next]_sendVars
  PROVE  Retried'
<1>0. TypeOK /\ Ownership
  BY DEF IInv
<1>1. ASSUME NEW t \in Task, Send(t) \/ SendResumes(t) PROVE Retried'
  <2>1. PICK o : SendProceeds(t, o) /\ (o.at = "end" => o.st \in Attempted)
    BY <1>1, ChainEnds DEF Send, SendResumes
  <2>2. sendPc[t] # "done" /\ UNCHANGED loopVars
    BY <1>1 DEF Send, SendResumes
  <2>3. QED BY <2>1, <2>2, SendKeepsRetried
<1>2. ASSUME NEW t \in Task, LoopSends(t) PROVE Retried'
  <2>1. PICK o \in ProcessStart(state[t]) : LoopProceeds(t, o)
    BY <1>2 DEF LoopSends
  <2>2. t \in taskCache /\ loopPc = "round" /\ state[t] \in ProcessedState
    BY <1>0, <1>2 DEF LoopSends, Ownership, TypeOK, ProcessedState
  <2>3. state[t] \in Attempted
    BY <2>2 DEF Retried
  <2>4. GoodOutcome(o) /\ (o.at = "end" => o.st \in Attempted)
    BY <2>2, <2>3, ChainOutcomes, ChainEnds
  <2>5. QED BY <2>1, <2>2, <2>4, LoopKeepsRetried
<1>3. ASSUME LoopResumes PROVE Retried'
  <2>1. PICK o \in Outcomes(loopPc) : LoopProceeds(loopTask, o)
    BY <1>3 DEF LoopResumes
  <2>2. loopTask \in taskCache /\ loopPc \in {"relay", "lightpush"}
    BY <1>0, <1>3 DEF LoopResumes, Ownership
  <2>3. GoodOutcome(o) /\ (o.at = "end" => o.st \in Attempted)
    BY ChainOutcomes, ChainEnds
  <2>4. QED BY <2>1, <2>2, <2>3, LoopKeepsRetried
<1>4. CASE StartSendService \/ NextRound
  <2>1. /\ loopPc \in {"off", "sleep"} /\ loopPc' = "round"
        /\ state' = state /\ taskCache' = taskCache
    BY <1>4 DEF StartSendService, NextRound, trySendMessages, taskVars
  <2>2. QED BY <2>1 DEF Retried, Attempted
<1>5. CASE QueryStore
  BY <1>5 DEF QueryStore, taskVars, Retried
<1>6. CASE SkipStoreCheck \/ QueryFails
  BY <1>6, EvaluateKeepsRetried DEF SkipStoreCheck, QueryFails, Retried
<1>7. CASE QueryAnswered
  <2>1. PICK storedItems : evaluateAndCleanUp(AfterStoreCheck(storedItems))
    BY <1>7 DEF QueryAnswered
  <2>2. \A t \in taskCache :
          AfterStoreCheck(storedItems)[t] \in Attempted \cup {"SuccessfullyValidated"}
    BY <1>0, <1>7 DEF AfterStoreCheck, QueryAnswered, Retried, Attempted, Retryable, TypeOK
  <2>3. QED BY <2>1, <2>2, EvaluateKeepsRetried
<1>8. CASE LoopRaises \/ StopSendService
  BY <1>8 DEF LoopRaises, StopSendService, Retried
<1>9. ASSUME NEW t \in Task, SendRaises(t) \/ Expire(t) \/ Settle(t) \/ StoreArchives(t)
      PROVE  Retried'
  BY <1>9 DEF SendRaises, Expire, Settle, StoreArchives, taskVars, loopVars, Retried
<1>10. CASE UNCHANGED sendVars
  BY <1>10 DEF sendVars, taskVars, loopVars, Retried
<1>11. QED
  BY <1>1, <1>2, <1>3, <1>4, <1>5, <1>6, <1>7, <1>8, <1>9, <1>10 DEF Next

\* A task that waits in the cache between two rounds is one the next round
\* will publish again or ask a store node for: no attempt, of send() or of the
\* loop, leaves it in a state no round looks at, except the first attempt of a
\* node without a relay that finds no lightpush peer (process skips the only
\* processor and the task stays in Entry).
THEOREM CachedTasksAreRetried == Spec => []CachedIsRetried
<1>1. Init => Retried
  BY DEF Init, Retried
<1>2. IInv /\ Retried /\ [Next]_sendVars => Retried'
  BY NextKeepsRetried
<1>3. Retried => CachedIsRetried
  BY DEF Retried, CachedIsRetried, Retryable
<1>4. QED BY <1>1, <1>2, <1>3, AlwaysIInv, PTL DEF Spec
------------------------------------------------------------------------------
(* SendService implements SendPromise.                                      *)

\* The cache holds one task per hash, the hashes asked for are those of cached
\* tasks that are not ephemeral, and nothing happens to a task before send().
PInv ==
  /\ \A t, u \in taskCache : HashOf[t] = HashOf[u] => t = u
  /\ loopPc = "query" => \A h \in hashesToValidate : \E u \in taskCache \ Ephemeral : HashOf[u] = h
  /\ \A t \in Task : sendPc[t] = "idle" => state[t] = "Entry" /\ t \notin expired

\* A send() call that moves on brings in no second task of a hash (addUnique).
LEMMA SendKeepsPInv ==
  ASSUME IInv, PInv, NEW t \in Task, NEW o, GoodOutcome(o), sendPc[t] # "done", SendProceeds(t, o),
         UNCHANGED <<expired, loopVars>>
  PROVE  PInv'
<1> DEFINE st == [state EXCEPT ![t] = o.st]
<1>1. /\ state \in [Task -> DeliveryState] /\ sendPc \in [Task -> {"idle", "relay", "lightpush", "done"}]
      /\ taskCache \subseteq Task
  BY DEF IInv, TypeOK
<1>2. sendPc'[t] # "idle" /\ \A u \in Task \ {t} : sendPc'[u] = sendPc[u]
  BY <1>1 DEF SendProceeds, GoodOutcome
<1>3. \A u \in Task \ {t} : state'[u] = state[u]
  <2>1. \A u \in Task \ {t} : st[u] = state[u]
    BY <1>1
  <2>2. state' = st \/ Report({t}, st)
    BY DEF SendProceeds
  <2> HIDE DEF st
  <2>3. QED BY <2>1, <2>2 DEF Report
<1>4. taskCache' = taskCache \/ (taskCache' = taskCache \cup {t} /\ \A u \in taskCache : HashOf[u] # HashOf[t])
  BY DEF SendProceeds, addTask
<1>5. \A u, v \in taskCache' : HashOf[u] = HashOf[v] => u = v
  BY <1>4 DEF PInv
<1>6. QED BY <1>2, <1>3, <1>4, <1>5 DEF PInv, loopVars

\* The end of a round only takes tasks away.
LEMMA EvaluateKeepsPInv ==
  ASSUME IInv, PInv, NEW st, \A t \in Task \ taskCache : st[t] = state[t], evaluateAndCleanUp(st)
  PROVE  PInv'
<1>1. /\ taskCache' \subseteq taskCache /\ loopPc' = "sleep" /\ UNCHANGED <<sendPc, expired>> /\ Report(taskCache, st)
  BY DEF evaluateAndCleanUp, timeVars
<1>2. \A t \in Task : sendPc[t] = "idle" => state'[t] = state[t]
  BY <1>1 DEF Report, IInv, Ownership
<1>3. QED BY <1>1, <1>2 DEF PInv

LEMMA LoopKeepsPInv ==
  ASSUME IInv, PInv, NEW t \in taskCache, NEW o, GoodOutcome(o), LoopProceeds(t, o)
  PROVE  PInv'
<1>1. /\ state' = [state EXCEPT ![t] = o.st] /\ UNCHANGED <<taskCache, sendPc, expired>> /\ loopPc' # "query"
  BY DEF LoopProceeds, GoodOutcome
<1>2. sendPc[t] = "done"
  BY DEF IInv, Ownership
<1>3. \A u \in Task : u # t => state'[u] = state[u]
  BY <1>1 DEF IInv, TypeOK
<1>4. QED BY <1>1, <1>2, <1>3 DEF PInv

LEMMA NextKeepsPInv ==
  ASSUME IInv, PInv, [Next]_sendVars
  PROVE  PInv'
<1>0. TypeOK /\ Ownership
  BY DEF IInv
<1>1. ASSUME NEW t \in Task, Send(t) \/ SendResumes(t) PROVE PInv'
  <2>1. PICK o : SendProceeds(t, o) /\ GoodOutcome(o)
    BY <1>1, ChainOutcomes DEF Send, SendResumes, ProcessedState, DeliveryState
  <2>2. sendPc[t] # "done" /\ UNCHANGED <<expired, loopVars>>
    BY <1>1 DEF Send, SendResumes
  <2>3. QED BY <2>1, <2>2, SendKeepsPInv
<1>2. ASSUME NEW t \in Task, LoopSends(t) PROVE PInv'
  <2>1. PICK o \in ProcessStart(state[t]) : LoopProceeds(t, o)
    BY <1>2 DEF LoopSends
  <2>2. t \in taskCache /\ state[t] \in ProcessedState
    BY <1>0, <1>2 DEF LoopSends, Ownership, TypeOK, ProcessedState
  <2>3. QED BY <2>1, <2>2, ChainOutcomes, LoopKeepsPInv
<1>3. CASE LoopResumes
  <2>1. PICK o \in Outcomes(loopPc) : LoopProceeds(loopTask, o)
    BY <1>3 DEF LoopResumes
  <2>2. loopTask \in taskCache
    BY <1>0, <1>3 DEF LoopResumes, Ownership
  <2>3. QED BY <2>1, <2>2, ChainOutcomes, LoopKeepsPInv
<1>4. CASE StartSendService \/ NextRound
  BY <1>4 DEF StartSendService, NextRound, trySendMessages, taskVars, timeVars, PInv
<1>5. CASE QueryStore
  <2>1. \A h \in hashesToValidate' : \E u \in taskCache \ Ephemeral : HashOf[u] = h
    BY <1>5 DEF QueryStore, tasksToValidate
  <2>2. QED BY <1>5, <2>1 DEF QueryStore, taskVars, timeVars, PInv
<1>6. CASE SkipStoreCheck \/ QueryFails
  BY <1>6, EvaluateKeepsPInv DEF SkipStoreCheck, QueryFails
<1>7. CASE QueryAnswered
  <2>1. PICK storedItems : evaluateAndCleanUp(AfterStoreCheck(storedItems))
    BY <1>7 DEF QueryAnswered
  <2>2. \A t \in Task \ taskCache : AfterStoreCheck(storedItems)[t] = state[t]
    BY DEF AfterStoreCheck
  <2>3. QED BY <2>1, <2>2, EvaluateKeepsPInv
<1>8. CASE LoopRaises \/ StopSendService
  BY <1>8 DEF LoopRaises, StopSendService, taskVars, timeVars, PInv
<1>9. ASSUME NEW t \in Task, SendRaises(t) \/ Expire(t) \/ Settle(t) \/ StoreArchives(t)
      PROVE  PInv'
  BY <1>9 DEF SendRaises, Expire, Settle, StoreArchives, taskVars, timeVars, loopVars, PInv
<1>10. CASE UNCHANGED sendVars
  BY <1>10 DEF sendVars, taskVars, timeVars, loopVars, PInv
<1>11. QED
  BY <1>1, <1>2, <1>3, <1>4, <1>5, <1>6, <1>7, <1>8, <1>9, <1>10 DEF Next

\* A report tells of its tasks what may be told next.
LEMMA TellsPromised ==
  ASSUME IInv, NEW S \in SUBSET Task, NEW st \in [Task -> DeliveryState], Report(S, st),
         \A t \in S : /\ sendPc[t] # "idle" /\ sentEvents[t] = 0 /\ errorEvents[t] = 0
                      /\ st[t] = "SuccessfullyValidated" => HashOf[t] \in stored /\ t \notin Ephemeral,
         \A t \in Task : sendPc'[t] = "idle" <=> sendPc[t] = "idle", stored' = stored
  PROVE  Promise!Tell
<1> DEFINE MayHear(t) ==
      \/ Said(t)' = Said(t)
      \/ /\ t \in S /\ sentEvents[t] = 0 /\ errorEvents[t] = 0 /\ sendPc[t] # "idle"
         /\ \/ propagatedEvents[t] = 0 /\ Said(t)' = [Said(t) EXCEPT !.propagated = 1]
            \/ Said(t)' = [Said(t) EXCEPT !.failed = 1]
            \/ HashOf[t] \in stored /\ t \notin Ephemeral /\ Said(t)' = [Said(t) EXCEPT !.sent = 1]
<1>1. ASSUME NEW t \in Task \ S PROVE Said(t)' = Said(t)
  BY <1>1, ReportIsQuiet DEF Said, Quiet
<1>2. ASSUME NEW t \in S PROVE MayHear(t)
  <2>1. /\ propagatedEvents'[t] = propagatedEvents[t]
             + IF st[t] = "SuccessfullyPropagated" /\ t \notin told THEN 1 ELSE 0
        /\ sentEvents'[t] = IF st[t] = "SuccessfullyValidated" THEN 1 ELSE 0
        /\ errorEvents'[t] = IF StateAfterReport(t, st[t]) = "FailedToDeliver" THEN 1 ELSE 0
    <3>1. TypeOK /\ t \in Task /\ sentEvents[t] = 0 /\ errorEvents[t] = 0
      BY DEF IInv
    <3>2. QED BY <3>1, ReportFacts
  <2>2. propagatedEvents[t] = IF t \in told THEN 1 ELSE 0
    BY DEF IInv, Ownership
  <2>3. StateAfterReport(t, st[t]) = "FailedToDeliver" => st[t] \notin {"SuccessfullyPropagated", "SuccessfullyValidated"}
    BY DEF StateAfterReport, TooOld, Final
  <2>4. sentEvents[t] = 0 /\ errorEvents[t] = 0
    OBVIOUS
  <2>5. CASE st[t] = "SuccessfullyPropagated"
    BY <2>1, <2>2, <2>3, <2>4, <2>5 DEF Said
  <2>6. CASE st[t] = "SuccessfullyValidated"
    BY <2>1, <2>2, <2>3, <2>4, <2>6 DEF Said
  <2>7. CASE st[t] \notin {"SuccessfullyPropagated", "SuccessfullyValidated"}
    BY <2>1, <2>2, <2>4, <2>7 DEF Said
  <2>8. QED BY <2>5, <2>6, <2>7
<1>3. \A t \in Task : MayHear(t)
  BY <1>1, <1>2
<1>4. {t \in Task : sendPc[t] # "idle"}' = {t \in Task : sendPc[t] # "idle"}
  OBVIOUS
<1> DEFINE said == [t \in Task |-> Said(t)]
<1>5. ASSUME NEW t \in Task PROVE said'[t] = said[t] \/ Promise!Hears(t, said'[t])
  <2>1. said[t] = Said(t) /\ said'[t] = Said(t)' /\ said[t].sent = sentEvents[t] /\ said[t].failed = errorEvents[t]
        /\ said[t].propagated = propagatedEvents[t]
    BY DEF Said
  <2>2. sentEvents[t] = 0 /\ errorEvents[t] = 0 => sentEvents[t] + errorEvents[t] = 0
    OBVIOUS
  <2> HIDE DEF said
  <2>3. MayHear(t)
    BY <1>3
  <2>4. QED BY <2>1, <2>2, <2>3 DEF Promise!Hears, Promise!Open, said
<1>6. DOMAIN said' = Task
  OBVIOUS
<1>7. QED BY <1>4, <1>5, <1>6 DEF Promise!Tell

\* A step that makes no request, archives nothing and tells nothing.
LEMMA SilentStep ==
  ASSUME UNCHANGED <<eventVars, stored>>, \A t \in Task : sendPc'[t] = "idle" <=> sendPc[t] = "idle"
  PROVE  UNCHANGED Promise!promiseVars
<1>1. \A t \in Task : Said(t)' = Said(t)
  BY DEF Said, eventVars
<1>2. {t \in Task : sendPc[t] # "idle"}' = {t \in Task : sendPc[t] # "idle"}
  OBVIOUS
<1>3. [t \in Task |-> Said(t)]' = [t \in Task |-> Said(t)]
  BY <1>1
<1>4. QED BY <1>2, <1>3 DEF Promise!promiseVars

\* send(): the request is made, and nothing is told of it yet.
LEMMA SendAsks ==
  ASSUME IInv, PInv, NEW t \in Task, Send(t)
  PROVE  Promise!Ask(t)
<1>1. sendPc \in [Task -> {"idle", "relay", "lightpush", "done"}] /\ sendPc[t] = "idle"
      /\ state[t] = "Entry" /\ t \notin expired
  BY DEF Send, IInv, TypeOK, PInv
<1>2. PICK o \in ProcessStart("Entry") : SendProceeds(t, o)
  BY DEF Send
<1>3. GoodOutcome(o) /\ (o.at = "end" => o.st = "Entry")
  BY ChainOutcomes DEF ProcessStart, ToLightpush, Returned, Outcome, ProcessedState, DeliveryState
<1>4. sendPc'[t] # "idle" /\ \A u \in Task \ {t} : sendPc'[u] = sendPc[u]
  BY <1>1, <1>2, <1>3 DEF SendProceeds, GoodOutcome
<1>5. \A u \in Task : Said(u)' = Said(u)
  <2>1. CASE o.at # "end"
    BY <1>2, <2>1 DEF SendProceeds, Said, eventVars
  <2>2. CASE o.at = "end"
    <3> DEFINE st == [state EXCEPT ![t] = o.st]
    <3>1. Report({t}, st) /\ st[t] = "Entry"
      BY <1>1, <1>2, <1>3, <2>2 DEF SendProceeds, IInv, TypeOK
    <3> HIDE DEF st
    <3>2. ~TellsPropagated(t, st[t]) /\ ~TellsSent(st[t]) /\ ~TellsError(t, st[t])
      BY <1>1, <3>1 DEF TellsPropagated, TellsSent, TellsError, TooOld
    <3>3. \A u \in Task : Quiet(u)
      BY <3>1, <3>2 DEF Report, Quiet, IInv, TypeOK
    <3>4. QED BY <3>3 DEF Quiet, Said
  <2>3. QED BY <2>1, <2>2
<1>6. {u \in Task : sendPc[u] # "idle"}' = {u \in Task : sendPc[u] # "idle"} \cup {t}
  BY <1>4
<1>7. [u \in Task |-> Said(u)]' = [u \in Task |-> Said(u)]
  BY <1>5
<1>8. stored' = stored
  BY DEF Send
<1>9. QED BY <1>1, <1>6, <1>7, <1>8 DEF Promise!Ask

\* The end of a round tells of the tasks that were cached.
LEMMA EvaluateTells ==
  ASSUME IInv, NEW st \in [Task -> DeliveryState], evaluateAndCleanUp(st),
         \A t \in taskCache : st[t] = "SuccessfullyValidated" => HashOf[t] \in stored /\ t \notin Ephemeral
  PROVE  Promise!Tell
<1>1. Report(taskCache, st) /\ UNCHANGED <<sendPc, stored>>
  BY DEF evaluateAndCleanUp
<1>2. taskCache \in SUBSET Task
  BY DEF IInv, TypeOK
<1>3. \A t \in taskCache : sendPc[t] # "idle" /\ sentEvents[t] = 0 /\ errorEvents[t] = 0
  BY <1>2 DEF IInv, TypeOK, Ownership
<1>4. QED BY <1>1, <1>2, <1>3, TellsPromised

LEMMA PromiseStep ==
  ASSUME IInv, PInv, [Next]_sendVars
  PROVE  [Promise!Next]_(Promise!promiseVars)
<1>0. TypeOK /\ Ownership
  BY DEF IInv
<1>1. ASSUME NEW t \in Task, Send(t) PROVE Promise!Next
  BY <1>1, SendAsks DEF Promise!Next
<1>2. ASSUME NEW t \in Task, SendResumes(t) PROVE [Promise!Next]_(Promise!promiseVars)
  <2>1. PICK o : SendProceeds(t, o) /\ GoodOutcome(o)
    BY <1>2, ChainOutcomes DEF SendResumes
  <2>2. /\ sendPc \in [Task -> {"idle", "relay", "lightpush", "done"}] /\ state \in [Task -> DeliveryState]
        /\ sendPc[t] \in {"relay", "lightpush"} /\ stored' = stored
    BY <1>0, <1>2 DEF SendResumes, TypeOK
  <2>3. \A u \in Task : sendPc'[u] = "idle" <=> sendPc[u] = "idle"
    BY <2>1, <2>2 DEF SendProceeds, GoodOutcome
  <2>4. CASE o.at # "end"
    BY <2>1, <2>2, <2>3, <2>4, SilentStep DEF SendProceeds
  <2>5. CASE o.at = "end"
    <3> DEFINE st == [state EXCEPT ![t] = o.st]
    <3>1. Report({t}, st) /\ st \in [Task -> DeliveryState] /\ st[t] # "SuccessfullyValidated"
      BY <2>1, <2>2, <2>5 DEF SendProceeds, GoodOutcome, ProcessedState
    <3> HIDE DEF st
    <3>2. {t} \in SUBSET Task /\ sentEvents[t] = 0 /\ errorEvents[t] = 0
      BY <1>0, <2>2 DEF Ownership
    <3>3. Promise!Tell
      BY <2>2, <2>3, <3>1, <3>2, TellsPromised
    <3>4. QED BY <3>3 DEF Promise!Next
  <2>6. QED BY <2>4, <2>5
<1>3. ASSUME NEW t \in Task, SendRaises(t) \/ LoopSends(t) \/ Expire(t) \/ Settle(t)
      PROVE  UNCHANGED Promise!promiseVars
  BY <1>3, SilentStep DEF SendRaises, LoopSends, LoopProceeds, Expire, Settle
<1>4. CASE StartSendService \/ NextRound \/ LoopResumes \/ LoopRaises \/ QueryStore \/ StopSendService
  BY <1>4, SilentStep DEF StartSendService, NextRound, trySendMessages, LoopResumes, LoopProceeds, LoopRaises,
     QueryStore, StopSendService
<1>5. CASE SkipStoreCheck \/ QueryFails
  <2>1. evaluateAndCleanUp(state) /\ state \in [Task -> DeliveryState]
    BY <1>0, <1>5 DEF SkipStoreCheck, QueryFails, TypeOK
  <2>2. \A t \in taskCache : state[t] # "SuccessfullyValidated"
    BY <1>0 DEF Ownership
  <2>3. QED BY <2>1, <2>2, EvaluateTells DEF Promise!Next
<1>6. CASE QueryAnswered
  <2>1. PICK storedItems \in SUBSET (hashesToValidate \cap stored) : evaluateAndCleanUp(AfterStoreCheck(storedItems))
    BY <1>6 DEF QueryAnswered
  <2> DEFINE st == AfterStoreCheck(storedItems)
  <2>2. st \in [Task -> DeliveryState]
    BY <1>0 DEF AfterStoreCheck, TypeOK, DeliveryState
  <2>3. ASSUME NEW t \in taskCache, st[t] = "SuccessfullyValidated" PROVE HashOf[t] \in stored /\ t \notin Ephemeral
    <3>1. HashOf[t] \in storedItems
      BY <1>0, <2>3 DEF AfterStoreCheck, TypeOK, Ownership
    <3>2. PICK u \in taskCache \ Ephemeral : HashOf[u] = HashOf[t]
      BY <1>6, <3>1 DEF QueryAnswered, PInv
    <3>3. QED BY <3>1, <3>2 DEF PInv
  <2> HIDE DEF st
  <2>4. QED BY <2>1, <2>2, <2>3, EvaluateTells DEF Promise!Next, st
<1>7. ASSUME NEW t \in Task, StoreArchives(t) PROVE Promise!Next
  <2>1. /\ state[t] = "SuccessfullyPropagated" /\ t \notin Ephemeral /\ stored' = stored \cup {HashOf[t]}
        /\ UNCHANGED <<sendPc, eventVars>>
    BY <1>7 DEF StoreArchives
  <2>2. sendPc[t] # "idle"
    BY <2>1 DEF PInv
  <2>3. \A u \in Task : Said(u)' = Said(u)
    BY <2>1 DEF Said, eventVars
  <2>4. [u \in Task |-> Said(u)]' = [u \in Task |-> Said(u)]
    BY <2>3
  <2>5. Promise!Archive(t)
    BY <2>1, <2>2, <2>4 DEF Promise!Archive
  <2>6. QED BY <2>5 DEF Promise!Next
<1>8. CASE UNCHANGED sendVars
  BY <1>8, SilentStep DEF sendVars
<1>9. QED BY <1>1, <1>2, <1>3, <1>4, <1>5, <1>6, <1>7, <1>8 DEF Next

\* Whatever send() calls, retries, store answers and the end of messages' time do to
\* each other, the application hears of every request what SendPromise allows.
THEOREM PromiseIsKept == Spec => KeepsPromise
<1>1. Init => Promise!Init /\ PInv
  <2> SUFFICES ASSUME Init PROVE Promise!Init /\ PInv
    OBVIOUS
  <2>1. {t \in Task : sendPc[t] # "idle"} = {}
    BY DEF Init
  <2>2. [t \in Task |-> Said(t)] = [t \in Task |-> Promise!Unsaid]
    BY DEF Init, Said, Promise!Unsaid
  <2>3. QED BY <2>1, <2>2 DEF Init, Promise!Init, PInv
<1>2. IInv /\ PInv /\ [Next]_sendVars => PInv' /\ [Promise!Next]_(Promise!promiseVars)
  BY NextKeepsPInv, PromiseStep
<1>3. QED BY <1>1, <1>2, AlwaysIInv, PTL DEF Spec, KeepsPromise, Promise!Spec
==============================================================================
