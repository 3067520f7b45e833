----------------------------- MODULE SendService -----------------------------
(***************************************************************************)
(* The send half of the delivery service.  An application's send() call    *)
(* becomes a DeliveryTask that a chain of processors (relay, then          *)
(* lightpush) publishes; what could not be published is retried by the     *)
(* service loop, what was published is looked up in a store node, and the  *)
(* application is told by Propagated, Sent and Error events.               *)
(*                                                                         *)
(* One action is the code between two awaits.  A task's fields are written *)
(* only by the call that is processing it, so the resumptions between the  *)
(* nested async procedures of one call are not separate steps.  Time is    *)
(* abstracted to two facts per task, each of which becomes true at some    *)
(* moment: the message is older than MaxTimeInCache, and its last          *)
(* propagation is older than ArchiveTime.                                  *)
(***************************************************************************)
EXTENDS SubscriptionManager

CONSTANTS
  Task,             \* DeliveryTask objects, one per accepted send() call
  NoTask,           \* no task
  MsgHash,          \* message hashes
  HashOf,           \* task.msgHash: [Task -> MsgHash]
  TopicOf,          \* task.msg.contentTopic: [Task -> ContentTopic]
  Ephemeral,        \* tasks whose message is ephemeral
  LightpushMounted, \* node.wakuLightpushClient is not nil
  CheckStore,       \* checkStoreForMessages
  MayRaise          \* a lightpush stream may raise out of publish

ASSUME SendAssumption ==
  /\ NoTask \notin Task
  /\ HashOf \in [Task -> MsgHash]
  /\ TopicOf \in [Task -> ContentTopic]
  /\ Ephemeral \subseteq Task
  /\ LightpushMounted \in BOOLEAN
  /\ CheckStore \in BOOLEAN
  /\ MayRaise \in BOOLEAN
  /\ RelayMounted \/ LightpushMounted  \* SendService.new refuses neither

DeliveryState == {"Entry", "SuccessfullyPropagated", "SuccessfullyValidated",
                  "FallbackRetry", "NextRoundRetry", "FailedToDeliver"}

Final == {"SuccessfullyValidated", "FailedToDeliver"}

VARIABLES
  state,        \* task.state
  told,         \* tasks whose propagateEventEmitted is set
  taskCache,    \* SendService.taskCache
  expired,      \* tasks with messageAge() > MaxTimeInCache
  settled,      \* tasks whose last propagation is older than ArchiveTime
  sendPc,       \* where each send() call stands
  loopPc,       \* where the service loop stands
  loopTask,     \* the task the loop is processing
  tasksToSend,  \* what is left of the round's tasksToSend
  hashesToValidate, \* what the loop asked the store for
  node          \* "up", or "down" once an asyncSpawned send raised

\* The outside world: the events the application got, how often, and what
\* some store node has archived.
VARIABLES propagatedEvents, sentEvents, errorEvents, stored

taskVars  == <<state, told, taskCache>>
timeVars  == <<expired, settled>>
loopVars  == <<loopPc, loopTask, tasksToSend, hashesToValidate>>
eventVars == <<propagatedEvents, sentEvents, errorEvents>>
sendVars  == <<subscriptionVars, taskVars, timeVars, sendPc, loopVars, node,
               eventVars, stored>>

Init ==
  /\ SubscriptionInit
  /\ state = [t \in Task |-> "Entry"]
  /\ told = {} /\ taskCache = {}
  /\ expired = {} /\ settled = {}
  /\ sendPc = [t \in Task |-> "idle"]
  /\ loopPc = "off" /\ loopTask = NoTask
  /\ tasksToSend = {} /\ hashesToValidate = {}
  /\ node = "up"
  /\ propagatedEvents = [t \in Task |-> 0]
  /\ sentEvents = [t \in Task |-> 0]
  /\ errorEvents = [t \in Task |-> 0]
  /\ stored = {}
------------------------------------------------------------------------------
(* The processor chain.  An outcome says where the call is next ("end" when *)
(* process() returns) and the task's state.                                 *)

Outcome(at, st) == [at |-> at, st |-> st]

\* Mutant of Returned: process() leaves FallbackRetry behind.
MutantReturned(st) == Outcome("end", st)

\* The end of process(): a task that still wants a fallback waits for the
\* next round.
Returned(st) == Outcome("end", IF st = "FallbackRetry" THEN "NextRoundRetry" ELSE st)

\* The lightpush processor is next: it is skipped when no lightpush peer is
\* available, and then the task keeps its state.
ToLightpush(st) == {Outcome("lightpush", st), Returned(st)}

\* process() up to its first await.
ProcessStart(st) ==
  IF RelayMounted THEN {Outcome("relay", st)} ELSE ToLightpush(st)

\* RelaySendProcessor.sendImpl resumes from publishProc: published; refused;
\* or no peers, which falls back to lightpush if there is one and is a
\* failure otherwise.
RelayOutcomes ==
  {Returned("SuccessfullyPropagated"), Returned("FailedToDeliver")}
    \cup (IF LightpushMounted THEN ToLightpush("FallbackRetry") ELSE {})

\* LightpushSendProcessor.sendImpl resumes from publish: served; a service
\* error, worth a retry; or a message that the service refuses.
LightpushOutcomes ==
  {Returned("SuccessfullyPropagated"), Returned("NextRoundRetry"),
   Returned("FailedToDeliver")}

Outcomes(at) == IF at = "relay" THEN RelayOutcomes ELSE LightpushOutcomes

\* deliveryTime is set by a propagation: its age starts again.
NewSettled(t, st) == IF st = "SuccessfullyPropagated" THEN settled \ {t} ELSE settled
------------------------------------------------------------------------------
(* reportTaskResult, as a function of the task's state before it.           *)

\* Mutant of TooOld: the age is never looked at.
MutantTooOld(t, st) == FALSE

TooOld(t, st) == st \notin Final \cup {"SuccessfullyPropagated"} /\ t \in expired
StateAfterReport(t, st) == IF TooOld(t, st) THEN "FailedToDeliver" ELSE st
\* Mutant of TellsPropagated: every propagation is told.
MutantTellsPropagated(t, st) == st = "SuccessfullyPropagated"

TellsPropagated(t, st) == st = "SuccessfullyPropagated" /\ t \notin told
TellsSent(st) == st = "SuccessfullyValidated"
\* Mutant of TellsError: ageing out is silent.
MutantTellsError(t, st) == st = "FailedToDeliver"

TellsError(t, st) == st = "FailedToDeliver" \/ TooOld(t, st)

\* Reports every task of S, whose states are given by st.
Report(S, st) ==
  /\ propagatedEvents' = [t \in Task |->
       IF t \in S /\ TellsPropagated(t, st[t]) THEN propagatedEvents[t] + 1 ELSE propagatedEvents[t]]
  /\ sentEvents' = [t \in Task |->
       IF t \in S /\ TellsSent(st[t]) THEN sentEvents[t] + 1 ELSE sentEvents[t]]
  /\ errorEvents' = [t \in Task |->
       IF t \in S /\ TellsError(t, st[t]) THEN errorEvents[t] + 1 ELSE errorEvents[t]]
  /\ told' = told \cup {t \in S : st[t] = "SuccessfullyPropagated"}
  /\ state' = [t \in Task |-> IF t \in S THEN StateAfterReport(t, st[t]) ELSE st[t]]

\* Mutant of addTask: the cache is not searched first.
MutantAddTask(t) == taskCache \cup {t}

\* addTask: taskCache.addUnique, where tasks are equal when their hashes are.
addTask(t) == IF \E u \in taskCache : HashOf[u] = HashOf[t]
              THEN taskCache ELSE taskCache \cup {t}
------------------------------------------------------------------------------
(* send()                                                                   *)

\* A send() call moves on to outcome o of the chain.
SendProceeds(t, o) ==
  LET st == [state EXCEPT ![t] = o.st]
  IN  /\ settled' = NewSettled(t, o.st)
      /\ IF o.at # "end"
         THEN /\ state' = st
              /\ sendPc' = [sendPc EXCEPT ![t] = o.at]
              /\ UNCHANGED <<told, taskCache, eventVars>>
         ELSE /\ Report({t}, st)
              /\ taskCache' = IF StateAfterReport(t, o.st) # "FailedToDeliver"
                              THEN addTask(t) ELSE taskCache
              /\ sendPc' = [sendPc EXCEPT ![t] = "done"]

\* The API's send: subscribes to the content topic, then runs
\* SendService.send until its first await.  A topic that cannot be placed
\* makes the call fail before there is a task.
Send(t) ==
  /\ node = "up" /\ sendPc[t] = "idle"
  /\ subscribe(TopicOf[t])
  /\ \E o \in ProcessStart("Entry") : SendProceeds(t, o)
  /\ UNCHANGED <<expired, loopVars, node, stored>>

\* The publish a send() call awaits is answered.
SendResumes(t) ==
  /\ node = "up" /\ sendPc[t] \in {"relay", "lightpush"}
  /\ \E o \in Outcomes(sendPc[t]) : SendProceeds(t, o)
  /\ UNCHANGED <<subscriptionVars, expired, loopVars, node, stored>>

\* The lightpush stream raises; send() was asyncSpawned, so the exception
\* becomes a FutureDefect and the program ends.
SendRaises(t) ==
  /\ MayRaise /\ node = "up" /\ sendPc[t] = "lightpush"
  /\ node' = "down"
  /\ UNCHANGED <<subscriptionVars, taskVars, timeVars, sendPc, loopVars, eventVars, stored>>
------------------------------------------------------------------------------
(* serviceLoop                                                              *)

\* trySendMessages: the round's tasks are chosen.
trySendMessages ==
  /\ tasksToSend' = {t \in taskCache : state[t] = "NextRoundRetry"}
  /\ loopPc' = "round"
  /\ UNCHANGED <<taskVars, timeVars, sendPc, loopTask, hashesToValidate, node,
                 eventVars, stored>>

\* startDeliveryService starts the subscription manager and the loop in one
\* go.  stopDeliveryService is followed by dropping the service, so it is
\* started once.
StartSendService ==
  /\ node = "up" /\ loopPc = "off"
  /\ startSubscriptionManager
  /\ trySendMessages

\* The loop wakes from its sleep.
NextRound ==
  /\ node = "up" /\ loopPc = "sleep"
  /\ trySendMessages
  /\ UNCHANGED subscriptionVars

\* The loop's current task moves on to outcome o of the chain.
LoopProceeds(t, o) ==
  /\ state' = [state EXCEPT ![t] = o.st]
  /\ settled' = NewSettled(t, o.st)
  /\ loopPc' = IF o.at = "end" THEN "round" ELSE o.at
  /\ loopTask' = IF o.at = "end" THEN NoTask ELSE t
  /\ UNCHANGED <<subscriptionVars, told, taskCache, expired, sendPc,
                 hashesToValidate, node, eventVars, stored>>

LoopSends(t) ==
  /\ node = "up" /\ loopPc = "round" /\ t \in tasksToSend
  /\ tasksToSend' = tasksToSend \ {t}
  /\ \E o \in ProcessStart(state[t]) : LoopProceeds(t, o)

LoopResumes ==
  /\ node = "up" /\ loopPc \in {"relay", "lightpush"}
  /\ \E o \in Outcomes(loopPc) : LoopProceeds(loopTask, o)
  /\ UNCHANGED tasksToSend

\* The exception leaves serviceLoop, whose future nobody awaits: the loop is
\* over.
LoopRaises ==
  /\ MayRaise /\ node = "up" /\ loopPc = "lightpush"
  /\ loopPc' = "failed" /\ loopTask' = NoTask
  /\ UNCHANGED <<subscriptionVars, taskVars, timeVars, sendPc, tasksToSend,
                 hashesToValidate, node, eventVars, stored>>

\* Mutant of evaluateAndCleanUp: failed tasks stay in the cache.
MutantEvaluateAndCleanUp(st) ==
  LET after(t) == StateAfterReport(t, st[t])
  IN  /\ Report(taskCache, st)
      /\ taskCache' = {t \in taskCache :
                         /\ after(t) # "SuccessfullyValidated"
                         /\ ~(t \in Ephemeral /\ after(t) = "SuccessfullyPropagated")}
      /\ loopPc' = "sleep"
      /\ hashesToValidate' = {}
      /\ UNCHANGED <<subscriptionVars, timeVars, sendPc, loopTask, tasksToSend,
                     node, stored>>

\* evaluateAndCleanUp, on the states st the store check left: every cached
\* task is reported, then the final ones and the propagated ephemeral ones
\* leave the cache.
evaluateAndCleanUp(st) ==
  LET after(t) == StateAfterReport(t, st[t])
  IN  /\ Report(taskCache, st)
      /\ taskCache' = {t \in taskCache :
                         /\ after(t) \notin Final
                         /\ ~(t \in Ephemeral /\ after(t) = "SuccessfullyPropagated")}
      /\ loopPc' = "sleep"
      /\ hashesToValidate' = {}
      /\ UNCHANGED <<subscriptionVars, timeVars, sendPc, loopTask, tasksToSend,
                     node, stored>>

tasksToValidate == {t \in taskCache : /\ state[t] = "SuccessfullyPropagated"
                                      /\ t \in settled
                                      /\ t \notin Ephemeral}

\* The round is over and there is nothing to ask a store for: the check is
\* off, no task is due, or no store peer is available.
SkipStoreCheck ==
  /\ node = "up" /\ loopPc = "round" /\ tasksToSend = {}
  /\ evaluateAndCleanUp(state)

\* Mutant of QueryStore: the tasks are asked for, not their hashes.
MutantQueryStore ==
  /\ node = "up" /\ loopPc = "round" /\ tasksToSend = {}
  /\ CheckStore /\ tasksToValidate # {}
  /\ loopPc' = "query"
  /\ hashesToValidate' = tasksToValidate
  /\ UNCHANGED <<subscriptionVars, taskVars, timeVars, sendPc, loopTask, tasksToSend,
                 node, eventVars, stored>>

\* checkMsgsInStore up to the query.
QueryStore ==
  /\ node = "up" /\ loopPc = "round" /\ tasksToSend = {}
  /\ CheckStore /\ tasksToValidate # {}
  /\ loopPc' = "query"
  /\ hashesToValidate' = {HashOf[t] : t \in tasksToValidate}
  /\ UNCHANGED <<subscriptionVars, taskVars, timeVars, sendPc, loopTask, tasksToSend,
                 node, eventVars, stored>>

QueryFails ==
  /\ node = "up" /\ loopPc = "query"
  /\ evaluateAndCleanUp(state)

\* Mutant of AfterStoreCheck: the two state changes are swapped.
MutantAfterStoreCheck(storedItems) ==
  [t \in Task |->
     IF t \in taskCache /\ HashOf[t] \in storedItems THEN "NextRoundRetry"
     ELSE IF t \in taskCache /\ HashOf[t] \in hashesToValidate THEN "SuccessfullyValidated"
     ELSE state[t]]

\* The states after the store answered with the hashes storedItems, some of
\* those it was asked for and has (a page may leave some out).
AfterStoreCheck(storedItems) ==
  [t \in Task |->
     IF t \in taskCache /\ HashOf[t] \in storedItems THEN "SuccessfullyValidated"
     ELSE IF t \in taskCache /\ HashOf[t] \in hashesToValidate THEN "NextRoundRetry"
     ELSE state[t]]

QueryAnswered ==
  /\ node = "up" /\ loopPc = "query"
  /\ \E storedItems \in SUBSET (hashesToValidate \cap stored) :
       evaluateAndCleanUp(AfterStoreCheck(storedItems))

\* stopSendService cancels the loop where it waits.  A cancellation that hits
\* a store query, or the dial of a lightpush peer, is turned into an error by
\* the catch there and changes nothing here (RecvService models what that
\* does to the caller of stop).
StopSendService ==
  /\ node = "up" /\ loopPc \in {"sleep", "relay", "lightpush"}
  /\ loopPc' = "stopped" /\ loopTask' = NoTask
  /\ UNCHANGED <<subscriptionVars, taskVars, timeVars, sendPc, tasksToSend,
                 hashesToValidate, node, eventVars, stored>>
------------------------------------------------------------------------------
(* Time and the store nodes.                                                *)

Expire(t) ==
  /\ node = "up" /\ sendPc[t] # "idle" /\ t \notin expired
  /\ expired' = expired \cup {t}
  /\ UNCHANGED <<subscriptionVars, taskVars, settled, sendPc, loopVars, node, eventVars, stored>>

Settle(t) ==
  /\ node = "up" /\ state[t] = "SuccessfullyPropagated" /\ t \notin settled
  /\ settled' = settled \cup {t}
  /\ UNCHANGED <<subscriptionVars, taskVars, expired, sendPc, loopVars, node, eventVars, stored>>

\* A store node archives a message that was propagated; ephemeral messages
\* are not archived.
StoreArchives(t) ==
  /\ node = "up" /\ state[t] = "SuccessfullyPropagated"
  /\ t \notin Ephemeral /\ HashOf[t] \notin stored
  /\ stored' = stored \cup {HashOf[t]}
  /\ UNCHANGED <<subscriptionVars, taskVars, timeVars, sendPc, loopVars, node, eventVars>>

Next ==
  \/ \E t \in Task : Send(t) \/ SendResumes(t) \/ SendRaises(t)
  \/ \E t \in Task : LoopSends(t)
  \/ StartSendService \/ NextRound \/ LoopResumes \/ LoopRaises
  \/ SkipStoreCheck \/ QueryStore \/ QueryFails \/ QueryAnswered
  \/ StopSendService
  \/ \E t \in Task : Expire(t) \/ Settle(t) \/ StoreArchives(t)

Spec == Init /\ [][Next]_sendVars

\* chronos resumes the loop when its sleep or its publish or query ends, and
\* libp2p ends every one of those (an idle stream is closed); time passes.
\* Nothing makes the application send, a store archive or answer, or the
\* service start or stop.
LoopStep ==
  \/ NextRound \/ LoopResumes \/ SkipStoreCheck \/ QueryFails \/ QueryAnswered
  \/ \E t \in Task : LoopSends(t)

Fairness ==
  /\ WF_sendVars(LoopStep)
  /\ \A t \in Task : WF_sendVars(Expire(t))

FairSpec == Spec /\ Fairness
------------------------------------------------------------------------------
(* Properties                                                               *)

TypeOK ==
  /\ SubscriptionTypeOK
  /\ state \in [Task -> DeliveryState]
  /\ told \subseteq Task /\ taskCache \subseteq Task
  /\ expired \subseteq Task /\ settled \subseteq Task
  /\ sendPc \in [Task -> {"idle", "relay", "lightpush", "done"}]
  /\ loopPc \in {"off", "round", "relay", "lightpush", "query", "sleep", "stopped", "failed"}
  /\ loopTask \in Task \cup {NoTask}
  /\ tasksToSend \subseteq Task /\ hashesToValidate \subseteq MsgHash
  /\ node \in {"up", "down"}
  /\ propagatedEvents \in [Task -> Nat]
  /\ sentEvents \in [Task -> Nat]
  /\ errorEvents \in [Task -> Nat]
  /\ stored \subseteq MsgHash

\* A request is told its result at most once and its propagation at most
\* once, however often the loop publishes it again.  Sent is a result here,
\* as reportTaskResult makes it one (told of a validated task, which then
\* leaves the cache), so a request that is told Error is never told Sent;
\* MESSAGE_EVENTS.md lets every Error follow a Sent (DocumentedFlow below).
ToldAtMostOnce ==
  \A t \in Task : propagatedEvents[t] <= 1 /\ sentEvents[t] + errorEvents[t] <= 1

\* Once a request was told Sent or Error nothing more is said about it: a
\* store answer or a publish that ends later never contradicts it.  This is
\* reportTaskResult's order, in which Sent comes last; MESSAGE_EVENTS.md puts
\* it first (DocumentedFlow below).
FinalIsLast ==
  [][\A t \in Task : sentEvents[t] + errorEvents[t] > 0 =>
        /\ propagatedEvents'[t] = propagatedEvents[t]
        /\ sentEvents'[t] = sentEvents[t]
        /\ errorEvents'[t] = errorEvents[t]]_sendVars

\* A task whose send() is over is in the cache, or was told its final
\* result, or is ephemeral and was told its propagation.  The exception is a
\* task that addUnique dropped because another one has the same hash.
NoSilentLoss ==
  \A t \in Task :
    (sendPc[t] = "done" /\ t \notin taskCache) =>
      \/ sentEvents[t] + errorEvents[t] = 1
      \/ t \in Ephemeral /\ propagatedEvents[t] = 1
      \/ \E u \in Task \ {t} : HashOf[u] = HashOf[t]

\* The application is told Sent only for a message that some store node has:
\* the event of a task that checkMsgsInStore validated.  MESSAGE_EVENTS.md
\* has it told for a message that was accepted (DocumentedFlow below).
SentOnlyIfStored == \A t \in Task : sentEvents[t] > 0 => HashOf[t] \in stored

\* What MESSAGE_EVENTS.md says of message_sent: it is told when the send
\* service accepts a message and queues it, and comes before its propagation
\* and before its error.  reportTaskResult does neither: a queued task is
\* told nothing, a propagated one no Sent, a failed one never any.
DocumentedFlow ==
  \A t \in Task :
    (t \in taskCache \/ propagatedEvents[t] + errorEvents[t] > 0) => sentEvents[t] > 0

\* Between two rounds every cached task is propagated or due in the next
\* round, so the loop will look at it again ("rely on retries"), but for one
\* case: without a relay, a first attempt that finds no lightpush peer runs
\* no processor and leaves its task in Entry, where only its age ends it.
CachedIsRetried ==
  loopPc \in {"off", "sleep"} =>
    \A t \in taskCache :
      \/ state[t] \in {"SuccessfullyPropagated", "NextRoundRetry"}
      \/ state[t] = "Entry" /\ ~RelayMounted

\* What LightpushSendProcessor says of a message that finds no peer: it is
\* pushed back for the next round.  process() does not run a processor that
\* has no peer, so the branch that would do it is not reached.
NoPeerIsRetried ==
  loopPc \in {"off", "sleep"} => \A t \in taskCache : state[t] # "Entry"

\* The application hears about every request that is in the cache: its
\* propagation or its result, unless the service is stopped.  This is what
\* the loop is there for; a stream that raises breaks it (send_raise).
CachedIsAnswered ==
  \A t \in Task :
    t \in taskCache ~> \/ propagatedEvents[t] + sentEvents[t] + errorEvents[t] > 0
                      \/ loopPc \in {"off", "stopped"}
                      \/ node = "down"

\* What the code does instead: a cached request is answered, or the loop is
\* over, stopped or ended by a stream that raised, or the program is.
AnsweredUnlessOver ==
  \A t \in Task :
    t \in taskCache ~> \/ propagatedEvents[t] + sentEvents[t] + errorEvents[t] > 0
                      \/ loopPc \in {"off", "stopped", "failed"}
                      \/ node = "down"

\* What makes the three invariants above inductive.  Only the call that owns
\* a task touches it: send() until it is done, then, if the task is cached,
\* the loop.  A cached task has no final result yet, and is never left in
\* SuccessfullyValidated between two steps.
Ownership ==
  /\ loopPc \in {"relay", "lightpush"} => loopTask \in taskCache
  /\ loopPc \in {"round", "relay", "lightpush"} => tasksToSend \subseteq taskCache
  /\ \A t \in taskCache : /\ sendPc[t] = "done"
                         /\ sentEvents[t] + errorEvents[t] = 0
                         /\ state[t] # "SuccessfullyValidated"
  /\ \A t \in Task : sendPc[t] # "done" =>
        sentEvents[t] = 0 /\ errorEvents[t] = 0 /\ t \notin told
  /\ \A t \in Task : propagatedEvents[t] = IF t \in told THEN 1 ELSE 0

\* Of every request the application hears what SendPromise allows, the
\* contract that reportTaskResult keeps and not the one MESSAGE_EVENTS.md
\* documents: nothing before it was made, Sent only of a message that a store
\* node has and that is not ephemeral, although a store's answer counts for
\* every task with the hash, and nothing after Sent or Error.
Said(t) == [propagated |-> propagatedEvents[t], sent |-> sentEvents[t], failed |-> errorEvents[t]]
Promise == INSTANCE SendPromise WITH
  Request <- Task,
  asked <- {t \in Task : sendPc[t] # "idle"},
  said <- [t \in Task |-> Said(t)],
  archived <- stored
KeepsPromise == Promise!Spec
==============================================================================
