# A verification project for logos-messaging-nim

TLA+ models of the parts of the node that carry its own logic, checked by TLC on small instances and, for the
safety properties that matter most, proved by TLAPS for every instance. `PROJECT.json` lists components, runs,
mutants, the lines each definition models, hazards, findings and theorems.

## 1. Inventory of the system

A node runs in one thread under chronos: code between two `await`s is atomic, and everything else interleaves. The
node's models take one such piece of code as one action. Programs that use the node as a C library have threads of
their own; there an action is what a thread does between two points at which the other can see it.

| part | state | operations | what is hard | what makes it correct |
|---|---|---|---|---|
| Send service (`node/delivery_service/send_service`) | `taskCache`, each task's state and times, the loop's position | `send`, the relay and lightpush processors, `serviceLoop`, the store check, reports, stop | many `send` calls and one loop share tasks across awaits; retries; a second request with the same hash; exceptions out of streams | one final event per request, nothing lost, Sent only for what is stored, every cached request answered |
| Receive service (`.../recv_service`) | `recentReceivedMsgs`, the checker's window and hashes | message seen, prune, check against a store, start, stop | the window is compared with a memory that changes during the queries; failed queries; cancellation | what was received is not missed, what was missed is reported, stop ends |
| Subscription manager (`.../subscription_manager.nim`) | interests per shard, the relay's mesh | subscribe, unsubscribe, start | a table key that outlives its interests is also the flag for "joined" | every interest is served by a mesh subscription |
| Filter service (`waku_filter_v2`) | peers with counts and last-seen times, criteria with peers, message cache | subscribe, unsubscribe, unsubscribe all, ping, maintenance, push | two tables updated separately, unsigned counts, deadlines that pass within a clean-up, partial failure | the tables agree, a promise is kept, limits hold |
| Filter client (`waku_filter_v2/client.nim`) | push handlers | requests, pushes | the server forgets silently | a lapsed client notices |
| Relay and its handler (`waku_relay`, `node/kernel_api/relay.nim`) | handlers and validators per topic | subscribe, publish, the handler chain | filter pushes are awaited before archive and sync | every consumer sees a message once |
| RLN (`waku_rln_relay`) | nonce window, nullifier log, roots | get a nonce, prove, validate, clear the log | a sliding nonce window against fixed epochs; epochs at the gap | an honest sender's messages are never spam, a double use is detected while it is accepted |
| Store sync (`waku_store_sync`) | sorted storage of ids, sessions, three queues | fingerprint, split, reconcile, transfer, prune | two nodes change their storage between rounds; sessions lost | both nodes end with the union of the range |
| Archive (`waku_archive`) | the driver's rows, partitions | put, page queries, retention | paging while rows are added and removed; capacity | pages cover the matching rows once; retention keeps the newest |
| Store, resume (`waku_store`) | last-online time | query, resume at start | crash before the time is saved, three failures | the offline window is fetched or stays to be fetched |
| Postgres pool (`common/databases/db_postgres`) | connections, busy futures | get a connection, query, reset | several waiters for one connection | one query per connection |
| Peer manager (`node/peer_manager`) | peer store, slots, back-off | connect, events, prune | back-off arithmetic, pruning during awaits | limits on connections and peers per IP |
| Rate limits (`common/rate_limit`) | token buckets, a timed map | check usage | linked list with stale links; two buckets | a peer's entry lives as long as its deadline says |
| Brokers (`common/broker`) | providers and listeners per context | emit, request, listen, drop | listeners change during an emit | a listener gets each event emitted while it is registered |
| REST cache (`rest_api/message_cache.nim`) | messages with two index lists | subscribe, add, get, unsubscribe | swap-deletes on three sequences | indices stay in step |
| C library and its clients (`library`, `liblogosdelivery`, `examples`) | requests under way, the event callback; a client's flag, condition and the variables its callbacks write | create, start, stop, calls, events, destroy; menus, waits, polling | callbacks run on the library's thread, before or after the wait for them, and write to variables that may be gone | a call returns after its own callback, what is read is fresh, no wake-up is lost |
| Lightpush, peer exchange, rendezvous, metadata, mix, noise, keystore, discovery, ENR, health, incentivization, factory, legacy protocols, apps | little or none of their own, or cryptography, I/O and glue | | | |

How they interact: the API calls the delivery service; its send half publishes through relay or lightpush and asks
store nodes; the relay's handler feeds filter, archive, sync and, through a `MessageSeenEvent`, the receive half,
which asks store nodes too; both halves share the subscription manager; service protocols find their peers through
the peer manager and pass the rate limiter first. RLN judges what relay and lightpush bring and gives the send half its
proofs. The archive's Postgres driver has two pools, one for reads and one for writes.

## 2. Plan

Done, in this order, each with proofs: `SubscriptionManager`,
`SendService`, `FilterSubscriptions`, `WakuFilter`, `RecvService`; `FfiClient` with its four programs; `WakuRlnRelay`;
`PgAsyncPool`. To do, most important first:

1. `Reconciliation` and `SyncTransfer`: range processing as pure operators against a reference difference of sets,
   then two nodes with loss of sessions; refinement of an abstract "both get the union"; termination under fairness.
2. `TimedMap` (linked list) as a refinement of an abstract map with deadlines, and `RequestLimiter` on top.
3. `Archive`: the paging contract, the queue driver, retention; `StoreResume` with crashes on top of it.
4. `RelayHandler`: composition of WakuFilter, Archive and RecvService through the handler chain.
5. `MessageCache`, `PeerManager`, brokers.

Abstract specifications worth stating: synchronous calls for the C client (done: `SyncCalls`), what the
send service promises the application (done: `SendPromise`), a map with deadlines for TimedMap and the filter's tables, set union for store sync.
Theorems worth proving next: the reconciliation step (every differing id stays inside an unresolved range), the timed
map's refinement.

## 3. Modules

**SubscriptionManager** (`subscription_manager.nim`). `contentTopicSubs` is the table; `mesh` the shards the relay
joined. `subscribe`, `unsubscribe`, `startSubscriptionManager` are the procedures, used as conjuncts by the modules
that extend it. Errors change nothing and are disabled actions.

**SendService** extends it. A `Task` is the DeliveryTask of one accepted `send()`; `HashOf` lets two tasks share a
hash, which `addUnique` treats as equal. `ProcessStart`, `RelayOutcomes`, `LightpushOutcomes` are the chain of
processors between its awaits. `Send`, `SendResumes` and `SendRaises` are the call; `NextRound`, `LoopSends`,
`LoopResumes`, `SkipStoreCheck`, `QueryStore`, `QueryFails`, `QueryAnswered` and `LoopRaises` are the loop;
`Report` is `reportTaskResult` and `evaluateAndCleanUp` runs it on the whole cache. The two ages of a task are sets
that grow (`expired`, `settled`), so every order of ageing and of steps is covered. Events are counted.
**SendPromise** is the abstract specification: of each request made, the application may hear that it was propagated,
once, and one result, which is the last; the result is "sent" only for a message that a store node has and that is not
ephemeral. `Promise` of SendService is the refinement mapping: a request is made when its `send()` begins, the events
are the counts, the archive is the stores'. One round of the loop tells of several requests in one step. This is what
`reportTaskResult` promises, where Sent is the last word on a request that a store validated; `MESSAGE_EVENTS.md`
describes another flow, `DocumentedFlow`, which the code does not keep (section 5).

**FilterSubscriptions** has the two tables and **WakuFilter** the requests, the maintenance and the pushes.
`lastSeen` is abstracted to `stale`. `cleanUp` reads the clock for the first table and again for each criterion:
with `ClockMoves` any deadlines may pass in between. `peerStore` is the peers that the node's peer store has with the
filter push protocol; `PeerIdentified` and `PeerForgotten` are the peer manager's doing, at any time, and the
maintenance takes their subscriptions from the peers that are missing. `belief` is what a peer can conclude from the
answers it got, its own requests and timeouts, and from being in the peer store: it is "yes" only as long as the peer
is there, whether or not a maintenance has looked.

**RecvService** extends SubscriptionManager. `BeginCheck`, `QueryAnswered`/`QueryFails`, `FetchAnswered`/
`FetchFails` are `msgChecker`; `MessageSeen` the listener; `Prune` the pruner. The clock is a bounded counter; a
message has the timestamp its sender gave it. Queries return a page of the newest matches (`Page`), and a query
without hashes matches everything, as in the archive. `received`, `reported`, `lost` and `since` are history, written and
never read by the actions; `lost` is what a check asked for and did not get, as its query or its fetch failed or its
page was full.

**FfiClient** is a client program with its thread and the library's. A program is data: the steps of its `main` and
of the commands in its menu, and for each call the parts of its callback's body. `Post` and `PostFails` are a call
that the library takes or refuses (then the callback runs at once); `Answer` is the library's thread that handles a
request and starts its callback, `Emit` the same for an event, and `CallbackChecks`, `CallbackSignals`,
`CallbackStores`, `CallbackShows` the parts of a callback, between which the client's thread may move.
`waitForCallback` and `signal_cond` are the condition variable, spurious wake-ups included. A variable of a block has
activations (`frame`), a call captures the activation it will write to, and a write to one that is gone reaches
nothing or the variable that has its place now. A sleep is no step: the steps around it may be any time apart anyhow.
`EncodeMessage` of the C++ program sends the encoding and what stands in memory behind it up to a zero byte
(`Leftover`), as `base64.cpp` writes no terminator and `waku.cpp` prints the vector with `%s`. `WakuExampleC`, `WakuExampleCpp`, `LogosExample` and `WakuJni` are
the programs; `Base64`, `JsonUtils` and `LogosEvents` are what they do with messages and events, byte by byte where
a property is about the bytes. `SyncCalls` is the abstract specification: calls that are begun, answered and returned
one at a time. `Sync` of FfiClient is the refinement mapping. `Disciplined`, `AwaitsNode` and `ChecksNode` describe how
a program is written: every call awaited; the first call makes the node and is awaited, and the program ends when it
fails; no request is made before a look at the variable in which the creation leaves its answer. Assumptions of
`WakuExampleC` and `LogosExample` say which of the examples is written in which way, and TLC evaluates them.

**WakuRlnRelay** is a group of nodes. `getNonce`, `Prove`, `ProveFails`, `Publish` are the nonce manager and the
message callback of lightpush, with time passing between the proof and the node's own judgement; `Arrive` is the
validator of another node with `updateLog` and `clearNullifierLog`; `PublishCarelessly` a member that follows no
rules; `Tick` the time. Each node's clock is `Ahead` of true time by its own amount. A message carries its nullifier,
that is its sender, epoch and nonce, and a share, here its number.

**PgAsyncPool** is the pool of connections. A future is named after the query that made it; `waiting` are the calls of
`one` and `allFutures`, `ready` is the queue of chronos. `Start` is a query up to its first await, `Wake`, `PickConn`
and `UsePicked` a query that had to wait, `DataArrives` and `Retrieve` the end of one, `close` and `CloseGoesOn` a
close or a reset. libpq takes one command per connection, refuses a second one, and waits for the first and drops its
result to prepare a statement. `ended` says how the process ended, where the code leads to that.

`MCSendService`, `MCWakuFilter`, `MCRecvService`, `MCFfiClients` and `MCWakuRlnRelay` give the constants values that
are not numbers. `...Proofs` hold the theorems.

## 4. Runs

| run | instance | result |
|---|---|---|
| `send_core` | 3 requests, 2 of one hash of which 1 is ephemeral; relay, lightpush, store check, streams that raise; fair | pass |
| `send_raise` | 2 requests, fair, streams that raise | violation: the loop dies and nobody is answered |
| `send_events` | the flow of `MESSAGE_EVENTS.md` | violation: a request is queued, propagated or failed without `message_sent` |
| `send_lightpush` | lightpush only | violation: a message that finds no peer is not pushed back for the next round |
| `filter_core` | 2 peers, 2 criteria, 1 message, moving clock, peers that come to and leave the peer store | pass |
| `filter_limits` | limits of 1 peer and 2 of 4 criteria, requests of up to 3, clock still during clean-ups | pass |
| `recv_core` | 2 topics on 2 shards, 2 messages at times 0 and 1, pages of 1, failing queries, life 3, overlap 1, clock to 3 | pass |
| `recv_stop` | fair | violation: stop waits for a checker that goes on |
| `ffi_clients` | four programs, two commands, one event, buffers of 4, spurious wake-ups, one round of polling, fair | pass |
| `rln_core` | two members, one careless, one clock a second ahead, epochs and gap of 2 s, limit 2, 3 messages, from second 6 to 9 | pass |
| `pool_core` | 2 connections, 4 queries, plain or prepared, failures and one close, fair | pass |
| `pool_busy` | 1 connection, 3 queries | violation: a connection is picked that is in use when it is used |

Why the bounds suffice. Requests interact only through a shared hash, the cache and the loop, so two with one hash
and one without cover the pairs; one of the two is ephemeral, so that a store's answer for the other meets it. Peers
interact through a shared criterion and the peer limit: two of each. Four criteria, a limit of two and requests of up
to three let a peer stay below its limit, reach it by a second request, be refused, and pass it by its first request
alone, which is the second case of `CriteriaWithinLimit`. Two messages of one topic and pages of one are enough for a
page that is full; the clock lets a message be forgotten while a check runs, and two windows pass. A client program
has one call under way at a time or never waits, so its second command meets everything its first left behind;
messages of two and four bytes leave two bytes and one for the last group of base64, with bytes on both sides of 128
and in memory behind the C++ text nothing or more characters (`EncodingIsDecoded` covers all lengths); strings and
payloads lie below, at and above buffers of four. For RLN two messages may share a nonce and a third lies an epoch further, with the
borders at 6 and 8 inside the run; the exceptions in `HonestIsNotSpam`, `DoubleUseIsCaught` and `RateLimitHolds` are needed, without them
TLC finds the epoch border that they speak of. Four queries on two connections let two of them wait at once, two be
woken by one future, and a new one come in between.

Deadlock is not checked where the system may stop: the send service may end or have nothing left to do, a client
program ends, and the numbers of messages, queries and seconds are bounded.

**Fairness.** `SendService.Fairness` is weak fairness of the loop's steps, because chronos resumes a task when its
timer or future completes and libp2p ends a publish or a query (an idle stream is closed), and of `Expire`, because
time passes. Nothing makes the application send, a store archive, or the service start. `RecvService.FairSpec` is
weak fairness of the checker's steps, for the same reason. `FfiClient.Fairness` is weak fairness of each of the two
threads: the operating system schedules both, and the library's answers requests and runs callbacks; no event,
command or spurious wake-up is assumed. `PgAsyncPool.Fairness` is weak fairness of what chronos has
ready and of each connection's answer, where a server that goes away counts as an answer; queries and closes are not
assumed.

**MissedWereNotReceived and the real periods.** With `MaxMessageLife` 7 min, `StoreCheckPeriod` 5 min and
`DelayExtra` 5 s, a received message is taken for missed only by a check whose queries last about 115 s or more.

## 5. Findings

* `send_raise` `sendPushRequest` catches only a remote close; any other stream error leaves `serviceLoop`, whose
  future nobody awaits.
* `send_events` `MESSAGE_EVENTS.md` (lines 10 and 101 to 113) has `message_sent` told of each request that the send
  service accepts and queues, before its propagation and before its error. `reportTaskResult` tells it last and only of
  a task that a store node validated: a queued request is told nothing, a failed one never Sent. `ToldAtMostOnce`,
  `FinalIsLast`, `SentOnlyIfStored` and `KeepsPromise` state what the code does.
* `send_lightpush` `LightpushSendProcessor` says that a message without a peer is "pushed back for next round", but
  `process()` has made the same choice of a peer before and does not run it: the task stays in Entry, which
  `trySendMessages` does not pick, and ends as too old. `CachedIsRetried` says that this is the only such case.
* `recv_stop` a cancellation that hits a store query or a dial becomes a failed attempt.
* `pool_busy` `getFirstFreeConnIndex` does not set the connection busy, as its comment says; between its return and
  the use of the index lies an await. The second query is refused, and with the future it leaves on the connection
  those who wait for the first one are never woken. `Exclusive` says that this needs a full pool.

Seen while modelling, not stated as runs.

Send and receive: the checker's window advances although a query, or the fetch, failed; with nothing missed the fetch has
no hashes, hence no filter, and a page of the store is reported; a propagated task is never aged out of the cache when no store check is
made (`send_service.nim:188` against `:40`); the error event of a relay-only node without peers has no description; both store queries of the receive
service take one page and follow no cursor; `rxTime` is the sender's timestamp, so a message that arrives a life late
is forgotten at once.

Filter: `addSubscription` and `removeSubscription` set `lastSeen` of an entry that has lapsed but is not cleaned up
yet, so that a lapsed peer's old criteria come back; a new peer's first filter request
is not compared with `maxCriteriaPerPeer`, so that with a `filter-max-criteria` below what one request may name a peer
holds more than the "maximum number of ... combination per peers" of `cli_args.nim:454`; the maintenance removes a peer
that is missing from the peer store before its timeout, and does not tell it; `cleanUp`'s two clock reads can leave a count that is too high, so
`CountIsExact` holds only while the clock stands still.

Clients: a callback made by `cify` (`waku.cpp:124`) signals before it runs its closure, so `main` may use a value that
is still being written, and as the closure is static, the second publish writes to the first one's variable; a JNI
function passes the address of a local variable to a call it does not wait for (`waku_ffi.c:187`), so the answer is
written to a frame that is gone, and the caller is told "ok" meanwhile; the polling example waits 60 rounds of 100 ms
and says sixty seconds; `base64.cpp` reads signed characters, so bytes above 127 are encoded wrongly, and
reserves a place for a terminator but does not write it, while `waku.cpp:217` prints the text with `%s`, so that what is
sent goes on with what stands in memory.

RLN: a message whose epoch is exactly the gap away is accepted although the log of its epoch is dropped at the same
judgement; time between a proof and the node's own judgement may bring it over an epoch border, where a message of
that node can count as a double use; a message made before and proved after a border is refused, as the proof's epoch
is not the timestamp's.

Pool: `close()` waits for the futures it found, so queries that start meanwhile hang, use an index that is gone, or
read from a connection that was freed; a connection whose first statement was not prepared has a nil future, at which
`close()` fails; a connection without a socket cannot be closed, so `resetConnPool` fails just when the server has
gone away; a woken query that finds no connection free gets an error without a text.

## 6. What is proved

All theorems are for arbitrary sets and numbers that satisfy the named assumptions (`SubscriptionAssumption`,
`SendAssumption`, `FilterAssumption`, `RequestAssumption`, `RecvAssumption`, `ProgramsAreWritten`, `BytesAreTyped`,
`EventsAreWritten`, `BuffersAreGiven`, `RlnAssumption`, `PoolAssumption`), none of which restricts
more than the types, finiteness, and that a send service has a relay or a lightpush client. What a theorem assumes
beyond that is in its statement and named below.

* **SendServiceProofs**: `TypeCorrect`, `EventsAreUnique`, `NothingIsLost`, `SentIsStored`, `FinalResultIsLast`,
  `TasksAreOwned`, `CachedTasksAreRetried`, `PromiseIsKept`.
  None of the invariants is inductive: a task could be reported by `send()` and the loop at once. `IInv` adds
  `Ownership`: only the call that holds a task touches it, a cached task has had no final event, and the loop's
  round only holds cached tasks. `send_core` checks it. `CachedTasksAreRetried` is for every node; its exception, a
  task in Entry on a node without relay, is in the statement. It adds `Retried`, which says what holds in the middle
  of a round: all cached tasks but the loop's current one have been attempted, with the same exception. `PromiseIsKept` is the refinement of
  `SendPromise`. It adds `PInv`: the cache has one task per hash, the hashes asked for are those of cached tasks that
  are not ephemeral, and nothing happens to a task before its `send()`. A store's answer is applied to every task with
  the hash, so without the first two an ephemeral request could be told Sent; with `addUnique` dropped TLC shows it.
* **WakuFilterProofs**: `FilterTypeCorrect`, `TablesConsistent`, `PromisesAreKept`, `NoUnwantedSubscription`,
  `FirstCopyIsPushed`, `LimitsHold`, `PeersLimitHolds`, `CountStaysExact`. `FInv` is the conjunction of the invariants; `CountCovers` carries it: as the
  count is never less than the number of criteria, removing one cannot wrap it around, and an entry is deleted only
  with its last criterion. Its conjunct `Listed` ties a belief to the peer store, so that a maintenance takes
  nothing that was promised. `LimitsHold` and `PeersLimitHolds` are for all limits and add `CountsWithinLimit`: a count is at
  most the larger of the limit and what one request may name. `CountStaysExact` assumes that no deadline passes between `cleanUp`'s two reads
  of the clock.
* **RecvServiceProofs**: `RecvTypeCorrect`, `InterestsAreMeshed`, `MissedUnlessSlow`, `NothingIsMissed`. `RInv`
  adds that interests are filed under their shard with a known start, that only messages older than a life are
  forgotten, and that what a check found lies in its window. `NothingIsMissed` is for queries that
  fail and pages of any size, with what they cost (`lost`) in its statement; its invariant `InCheck` says that a running
  check has found, or will still ask for, every message its window is the last to cover and that is not lost.
* **FfiClientProofs**: `CallsAreAwaited`, `ReadsAreFresh`, `CallsAreSynchronous`, for every disciplined program
  (`Disciplined`: it waits for every call by a callback that signals last, ends when a call fails, and has only global
  variables), every set of messages and events and without the bounds. The invariant `Inv` lists the phases a call
  goes through: posted, answered with the callback's body partly run, signalled, and says in each what the flag, the
  thread and the variables are; in none of them is the flag set for a call that is over. `CallsAreSynchronous` maps
  each step to a step of `SyncCalls` or a stutter. For every program, disciplined or not: `TypeCorrectness`, from
  `TInv`, which says that requests and callbacks under way belong to calls that were made and what their code is; and
  `PayloadsDecode`: the payload of the C program is the base64 of what was typed, and that of the C++ program begins
  with it, for whatever memory holds behind it. `NodeComesFirst` is for programs
  that await the creation of the node (`AwaitInv`: until its answer the first call is the only one, and its answer is an
  error that ends the program or the node is there) and for those that look at its answer (`CheckInv`: the variable says
  "ok" only once the node is there, and it goes only with the program's last requests).
  `EventsAreShown`: what the example shows of an event is the event, cut to the buffers, for strings without marks,
  payloads of any length and buffers of any size; its invariant says that an event is kept with what its text reads as.
* **EncodingProofs**: `EncodingIsDecoded`, `CppEncodingIsDecoded`: decoding gives back what `base64.c` encodes, for every
  sequence of bytes, and the part that `base64.cpp` has written of its text, if no byte is negative as a plain `char`,
  whatever follows it in memory. The encoders are written
  per position, not by recursion, so that a group of three bytes and one of four digits can be compared by arithmetic. `EventIsShown` does the same
  for `toFlatJson` and the readers of `json_utils.c`: each part of the text stands at a place (`Stands`), nothing
  before it is its key (`Lacks`), so the reader finds it there (`FieldIsRead`, `ObjectIsRead`, `ArrayIsRead`); the
  quote, brace or bracket that ends it is the first one after it because the strings have none.
* **WakuRlnRelayProofs**: `TypeCorrectness`, `SpamIsCaught`, `RateIsLimited`, `HonestAreSafe`, `LogStaysBounded`, `NonceNotThrice`,
  for any clocks, epochs, gaps and limits. `IInv` adds that what a node accepted is on the wire and was logged (`WireIsAccepted`,
  `LoggedFromWire`), that a nullifier stays in the log as long as a second use of it is in time (`Remembered`), and
  that the log's epochs lie in a window (`LogWindow`). `RateIsLimited` counts: what a node accepted in time of one member
  and epoch has different nonces by `SpamIsCaught`, and these are below the limit (`JudgedInLimit`). `NonceNotThrice` needs what the nonce manager remembers: `NonceInv`
  says that a message is new and judged once by its own node (`JudgedOnce`), that the manager's time or its nonce is past
  every nonce it gave (`NoncesMoveOn`), that after a second use of a nullifier its epoch is behind or its nonce past
  (`SecondIsLast`), and hence that there is no third (`NoThird`).
* **PgAsyncPoolProofs**: `TypeCorrectness`, `NothingLeaks`, `PickedAtOnceIsFree`, for any number of connections, queries
  and closes. `IInv` adds who is in a queue and at which stage (`Waiters`), that a query is in one queue and once
  (`Once`), that a query waits only once the pool has been full (`Crowd`), that a connection has no future or command
  before it is opened (`Unopened`), that a future was made by a query that was given the connection (`Owners`), and that
  as long as no two queries met on a connection, one that counts as free has no command in progress (`FreeIsIdle`).
* **SubscriptionManagerProofs**: lemmas about the manager's procedures that the other two use.

Only model-checked: liveness under fairness (`AnsweredUnlessOver`, `CallsReturn`, `ExampleEnds`, `QueriesEnd`), which
this prover does not reach; and the counterexamples to `CachedIsAnswered`, `DocumentedFlow`, `NoPeerIsRetried`, `StopEnds`
and `PickedIsFree`.

## 7. What is not modelled

Message contents, encodings, logging, metrics; libp2p (gossip, streams, dialling), which appears as outcomes of a
call; databases behind the archive; cryptography; the Node.js, Qt and iOS examples, which call functions that the headers of
this commit do not have or pass arguments in another order; JNI functions of which the same is true; and the components of section 2's list, until they are reached.
`peerConnections` of the filter service is left out because nothing but its deletion touches it. Nothing in
the project is recursive: texts are built by position, so that they can be reasoned about.
