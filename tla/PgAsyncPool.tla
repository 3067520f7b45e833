----------------------------- MODULE PgAsyncPool -----------------------------
(***************************************************************************)
(* The pool of Postgres connections (common/databases/db_postgres): the    *)
(* queries of one chronos thread share at most maxConnections of them. A   *)
(* connection is free when its future futBecomeFree is nil or finished;    *)
(* here a future has the name of the query that made it. A query that      *)
(* finds the pool full waits for one of the futures, and goes on in steps  *)
(* that chronos runs in the order in which they were scheduled: one()      *)
(* finishes, then getConnIndex picks a connection, then the query uses it. *)
(* libpq and the server appear as what they do with a connection, which    *)
(* takes one command at a time.                                            *)
(***************************************************************************)
EXTENDS Naturals, Sequences, FiniteSets, Functions

CONSTANTS
  MaxConnections,  \* maxConnections
  MaxQueries,      \* bound on the queries made
  MaxCloses        \* bound on the calls of close()

ASSUME PoolAssumption ==
  MaxConnections \in Nat \ {0} /\ MaxQueries \in Nat /\ MaxCloses \in Nat

Query == 1..MaxQueries
Conn == 1..MaxQueries
None == 0
Close == 0           \* who waits when it is close() that waits

VARIABLES
  conns,      \* pool.conns
  opened,     \* connections opened so far
  fut,        \* per connection: its futBecomeFree, None for nil
  future,     \* per query: "none" (not made), "pending", "completed" or "failed"
  prepared,   \* connections with the prepared statement
  command,    \* per connection: the query whose command is in progress
  reader,     \* per connection: the query that is registered for its data
  message,    \* connections whose pqErrorMessage is not empty
  lost,       \* connections that libpq has given up, and that have no socket
  made,       \* queries made so far
  stmt,       \* those made by runStmt
  pc,         \* per query: "new", "waits", "reads", "retrieves" or "done"
  on,         \* per query: the connection it uses
  waiting,    \* who waits for which futures, in the order of their calls
  ready,      \* what chronos is to run next
  closes,     \* calls of close() so far
  ended       \* "no" or what ended the process

\* History: a query has found all connections busy, at the limit; and a query was
\* started on a connection with a command in progress.
VARIABLES crowded, clash

poolVars == <<conns, opened>>
connVars == <<fut, prepared, command, reader, message, lost>>
queryVars == <<pc, on>>
madeVars == <<made, stmt>>
loopVars == <<waiting, ready>>
vars == <<poolVars, connVars, future, madeVars, queryVars, loopVars, closes, ended, crowded, clash>>

Init ==
  /\ conns = <<>> /\ opened = 0
  /\ fut = [c \in Conn |-> None] /\ future = [q \in Query |-> "none"]
  /\ prepared = {} /\ command = [c \in Conn |-> None] /\ reader = [c \in Conn |-> None]
  /\ message = {} /\ lost = {}
  /\ made = 0 /\ stmt = {} /\ pc = [q \in Query |-> "new"] /\ on = [q \in Query |-> None]
  /\ waiting = <<>> /\ ready = <<>>
  /\ closes = 0 /\ ended = "no" /\ crowded = FALSE /\ clash = FALSE

----------------------------------------------------------------------------
isPgDbConnBusy(c) == fut[c] # None /\ future[fut[c]] = "pending"

\* Of no connections, all are busy.
isBusy == \A c \in Range(conns) : isPgDbConnBusy(c)

\* Mutant: a busy connection is not passed over.
MutantFree(i) == i = 1

Free(i) == ~isPgDbConnBusy(conns[i]) /\ \A j \in 1..(i - 1) : isPgDbConnBusy(conns[j])

\* At most one.
getFirstFreeConnIndex == { i \in 1..Len(conns) : Free(i) }

----------------------------------------------------------------------------
(* A future is finished: each one() it is in, and each allFutures() of which it was the last, goes on. *)

GoesOn(w, f) == f \in w.futs /\ (w.who = Close => \A g \in w.futs \ {f} : future[g] # "pending")

\* The orders of some positions of a queue that leave it in order (there is one).
InOrder(I) == { p \in [1..Cardinality(I) -> I] : \A a, b \in DOMAIN p : a < b => p[a] < p[b] }

GoOn(f, queue) ==
  LET goes == { i \in DOMAIN waiting : GoesOn(waiting[i], f) }
  IN /\ \E p \in InOrder(goes) :
          ready' = queue \o [i \in DOMAIN p |-> [who |-> waiting[p[i]].who, step |-> "wake", index |-> 0]]
     /\ \E p \in InOrder(DOMAIN waiting \ goes) : waiting' = [i \in DOMAIN p |-> waiting[p[i]]]

\* Mutant: only success is told.
MutantFinish(f, how, queue) ==
  IF how = "failed" THEN ready' = queue /\ UNCHANGED <<future, waiting>>
  ELSE future' = [future EXCEPT ![f] = how] /\ GoOn(f, queue)

Finish(f, how, queue) ==
  /\ future' = [future EXCEPT ![f] = how]
  /\ GoOn(f, queue)

----------------------------------------------------------------------------
(* dbConnQuery and dbConnQueryPrepared up to their first await, after which the *)
(* connection has the command "inProgress" or that of q.                        *)

\* An error before the command is sent is libpq's, which leaves a message, or one
\* in the query's text or lengths, of which libpq does not know.
FailsAtOnce(q, c) ==
  /\ pc' = [pc EXCEPT ![q] = "done"] /\ message' \in {message, message \cup {c}}
  /\ UNCHANGED <<reader, on, lost>>

\* The command is sent and the query waits for the connection's data.  Chronos
\* refuses to watch only a socket it does not know, and openDbConn has registered
\* that of every connection with one.
Sent(q, c, inProgress) ==
  /\ inProgress = None /\ c \notin lost
  /\ fut' = [fut EXCEPT ![c] = q] /\ future' = [future EXCEPT ![q] = "pending"]
  /\ command' = [command EXCEPT ![c] = q] /\ reader' = [reader EXCEPT ![c] = q]
  /\ message' = message \ {c}
  /\ pc' = [pc EXCEPT ![q] = "reads"] /\ on' = [on EXCEPT ![q] = c]
  /\ UNCHANGED lost

\* Mutant: the future is left pending.
MutantNotSent(q, c, inProgress) ==
  /\ fut' = [fut EXCEPT ![c] = q] /\ future' = [future EXCEPT ![q] = "pending"]
  /\ command' = [command EXCEPT ![c] = inProgress]
  /\ FailsAtOnce(q, c)

\* It is not sent. The future is a new one, that nobody waits for yet.
NotSent(q, c, inProgress) ==
  /\ fut' = [fut EXCEPT ![c] = q] /\ future' = [future EXCEPT ![q] = "failed"]
  /\ command' = [command EXCEPT ![c] = inProgress]
  /\ FailsAtOnce(q, c)

\* The request id is not secure, or the statement cannot be prepared. The
\* connection keeps the future it has.
Refused(q, c, prepares) ==
  /\ pc' = [pc EXCEPT ![q] = "done"]
  /\ IF prepares
     THEN /\ command' = [command EXCEPT ![c] = None]
          /\ message' = message \cup {c}
          /\ lost' \in {lost, lost \cup {c}}
     ELSE UNCHANGED <<command, message, lost>>
  /\ UNCHANGED <<fut, future, reader, on>>

\* pgQuery or runStmt, once it has a connection. Preparing a statement waits for
\* the command in progress, if there is one, and drops its result.
UseConn(q, c, asStmt) ==
  LET prepares == asStmt /\ c \notin prepared
      inProgress == IF prepares THEN None ELSE command[c]
  IN /\ clash' = (clash \/ command[c] # None)
     /\ \/ /\ asStmt => prepares
           /\ Refused(q, c, prepares)
           /\ prepared' = prepared
        \/ /\ prepares => c \notin lost
           /\ Sent(q, c, inProgress) \/ NotSent(q, c, inProgress)
           /\ prepared' = IF prepares THEN prepared \cup {c} ELSE prepared

----------------------------------------------------------------------------
(* getConnIndex, and what follows when it need not wait. *)

\* A connection that is free is used at once.
TakesFree(q, asStmt) ==
  /\ ~isBusy
  /\ \E i \in getFirstFreeConnIndex : UseConn(q, conns[i], asStmt)
  /\ UNCHANGED <<poolVars, loopVars, crowded>>

\* Mutant: the limit is passed by one.
MutantOpensConn(q, asStmt) ==
  /\ isBusy /\ Len(conns) <= MaxConnections
  /\ conns' = Append(conns, opened + 1) /\ opened' = opened + 1
  /\ UseConn(q, opened + 1, asStmt)
  /\ UNCHANGED <<loopVars, crowded>>

\* All are busy but another connection may be opened ...
OpensConn(q, asStmt) ==
  /\ isBusy /\ Len(conns) < MaxConnections
  /\ conns' = Append(conns, opened + 1) /\ opened' = opened + 1
  /\ UseConn(q, opened + 1, asStmt)
  /\ UNCHANGED <<loopVars, crowded>>

\* ... which may fail.
OpenFails(q) ==
  /\ isBusy /\ Len(conns) < MaxConnections
  /\ pc' = [pc EXCEPT ![q] = "done"]
  /\ UNCHANGED <<poolVars, connVars, future, on, loopVars, crowded, clash>>

\* All are busy and no other may be opened.
WaitsForConn(q) ==
  /\ isBusy /\ Len(conns) = MaxConnections
  /\ waiting' = Append(waiting, [who |-> q, futs |-> { fut[c] : c \in Range(conns) }])
  /\ pc' = [pc EXCEPT ![q] = "waits"]
  /\ crowded' = TRUE
  /\ UNCHANGED <<poolVars, connVars, future, on, ready, clash>>

\* A query is made, by pgQuery or by runStmt.
Start(asStmt) ==
  /\ ended = "no" /\ made < MaxQueries
  /\ made' = made + 1
  /\ stmt' = IF asStmt THEN stmt \cup {made + 1} ELSE stmt
  /\ \/ TakesFree(made + 1, asStmt)
     \/ OpensConn(made + 1, asStmt)
     \/ OpenFails(made + 1)
     \/ WaitsForConn(made + 1)
  /\ UNCHANGED <<closes, ended>>

----------------------------------------------------------------------------
(* What chronos runs, in its order. *)

Runs(step) == ended = "no" /\ ready # <<>> /\ Head(ready).step = step

Then(h) == ready' = Append(Tail(ready), h)

\* one() or allFutures() is finished, and so the caller is to go on.
Wake ==
  /\ Runs("wake")
  /\ Then([Head(ready) EXCEPT !.step = IF Head(ready).who = Close THEN "close" ELSE "pick"])
  /\ UNCHANGED <<poolVars, connVars, future, madeVars, queryVars, waiting, closes, ended, crowded, clash>>

\* getConnIndex: the first connection that is free by now, or an error without a text.
PickConn ==
  /\ Runs("pick")
  /\ LET q == Head(ready).who
     IN \/ \E i \in getFirstFreeConnIndex :
             /\ Then([who |-> q, step |-> "use", index |-> i])
             /\ UNCHANGED pc
        \/ /\ getFirstFreeConnIndex = {}
           /\ pc' = [pc EXCEPT ![q] = "done"]
           /\ ready' = Tail(ready)
  /\ UNCHANGED <<poolVars, connVars, future, madeVars, on, waiting, closes, ended, crowded, clash>>

\* pgQuery or runStmt goes on with the index it was given.
UsePicked ==
  /\ Runs("use")
  /\ ready' = Tail(ready)
  /\ LET h == Head(ready)
     IN \/ /\ h.index <= Len(conns)
           /\ UseConn(h.who, conns[h.index], h.who \in stmt)
           /\ ended' = ended
        \/ /\ h.index > Len(conns)
           /\ ended' = "index"
           /\ UNCHANGED <<connVars, future, queryVars, clash>>
  /\ UNCHANGED <<poolVars, madeVars, waiting, closes, crowded>>

\* The server answers or goes away, and the query that is registered for the
\* connection's data is to go on.
DataArrives(c) ==
  /\ ended = "no"
  /\ command[c] # None /\ reader[c] # None /\ pc[reader[c]] = "reads"
  /\ pc' = [pc EXCEPT ![reader[c]] = "retrieves"]
  /\ ready' = Append(ready, [who |-> reader[c], step |-> "retrieve", index |-> 0])
  /\ UNCHANGED <<poolVars, connVars, future, madeVars, on, waiting, closes, ended, crowded, clash>>

\* waitQueryToFinish retrieves the results of the command in progress, whoever's
\* it is, and finishes the future the connection has by now. A failed one may stay
\* so, but no future may be finished twice.
Retrieve(failed) ==
  /\ Runs("retrieve")
  /\ LET q == Head(ready).who
         c == on[q]
         f == fut[c]
     IN /\ c \in Range(conns)
        /\ c \in message \cup lost => failed
        /\ command' = [command EXCEPT ![c] = None] /\ reader' = [reader EXCEPT ![c] = None]
        /\ IF failed THEN message' = message \cup {c} /\ lost' \in {lost, lost \cup {c}}
                     ELSE UNCHANGED <<message, lost>>
        /\ pc' = [pc EXCEPT ![q] = "done"]
        /\ \/ /\ future[f] = "pending"
              /\ Finish(f, IF failed THEN "failed" ELSE "completed", Tail(ready))
              /\ ended' = ended
           \/ /\ future[f] = "failed" /\ failed
              /\ ready' = Tail(ready)
              /\ UNCHANGED <<future, waiting, ended>>
           \/ /\ future[f] = "completed" \/ (future[f] = "failed" /\ ~failed)
              /\ ready' = Tail(ready)
              /\ ended' = "finished twice"
              /\ UNCHANGED <<future, waiting>>
  /\ UNCHANGED <<poolVars, fut, prepared, madeVars, on, closes, crowded, clash>>

\* The connection was closed in the meantime, and libpq has freed it.
RetrieveClosed ==
  /\ Runs("retrieve")
  /\ on[Head(ready).who] \notin Range(conns)
  /\ ended' = "freed"
  /\ UNCHANGED <<poolVars, connVars, future, madeVars, queryVars, loopVars, closes, crowded, clash>>

----------------------------------------------------------------------------
(* close(), which the driver calls when it is closed, and the health check to reset the pool. *)

\* Closing a connection ends its command, and nobody is told. One without a socket
\* cannot be closed, and for the callers this error is the end.
CloseAll ==
  \/ /\ Range(conns) \cap lost = {}
     /\ conns' = <<>>
     /\ command' = [c \in Conn |-> IF c \in Range(conns) THEN None ELSE command[c]]
     /\ reader' = [c \in Conn |-> IF c \in Range(conns) THEN None ELSE reader[c]]
     /\ ended' = ended
  \/ /\ Range(conns) \cap lost # {}
     /\ ended' = "not closed"
     /\ UNCHANGED <<conns, command, reader>>

close ==
  /\ ended = "no" /\ closes < MaxCloses
  /\ closes' = closes + 1
  /\ LET futs == { fut[c] : c \in Range(conns) }
     IN \/ /\ None \in futs
           /\ ended' = "nil"
           /\ UNCHANGED <<conns, command, reader, waiting>>
        \/ /\ None \notin futs /\ \E f \in futs : future[f] = "pending"
           /\ waiting' = Append(waiting, [who |-> Close, futs |-> futs])
           /\ UNCHANGED <<conns, command, reader, ended>>
        \/ /\ None \notin futs /\ \A f \in futs : future[f] # "pending"
           /\ CloseAll
           /\ waiting' = waiting
  /\ UNCHANGED <<opened, fut, prepared, message, lost, future, madeVars, queryVars, ready, crowded, clash>>

CloseGoesOn ==
  /\ Runs("close")
  /\ CloseAll
  /\ ready' = Tail(ready)
  /\ UNCHANGED <<opened, fut, prepared, message, lost, future, madeVars, queryVars, waiting, closes, crowded, clash>>

----------------------------------------------------------------------------
RunReady ==
  \/ Wake \/ PickConn \/ UsePicked \/ RetrieveClosed \/ CloseGoesOn
  \/ \E failed \in BOOLEAN : Retrieve(failed)

Next ==
  \/ \E asStmt \in BOOLEAN : Start(asStmt)
  \/ RunReady \/ close
  \/ \E c \in Conn : DataArrives(c)

Spec == Init /\ [][Next]_vars

\* chronos runs what is ready, and the server answers each connection or goes away.
Fairness == WF_vars(RunReady) /\ \A c \in Conn : WF_vars(DataArrives(c))

FairSpec == Spec /\ Fairness

----------------------------------------------------------------------------
\* The types, and the limit: the pool never has more than maxConnections
\* connections, whatever order queries, closes and wake-ups come in.
TypeOK ==
  /\ conns \in Seq(Conn) /\ Len(conns) <= MaxConnections /\ opened \in 0..made
  /\ fut \in [Conn -> Query \cup {None}]
  /\ future \in [Query -> {"none", "pending", "completed", "failed"}]
  /\ prepared \subseteq Conn /\ message \subseteq Conn /\ lost \subseteq Conn
  /\ command \in [Conn -> Query \cup {None}] /\ reader \in [Conn -> Query \cup {None}]
  /\ made \in 0..MaxQueries /\ stmt \subseteq Query
  /\ pc \in [Query -> {"new", "waits", "reads", "retrieves", "done"}]
  /\ on \in [Query -> Conn \cup {None}]
  /\ waiting \in Seq([who : Query \cup {Close}, futs : SUBSET Query])
  /\ ready \in Seq([who : Query \cup {Close}, step : {"wake", "pick", "use", "retrieve", "close"}, index : 0..MaxConnections])
  /\ closes \in 0..MaxCloses
  /\ ended \in {"no", "index", "freed", "finished twice", "not closed", "nil"}
  /\ crowded \in BOOLEAN /\ clash \in BOOLEAN

\* No connection leaks: on every error path futBecomeFree is finished, so that a
\* connection of the pool that counts as busy has a query that is going to finish
\* its future. (Where two queries met on a connection this is lost.)
NoLeak ==
  ~clash => \A c \in Range(conns) : isPgDbConnBusy(c) =>
    /\ on[fut[c]] = c /\ pc[fut[c]] \in {"reads", "retrieves"}
    /\ command[c] = fut[c] /\ reader[c] = fut[c]

\* As long as no query has found the pool full, a connection is never given to two
\* queries: it is picked and set busy without an await in between.
Exclusive == ~crowded => ~clash

\* Every query is answered in the end, those that waited for a connection too,
\* unless two queries met on a connection, or close() was called. (Only MaxQueries
\* queries are made, so there is a time when all have been.)
QueriesEnd == []<>(clash \/ closes > 0 \/ \A q \in 1..made : pc[q] = "done")

\* "Pick up the first free connection and set it busy" (pgasyncpool.nim:79). It is
\* not set busy: of two queries that were woken, or of one that was and a new one,
\* the second gets the connection of the first.
PickedIsFree == ~clash
=============================================================================
