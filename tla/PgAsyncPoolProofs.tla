-------------------------- MODULE PgAsyncPoolProofs --------------------------
(***************************************************************************)
(* For any number of connections, queries and calls of close(): the limit, *)
(* that no connection leaks, and when one may be shared.                   *)
(***************************************************************************)
EXTENDS PgAsyncPool, SequenceTheorems, FiniteSetTheorems, TLAPS

\* What a query that is in a queue has come to: it still seeks a connection, or
\* the data of its connection have arrived.
Stage(h) == IF h.step = "retrieve" THEN "retrieves" ELSE "waits"

\* Only a query picks a connection, and what it picked is one.
Sound(h) ==
  /\ h.step \in {"pick", "use", "retrieve"} => h.who # Close
  /\ h.step = "use" => h.index # 0

Waiters ==
  /\ \A i \in 1..Len(waiting) : waiting[i].who # Close => pc[waiting[i].who] = "waits"
  /\ \A i \in 1..Len(ready) :
       /\ Sound(ready[i])
       /\ ready[i].who # Close => pc[ready[i].who] = Stage(ready[i])

\* Each query is in one place: it is woken once, and goes on once.
Once ==
  /\ \A i, j \in 1..Len(waiting) :
       waiting[i].who # Close /\ waiting[i].who = waiting[j].who => i = j
  /\ \A i, j \in 1..Len(ready) :
       ready[i].who # Close /\ ready[i].who = ready[j].who => i = j
  /\ \A i \in 1..Len(waiting), j \in 1..Len(ready) :
       ready[j].who # Close => ready[j].who # waiting[i].who

\* A query waits only once the pool has been full, and none that is still to be
\* made has done anything.
Crowd ==
  /\ \A q \in Query : pc[q] = "waits" => crowded
  /\ \A q \in Query : q > made => pc[q] = "new"

\* A connection that is still to be opened has no future and no command.
Unopened ==
  /\ \A c \in Range(conns) : c <= opened
  /\ \A c \in Conn : c > opened => fut[c] = None /\ command[c] = None

\* A future was made by a query that had been given the connection.
Owners == \A c \in Conn : fut[c] # None => pc[fut[c]] \in {"reads", "retrieves", "done"}

\* As long as no two queries met on a connection, one that counts as free has no
\* command in progress.
FreeIsIdle == ~clash => \A c \in Range(conns) : ~isPgDbConnBusy(c) => command[c] = None

IInv == TypeOK /\ Waiters /\ Once /\ Crowd /\ Unopened /\ Owners /\ NoLeak /\ FreeIsIdle /\ Exclusive
------------------------------------------------------------------------------
LEMMA RangeOfConns ==
  ASSUME NEW s \in Seq(Conn)
  PROVE  Range(s) = { s[i] : i \in 1..Len(s) } /\ Range(s) \subseteq Conn
BY LenProperties, ElementOfSeq DEF Range

LEMMA RangeOfAppend ==
  ASSUME NEW s \in Seq(Conn), NEW c \in Conn
  PROVE  Append(s, c) \in Seq(Conn) /\ Range(Append(s, c)) \subseteq Range(s) \cup {c}
<1>1. Append(s, c) \in Seq(Conn) /\ Len(Append(s, c)) = Len(s) + 1
  OBVIOUS
<1>2. \A i \in 1..Len(s) + 1 : Append(s, c)[i] = IF i <= Len(s) THEN s[i] ELSE c
  OBVIOUS
<1>3. Range(Append(s, c)) = { Append(s, c)[i] : i \in 1..Len(s) + 1 } /\ Range(s) = { s[i] : i \in 1..Len(s) }
  BY <1>1, RangeOfConns
<1>4. QED BY <1>1, <1>2, <1>3

LEMMA Counters ==
  ASSUME TypeOK
  PROVE  made \in Nat /\ opened \in Nat /\ opened <= made /\ made <= MaxQueries
<1>1. made \in 0..MaxQueries /\ opened \in 0..made
  BY DEF TypeOK
<1>2. QED BY <1>1, PoolAssumption

LEMMA InitHolds == Init => IInv
<1> SUFFICES ASSUME Init PROVE IInv OBVIOUS
<1>1. conns = <<>> /\ waiting = <<>> /\ ready = <<>> /\ made = 0 /\ opened = 0
      /\ fut = [c \in Conn |-> None] /\ command = [c \in Conn |-> None]
      /\ pc = [q \in Query |-> "new"] /\ clash = FALSE
  BY DEF Init
<1>2. Range(conns) = {}
  BY <1>1 DEF Range
<1>3. TypeOK
  <2>1. /\ conns \in Seq(Conn) /\ Len(conns) <= MaxConnections /\ opened \in 0..made
        /\ waiting \in Seq([who : Query \cup {Close}, futs : SUBSET Query])
        /\ ready \in Seq([who : Query \cup {Close}, step : {"wake", "pick", "use", "retrieve", "close"},
                          index : 0..MaxConnections])
    BY <1>1, PoolAssumption, EmptySeq
  <2>2. made \in 0..MaxQueries /\ closes \in 0..MaxCloses /\ stmt \subseteq Query
    BY PoolAssumption DEF Init
  <2>3. QED BY <2>1, <2>2 DEF Init, TypeOK
<1>4. Waiters /\ Once /\ Crowd
  BY <1>1, EmptySeq DEF Waiters, Once, Crowd
<1>5. Unopened /\ Owners /\ NoLeak /\ FreeIsIdle /\ Exclusive
  BY <1>1, <1>2 DEF Unopened, Owners, NoLeak, FreeIsIdle, Exclusive
<1>6. QED BY <1>3, <1>4, <1>5 DEF IInv
------------------------------------------------------------------------------
(* A query uses a connection of the pool. *)

Used(q, c) ==
  /\ fut' \in [Conn -> Query \cup {None}] /\ command' \in [Conn -> Query \cup {None}]
  /\ future' \in [Query -> {"none", "pending", "completed", "failed"}]
  /\ reader' \in [Conn -> Query \cup {None}] /\ on' \in [Query -> Conn \cup {None}]
  /\ prepared' \subseteq Conn /\ message' \subseteq Conn /\ lost' \subseteq Conn
  /\ clash' \in BOOLEAN
  /\ pc' \in {[pc EXCEPT ![q] = "reads"], [pc EXCEPT ![q] = "done"]}
  /\ fut'[c] \in {fut[c], q}
  /\ \A d \in Conn \ {c} : fut'[d] = fut[d] /\ command'[d] = command[d]

LEMMA UseConnTypes ==
  ASSUME TypeOK, NEW q \in Query, NEW c \in Conn, NEW asStmt, UseConn(q, c, asStmt)
  PROVE  Used(q, c)
<1>1. /\ prepared' \subseteq Conn
      /\ clash' \in BOOLEAN
  BY DEF UseConn, TypeOK
<1>2. ASSUME NEW prepares, Refused(q, c, prepares)
      PROVE  Used(q, c)
  BY <1>1, <1>2 DEF Used, Refused, TypeOK, None
<1>3. ASSUME NEW inProgress \in Query \cup {None}, Sent(q, c, inProgress)
      PROVE  Used(q, c)
  BY <1>1, <1>3 DEF Used, Sent, TypeOK, None
<1>4. ASSUME NEW inProgress \in Query \cup {None}, NotSent(q, c, inProgress)
      PROVE  Used(q, c)
  BY <1>1, <1>4 DEF Used, NotSent, FailsAtOnce, TypeOK, None
<1>5. QED BY <1>2, <1>3, <1>4 DEF UseConn, TypeOK, None

LEMMA UseConnKeeps ==
  ASSUME IInv, NEW q \in Query, NEW c \in Conn, NEW asStmt, UseConn(q, c, asStmt),
         pc[q] \in {"new", "waits"},
         Range(conns') \subseteq Range(conns) \cup {c},
         c \in Range(conns) \/ (fut[c] = None /\ command[c] = None)
  PROVE  NoLeak' /\ FreeIsIdle'
<1> SUFFICES ASSUME ~clash' PROVE NoLeak' /\ FreeIsIdle'
  BY DEF NoLeak, FreeIsIdle
<1>1. ~clash /\ command[c] = None
  BY DEF UseConn, IInv, TypeOK
<1>r. Range(conns) \subseteq Conn
  BY RangeOfConns DEF IInv, TypeOK
<1>2. ASSUME NEW d \in Range(conns)
      PROVE  /\ isPgDbConnBusy(d) =>
                  /\ d # c /\ fut[d] # q /\ fut[d] \in Query
                  /\ on[fut[d]] = d /\ pc[fut[d]] \in {"reads", "retrieves"}
                  /\ command[d] = fut[d] /\ reader[d] = fut[d]
             /\ ~isPgDbConnBusy(d) => command[d] = None
  <2>1. fut[d] \in Query \cup {None}
    BY <1>r DEF IInv, TypeOK
  <2>2. /\ isPgDbConnBusy(d) =>
             /\ on[fut[d]] = d /\ pc[fut[d]] \in {"reads", "retrieves"}
             /\ command[d] = fut[d] /\ reader[d] = fut[d]
        /\ ~isPgDbConnBusy(d) => command[d] = None
    BY <1>1 DEF IInv, NoLeak, FreeIsIdle
  <2>3. QED BY <1>1, <2>1, <2>2 DEF isPgDbConnBusy
<1> DEFINE inProgress == IF asStmt /\ c \notin prepared THEN None ELSE command[c]
<1>3. inProgress = None
  BY <1>1
<1>t. /\ fut \in [Conn -> Query \cup {None}] /\ command \in [Conn -> Query \cup {None}]
      /\ future \in [Query -> {"none", "pending", "completed", "failed"}]
      /\ reader \in [Conn -> Query \cup {None}] /\ on \in [Query -> Conn \cup {None}]
      /\ pc \in [Query -> {"new", "waits", "reads", "retrieves", "done"}]
  BY DEF IInv, TypeOK
<1> HIDE DEF inProgress
<1>4. CASE Sent(q, c, inProgress)
  <2>1. /\ fut' = [fut EXCEPT ![c] = q] /\ future' = [future EXCEPT ![q] = "pending"]
        /\ command' = [command EXCEPT ![c] = q] /\ reader' = [reader EXCEPT ![c] = q]
        /\ pc' = [pc EXCEPT ![q] = "reads"] /\ on' = [on EXCEPT ![q] = c]
    BY <1>4 DEF Sent
  <2>2. q # None
    BY DEF Query, None
  <2>3. ASSUME NEW d \in Range(conns'), isPgDbConnBusy(d)'
        PROVE  /\ on'[fut'[d]] = d /\ pc'[fut'[d]] \in {"reads", "retrieves"}
               /\ command'[d] = fut'[d] /\ reader'[d] = fut'[d]
    <3>1. CASE d = c
      BY <1>t, <2>1, <2>2, <3>1
    <3>2. CASE d # c
      <4>1. d \in Range(conns) /\ fut'[d] = fut[d] /\ d \in Conn
        BY <1>r, <1>t, <2>1, <3>2
      <4>2. CASE isPgDbConnBusy(d)
        BY <1>2, <1>t, <2>1, <3>2, <4>1, <4>2
      <4>3. CASE ~isPgDbConnBusy(d)
        <5>1. fut[d] = q
          BY <2>3, <1>t, <2>1, <4>1, <4>3 DEF isPgDbConnBusy
        <5>2. QED BY <5>1, <2>2, <4>1 DEF IInv, Owners
      <4>4. QED BY <4>2, <4>3
    <3>3. QED BY <3>1, <3>2
  <2>5. NoLeak'
    BY <2>3 DEF NoLeak
  <2>4. FreeIsIdle'
    BY <1>2, <1>t, <2>1, <2>2 DEF FreeIsIdle, isPgDbConnBusy
  <2>6. QED BY <2>4, <2>5
<1>5. CASE NotSent(q, c, inProgress)
  <2>1. /\ fut' = [fut EXCEPT ![c] = q] /\ future' = [future EXCEPT ![q] = "failed"]
        /\ command' = [command EXCEPT ![c] = None] /\ reader' = reader
        /\ pc' = [pc EXCEPT ![q] = "done"] /\ on' = on
    BY <1>5, <1>3 DEF NotSent, FailsAtOnce
  <2>3. NoLeak'
    BY <1>2, <1>t, <2>1 DEF NoLeak, isPgDbConnBusy
  <2>4. FreeIsIdle'
    BY <1>2, <1>t, <2>1 DEF FreeIsIdle, isPgDbConnBusy
  <2>5. QED BY <2>3, <2>4
<1>6. CASE \E prepares \in BOOLEAN : Refused(q, c, prepares)
  <2>1. /\ fut' = fut /\ future' = future /\ reader' = reader /\ on' = on
        /\ command' = command \/ command' = [command EXCEPT ![c] = None]
        /\ pc' = [pc EXCEPT ![q] = "done"]
    BY <1>6 DEF Refused
  <2>3. NoLeak'
    BY <1>2, <1>t, <2>1 DEF NoLeak, isPgDbConnBusy
  <2>4. FreeIsIdle'
    BY <1>1, <1>2, <1>t, <2>1 DEF FreeIsIdle, isPgDbConnBusy
  <2>5. QED BY <2>3, <2>4
<1>7. QED
  <2>1. Sent(q, c, inProgress) \/ NotSent(q, c, inProgress) \/ Refused(q, c, asStmt /\ c \notin prepared)
    BY DEF UseConn, inProgress
  <2>2. (asStmt /\ c \notin prepared) \in BOOLEAN
    OBVIOUS
  <2>3. QED BY <2>1, <2>2, <1>4, <1>5, <1>6
------------------------------------------------------------------------------
(* The queues. *)

Task == [who : Query \cup {Close}, step : {"wake", "pick", "use", "retrieve", "close"},
         index : 0..MaxConnections]

LEMMA QueueTypes ==
  ASSUME TypeOK
  PROVE  /\ Len(waiting) \in Nat /\ Len(ready) \in Nat
         /\ \A i \in 1..Len(waiting) :
              waiting[i].who \in Query \cup {Close} /\ waiting[i].futs \subseteq Query
         /\ \A i \in 1..Len(ready) : ready[i] \in Task
         /\ ready \in Seq(Task)
         /\ ready # <<>> => /\ Head(ready) \in Task /\ Head(ready) = ready[1]
                            /\ Tail(ready) \in Seq(Task)
                            /\ Len(Tail(ready)) = Len(ready) - 1 /\ Len(ready) >= 1
                            /\ \A i \in 1..Len(ready) - 1 : Tail(ready)[i] = ready[i + 1]
<1> DEFINE Wait == [who : Query \cup {Close}, futs : SUBSET Query]
<1>1. ready \in Seq(Task) /\ waiting \in Seq(Wait)
  BY DEF TypeOK, Task
<1>2. /\ Len(waiting) \in Nat /\ Len(ready) \in Nat
      /\ \A i \in 1..Len(waiting) :
           waiting[i].who \in Query \cup {Close} /\ waiting[i].futs \subseteq Query
      /\ \A i \in 1..Len(ready) : ready[i] \in Task
  <2> HIDE DEF Wait
  <2>1. /\ Len(waiting) \in Nat /\ Len(ready) \in Nat
        /\ \A i \in 1..Len(waiting) : waiting[i] \in Wait
        /\ \A i \in 1..Len(ready) : ready[i] \in Task
    BY <1>1, LenProperties, ElementOfSeq
  <2>2. QED BY <2>1 DEF Wait
<1>3. ASSUME ready # <<>>
      PROVE  /\ Head(ready) \in Task /\ Head(ready) = ready[1]
             /\ Tail(ready) \in Seq(Task)
             /\ Len(Tail(ready)) = Len(ready) - 1 /\ Len(ready) >= 1
             /\ \A i \in 1..Len(ready) - 1 : Tail(ready)[i] = ready[i + 1]
  <2>1. /\ Head(ready) \in Task /\ Tail(ready) \in Seq(Task)
        /\ Len(Tail(ready)) = Len(ready) - 1
        /\ \A i \in 1..Len(Tail(ready)) : Tail(ready)[i] = ready[i + 1]
    BY <1>1, <1>3, HeadTailProperties
  <2>2. Len(ready) >= 1 /\ Head(ready) = ready[1]
    BY <1>1, <1>3, EmptySeq
  <2>3. QED BY <2>1, <2>2
<1>4. QED BY <1>1, <1>2, <1>3

LEMMA Appended ==
  ASSUME NEW s \in Seq(Task), NEW h \in Task
  PROVE  /\ Append(s, h) \in Seq(Task) /\ Len(Append(s, h)) = Len(s) + 1
         /\ Len(s) \in Nat
         /\ \A i \in 1..Len(s) : Append(s, h)[i] = s[i]
         /\ Append(s, h)[Len(s) + 1] = h
OBVIOUS

\* A query that is in no queue changes its state, to one that is not "waits".
LEMMA OutsideKeeps ==
  ASSUME TypeOK, Waiters, Once, UNCHANGED loopVars,
         NEW q \in Query, NEW v, pc' = [pc EXCEPT ![q] = v],
         pc[q] \notin {"waits", "retrieves"}
  PROVE  Waiters' /\ Once'
<1>1. /\ \A i \in 1..Len(waiting) : waiting[i].who # Close => waiting[i].who \in Query \ {q}
      /\ \A i \in 1..Len(ready) : ready[i].who # Close => ready[i].who \in Query \ {q}
  BY QueueTypes DEF Waiters, Stage, Task
<1>2. \A p \in Query \ {q} : pc'[p] = pc[p]
  BY DEF TypeOK
<1>3. Waiters'
  BY <1>1, <1>2 DEF Waiters, Stage, loopVars
<1>4. Once'
  BY DEF Once, loopVars
<1>5. QED BY <1>3, <1>4

\* The head of the queue leaves it, and only its query may change its state.
LEMMA LeavingKeeps ==
  ASSUME TypeOK, Waiters, Once, ready # <<>>, ready' = Tail(ready), waiting' = waiting,
         Head(ready).who = Close => pc' = pc,
         \A q \in Query \ {Head(ready).who} : pc'[q] = pc[q]
  PROVE  Waiters' /\ Once'
<1>1. /\ Head(ready) = ready[1] /\ Len(ready') = Len(ready) - 1 /\ Len(ready) >= 1
      /\ \A i \in 1..Len(ready) - 1 : ready'[i] = ready[i + 1]
      /\ Len(ready) \in Nat
  BY QueueTypes
<1>2. Waiters'
  <2>1. ASSUME NEW i \in 1..Len(waiting), waiting[i].who # Close
        PROVE  pc'[waiting[i].who] = "waits"
    <3>1. waiting[i].who \in Query \ {ready[1].who}
      BY <1>1, <2>1, QueueTypes DEF Once
    <3>2. QED BY <1>1, <2>1, <3>1 DEF Waiters
  <2>2. ASSUME NEW i \in 1..Len(ready) - 1, ready[i + 1].who # Close
        PROVE  pc'[ready[i + 1].who] = Stage(ready[i + 1])
    <3>1. i + 1 \in 1..Len(ready) /\ ready[i + 1] \in Task /\ i + 1 # 1
      BY <1>1, QueueTypes
    <3>2. ready[i + 1].who \in Query \ {ready[1].who}
      BY <1>1, <2>2, <3>1 DEF Once, Task
    <3>3. QED BY <1>1, <2>2, <3>1, <3>2 DEF Waiters
  <2>3. \A i \in 1..Len(ready) - 1 :
          Sound(ready[i + 1])
    BY <1>1 DEF Waiters
  <2>4. \A i \in 1..Len(ready') :
          /\ Sound(ready'[i])
          /\ ready'[i].who # Close => pc'[ready'[i].who] = Stage(ready'[i])
    BY <1>1, <2>2, <2>3 DEF Stage
  <2>5. QED BY <2>1, <2>4 DEF Waiters, Stage
<1>3. Once'
  BY <1>1 DEF Once
<1>4. QED BY <1>2, <1>3

\* The task at the head is replaced by another one at the end.
LEMMA ReplacingKeeps ==
  ASSUME TypeOK, Waiters, Once, ready # <<>>, UNCHANGED <<pc, waiting>>,
         NEW h \in Task, ready' = Append(Tail(ready), h),
         h.who = Head(ready).who, Head(ready).step # "retrieve", h.step # "retrieve",
         Sound(h)
  PROVE  Waiters' /\ Once' /\ ready' \in Seq(Task)
<1>1. /\ Head(ready) = ready[1] /\ Len(ready') = Len(ready) /\ Len(ready) >= 1
      /\ \A i \in 1..Len(ready) - 1 : ready'[i] = ready[i + 1]
      /\ ready'[Len(ready)] = h
      /\ Len(ready) \in Nat /\ ready' \in Seq(Task)
  BY QueueTypes, Appended
<1> DEFINE from(i) == IF i = Len(ready) THEN 1 ELSE i + 1
<1>2. ASSUME NEW i \in 1..Len(ready')
      PROVE  /\ from(i) \in 1..Len(ready)
             /\ ready'[i].who = ready[from(i)].who
             /\ Stage(ready'[i]) = Stage(ready[from(i)])
             /\ Sound(ready'[i])
  <2>1. CASE i = Len(ready)
    BY <1>1, <2>1 DEF Stage
  <2>2. CASE i # Len(ready)
    <3>0. i \in 1..Len(ready) /\ Len(ready) \in Nat
      BY <1>1
    <3>1. i \in 1..Len(ready) - 1 /\ from(i) = i + 1 /\ i + 1 \in 1..Len(ready)
      BY <3>0, <2>2
    <3>2. ready'[i] = ready[i + 1]
      BY <1>1, <3>1
    <3>3. Sound(ready[i + 1])
      BY <3>1 DEF Waiters
    <3>4. QED BY <3>1, <3>2, <3>3
  <2>3. QED BY <2>1, <2>2
<1>3. ASSUME NEW i \in 1..Len(ready'), NEW j \in 1..Len(ready'), from(i) = from(j)
      PROVE  i = j
  <2>1. Len(ready) \in Nat /\ i \in 1..Len(ready) /\ j \in 1..Len(ready)
    BY <1>1
  <2>2. QED BY <1>3, <2>1
<1> HIDE DEF from
<1>5. Waiters'
  BY <1>2 DEF Waiters, Stage
<1>6. Once'
  <2>1. ASSUME NEW i \in 1..Len(ready'), NEW j \in 1..Len(ready'),
               ready'[i].who # Close, ready'[i].who = ready'[j].who
        PROVE  i = j
    <3>1. /\ from(i) \in 1..Len(ready) /\ ready'[i].who = ready[from(i)].who
          /\ from(j) \in 1..Len(ready) /\ ready'[j].who = ready[from(j)].who
      BY <1>2
    <3>2. from(i) = from(j)
      BY <2>1, <3>1 DEF Once
    <3>3. QED BY <1>3, <3>2
  <2>2. ASSUME NEW i \in 1..Len(waiting), NEW j \in 1..Len(ready'), ready'[j].who # Close
        PROVE  ready'[j].who # waiting[i].who
    BY <1>2, <2>2 DEF Once
  <2>3. QED BY <2>1, <2>2 DEF Once
<1>7. QED BY <1>1, <1>5, <1>6

\* A task joins the queue, of a query whose data have arrived.
LEMMA JoiningKeeps ==
  ASSUME TypeOK, Waiters, Once, waiting' = waiting,
         NEW h \in Task, ready' = Append(ready, h),
         h.who # Close, h.step = "retrieve", pc[h.who] \notin {"waits", "retrieves"},
         pc' = [pc EXCEPT ![h.who] = "retrieves"]
  PROVE  Waiters' /\ Once' /\ ready' \in Seq(Task)
<1> DEFINE n == Len(ready)
<1>1. /\ ready' \in Seq(Task) /\ Len(ready') = n + 1 /\ n \in Nat
      /\ \A i \in 1..n : ready'[i] = ready[i]
      /\ ready'[n + 1] = h
  BY QueueTypes, Appended
<1>2. /\ \A i \in 1..Len(waiting) : waiting[i].who # Close => waiting[i].who \in Query \ {h.who}
      /\ \A i \in 1..n : ready[i].who # Close => ready[i].who \in Query \ {h.who}
  BY QueueTypes DEF Waiters, Stage, Task
<1>3. h.who \in Query /\ pc'[h.who] = "retrieves" /\ \A p \in Query \ {h.who} : pc'[p] = pc[p]
  BY DEF TypeOK, Task
<1>4. Waiters'
  <2>1. ASSUME NEW i \in 1..n
        PROVE  /\ Sound(ready[i])
               /\ ready[i].who # Close => pc'[ready[i].who] = Stage(ready[i])
    BY <1>2, <1>3 DEF Waiters
  <2>2. ASSUME NEW i \in 1..Len(ready')
        PROVE  /\ Sound(ready'[i])
               /\ ready'[i].who # Close => pc'[ready'[i].who] = Stage(ready'[i])
    <3>1. CASE i \in 1..n
      BY <1>1, <2>1, <3>1
    <3>2. CASE i = n + 1
      BY <1>1, <1>3, <3>2 DEF Stage, Sound
    <3>3. QED BY <1>1, <3>1, <3>2
  <2>3. QED BY <2>2, <1>2, <1>3 DEF Waiters, Stage
<1>5. Once'
  <2>1. ASSUME NEW i \in 1..Len(ready'), NEW j \in 1..Len(ready'),
               ready'[i].who # Close, ready'[i].who = ready'[j].who
        PROVE  i = j
    <3>1. CASE i \in 1..n /\ j \in 1..n
      BY <1>1, <2>1, <3>1 DEF Once
    <3>2. CASE i \in 1..n /\ j = n + 1
      BY <1>1, <1>2, <2>1, <3>2
    <3>3. CASE i = n + 1 /\ j \in 1..n
      BY <1>1, <1>2, <2>1, <3>3
    <3>4. QED BY <1>1, <3>1, <3>2, <3>3
  <2>2. ASSUME NEW i \in 1..Len(waiting), NEW j \in 1..Len(ready'), ready'[j].who # Close
        PROVE  ready'[j].who # waiting[i].who
    <3>1. CASE j \in 1..n
      BY <1>1, <2>2, <3>1 DEF Once
    <3>2. CASE j = n + 1
      BY <1>1, <1>2, <2>2, <3>2
    <3>3. QED BY <1>1, <3>1, <3>2
  <2>3. QED BY <2>1, <2>2 DEF Once
<1>6. QED BY <1>1, <1>4, <1>5

Wait == [who : Query \cup {Close}, futs : SUBSET Query]

\* Someone waits who has not been in a queue.
LEMMA WaitingKeeps ==
  ASSUME TypeOK, Waiters, Once, ready' = ready,
         NEW w \in Wait, waiting' = Append(waiting, w),
         \/ w.who = Close /\ pc' = pc
         \/ /\ w.who # Close /\ pc[w.who] \notin {"waits", "retrieves"}
            /\ pc' = [pc EXCEPT ![w.who] = "waits"]
  PROVE  Waiters' /\ Once' /\ waiting' \in Seq(Wait)
<1> DEFINE n == Len(waiting)
<1>1. /\ waiting' \in Seq(Wait) /\ Len(waiting') = n + 1 /\ n \in Nat
      /\ \A i \in 1..n : waiting'[i] = waiting[i]
      /\ waiting'[n + 1] = w
  <2>1. waiting \in Seq(Wait)
    BY DEF TypeOK, Wait
  <2>2. QED BY <2>1
<1>2. /\ \A i \in 1..n : waiting[i].who # Close => waiting[i].who \in Query \ {w.who}
      /\ \A i \in 1..Len(ready) : ready[i].who # Close => ready[i].who \in Query \ {w.who}
  BY QueueTypes, SMTT(30) DEF Waiters, Stage, Task
<1>3. /\ w.who # Close => w.who \in Query /\ pc'[w.who] = "waits"
      /\ \A p \in Query \ {w.who} : pc'[p] = pc[p]
  BY DEF TypeOK, Wait
<1>4. Waiters'
  <2>1. ASSUME NEW i \in 1..Len(ready)
        PROVE  /\ Sound(ready[i])
               /\ ready[i].who # Close => pc'[ready[i].who] = Stage(ready[i])
    BY <1>2, <1>3 DEF Waiters
  <2>2. ASSUME NEW i \in 1..Len(waiting'), waiting'[i].who # Close
        PROVE  pc'[waiting'[i].who] = "waits"
    <3>1. CASE i \in 1..n
      BY <1>1, <1>2, <1>3, <2>2, <3>1 DEF Waiters
    <3>2. CASE i = n + 1
      BY <1>1, <1>3, <2>2, <3>2
    <3>3. QED BY <1>1, <3>1, <3>2
  <2>3. QED BY <2>1, <2>2 DEF Waiters, Stage
<1>5. Once'
  <2>1. ASSUME NEW i \in 1..Len(waiting'), NEW j \in 1..Len(waiting'),
               waiting'[i].who # Close, waiting'[i].who = waiting'[j].who
        PROVE  i = j
    <3>1. CASE i \in 1..n /\ j \in 1..n
      BY <1>1, <2>1, <3>1 DEF Once
    <3>2. CASE i \in 1..n /\ j = n + 1
      BY <1>1, <1>2, <2>1, <3>2
    <3>3. CASE i = n + 1 /\ j \in 1..n
      BY <1>1, <1>2, <2>1, <3>3
    <3>4. QED BY <1>1, <3>1, <3>2, <3>3
  <2>2. ASSUME NEW i \in 1..Len(waiting'), NEW j \in 1..Len(ready), ready[j].who # Close
        PROVE  ready[j].who # waiting'[i].who
    <3>1. CASE i \in 1..n
      BY <1>1, <2>2, <3>1 DEF Once
    <3>2. CASE i = n + 1
      BY <1>1, <1>2, <2>2, <3>2
    <3>3. QED BY <1>1, <3>1, <3>2
  <2>3. QED BY <2>1, <2>2 DEF Once
<1>6. QED BY <1>1, <1>4, <1>5

\* An order of positions gives each of them at most once.
LEMMA OrderFacts ==
  ASSUME NEW n \in Nat, NEW I \in SUBSET (1..n), NEW p \in InOrder(I)
  PROVE  /\ Cardinality(I) \in Nat /\ DOMAIN p = 1..Cardinality(I)
         /\ \A a \in 1..Cardinality(I) : p[a] \in I
         /\ \A a, b \in 1..Cardinality(I) : p[a] = p[b] => a = b
<1>1. Cardinality(I) \in Nat
  <2>1. IsFiniteSet(1..n)
    BY FS_Interval
  <2>2. QED BY <2>1, FS_Subset, FS_CardinalityType
<1>2. p \in [1..Cardinality(I) -> I] /\ \A a, b \in DOMAIN p : a < b => p[a] < p[b]
  BY DEF InOrder
<1>3. ASSUME NEW a \in 1..Cardinality(I), NEW b \in 1..Cardinality(I), p[a] = p[b]
      PROVE  a = b
  <2>1. p[a] \in 1..n
    BY <1>2
  <2>2. ~(a < b) /\ ~(b < a)
    BY <1>2, <1>3, <2>1
  <2>3. QED BY <1>1, <2>2
<1>4. QED BY <1>1, <1>2, <1>3

\* A query that had its data is done, and those who waited for a future go on.
LEMMA GoingOnKeeps ==
  ASSUME TypeOK, Waiters, Once, ready # <<>>, NEW f, GoOn(f, Tail(ready)),
         Head(ready).who # Close,
         \A q \in Query \ {Head(ready).who} : pc'[q] = pc[q]
  PROVE  Waiters' /\ Once' /\ waiting' \in Seq(Wait) /\ ready' \in Seq(Task)
<1> DEFINE goes == { i \in DOMAIN waiting : GoesOn(waiting[i], f) }
           k == Len(ready) - 1
           m == Len(waiting)
           n == Cardinality(goes)
           stays == Cardinality(DOMAIN waiting \ goes)
<1>1. waiting \in Seq(Wait) /\ DOMAIN waiting = 1..m /\ m \in Nat /\ k \in Nat /\ Len(ready) = k + 1
      /\ \A i \in 1..m : waiting[i] \in Wait
  <2>1. waiting \in Seq(Wait)
    BY DEF TypeOK, Wait
  <2>2. k \in Nat /\ Len(ready) = k + 1
    BY QueueTypes
  <2>3. QED BY <2>1, <2>2, LenProperties, ElementOfSeq
<1>2. PICK p \in InOrder(goes) :
        ready' = Tail(ready) \o [i \in DOMAIN p |-> [who |-> waiting[p[i]].who, step |-> "wake", index |-> 0]]
  BY DEF GoOn
<1>3. PICK r \in InOrder(DOMAIN waiting \ goes) : waiting' = [i \in DOMAIN r |-> waiting[r[i]]]
  BY DEF GoOn
<1>6. goes \in SUBSET (1..m)
  BY <1>1 DEF goes
<1> HIDE DEF goes, m, k
<1>4. /\ n \in Nat /\ DOMAIN p = 1..n /\ \A a \in 1..n : p[a] \in goes
      /\ \A a, b \in 1..n : p[a] = p[b] => a = b
  <2>1. m \in Nat /\ goes \in SUBSET (1..m) /\ p \in InOrder(goes)
    BY <1>1, <1>6
  <2>2. QED BY ONLY <2>1, OrderFacts
<1>5. /\ stays \in Nat /\ DOMAIN r = 1..stays /\ \A a \in 1..stays : r[a] \in 1..m \ goes
      /\ \A a, b \in 1..stays : r[a] = r[b] => a = b
  <2>1. m \in Nat /\ DOMAIN waiting = 1..m /\ DOMAIN waiting \ goes \in SUBSET (1..m)
        /\ r \in InOrder(DOMAIN waiting \ goes)
    BY <1>1
  <2>2. QED BY ONLY <2>1, OrderFacts
<1> HIDE DEF n, stays
<1>7. /\ waiting' \in Seq(Wait) /\ Len(waiting') = stays
      /\ \A i \in 1..stays : waiting'[i] = waiting[r[i]]
  <2>1. waiting' = [i \in 1..stays |-> waiting[r[i]]]
    BY <1>3, <1>5
  <2>2. \A i \in 1..stays : waiting[r[i]] \in Wait
    BY <1>1, <1>5
  <2>3. waiting' \in [1..stays -> Wait]
    BY <2>1, <2>2
  <2>4. waiting' \in Seq(Wait)
    BY <2>3, <1>5, SeqDef
  <2>5. QED BY <1>5, <2>1, <2>3, <2>4, LenProperties
<1> DEFINE woken == [i \in 1..n |-> [who |-> waiting[p[i]].who, step |-> "wake", index |-> 0]]
<1>8. woken \in Seq(Task) /\ Len(woken) = n
  <2>1. \A i \in 1..n : waiting[p[i]] \in Wait
    BY <1>1, <1>4, <1>6
  <2>2. 0 \in 0..MaxConnections
    BY PoolAssumption
  <2>3. woken \in [1..n -> Task]
    BY <2>1, <2>2 DEF Task, Wait
  <2>4. woken \in Seq(Task)
    BY <2>3, <1>4, SeqDef
  <2>5. QED BY <1>4, <2>3, <2>4, LenProperties
<1>9. /\ ready' \in Seq(Task) /\ Len(ready') = k + n
      /\ \A i \in 1..k : ready'[i] = ready[i + 1]
      /\ \A i \in k + 1..k + n :
           ready'[i] = [who |-> waiting[p[i - k]].who, step |-> "wake", index |-> 0]
  <2>1. ready' = Tail(ready) \o woken
    BY <1>2, <1>4
  <2>2. /\ Tail(ready) \in Seq(Task) /\ Len(Tail(ready)) = k
        /\ \A i \in 1..k : Tail(ready)[i] = ready[i + 1]
    BY QueueTypes DEF k
  <2>3. \A i \in 1..n : woken[i] = [who |-> waiting[p[i]].who, step |-> "wake", index |-> 0]
    OBVIOUS
  <2> HIDE DEF woken
  <2>4. /\ Tail(ready) \o woken \in Seq(Task) /\ Len(Tail(ready) \o woken) = k + n
        /\ \A i \in 1..k + n : (Tail(ready) \o woken)[i] =
              IF i <= k THEN Tail(ready)[i] ELSE woken[i - k]
    BY <1>8, <2>2, ConcatProperties
  <2>5. QED BY <1>1, <1>4, <2>1, <2>2, <2>3, <2>4
<1>s. \A i \in k + 1..k + n : i - k \in 1..n
  <2>1. k \in Nat /\ n \in Nat
    BY <1>1, <1>4
  <2>2. QED BY <2>1
<1>t. ASSUME NEW i \in k + 1..k + n PROVE ready'[i].who = waiting[p[i - k]].who
  <2>1. ready'[i] = [who |-> waiting[p[i - k]].who, step |-> "wake", index |-> 0]
    BY <1>9
  <2>2. QED BY <2>1
<1> DEFINE gone == Head(ready).who
<1>a. /\ \A i \in 1..m : waiting[i].who # Close => waiting[i].who \in Query \ {gone}
      /\ \A i \in 1..k : ready[i + 1].who # Close => ready[i + 1].who \in Query \ {gone}
  <2>1. gone = ready[1].who /\ 1 \in 1..Len(ready)
    BY QueueTypes
  <2>2. ASSUME NEW i \in 1..m, waiting[i].who # Close PROVE waiting[i].who \in Query \ {gone}
    BY <1>1, <2>1, <2>2 DEF Once, Wait, m
  <2>3. ASSUME NEW i \in 1..k, ready[i + 1].who # Close PROVE ready[i + 1].who \in Query \ {gone}
    <3>1. i + 1 \in 1..Len(ready) /\ i + 1 # 1
      BY <1>1
    <3>2. ready[i + 1] \in Task
      BY <3>1, QueueTypes
    <3>3. QED BY <2>1, <2>3, <3>1, <3>2 DEF Once, Task
  <2>4. QED BY <2>2, <2>3
<1> HIDE DEF gone
<1>b. \A q \in Query \ {gone} : pc'[q] = pc[q]
  BY DEF gone
<1>c. Waiters'
  <2>1. ASSUME NEW i \in 1..stays, waiting[r[i]].who # Close PROVE pc'[waiting[r[i]].who] = "waits"
    BY <1>5, <1>a, <1>b, <2>1 DEF Waiters, m
  <2>2. ASSUME NEW i \in 1..k + n
        PROVE  /\ Sound(ready'[i])
               /\ ready'[i].who # Close => pc'[ready'[i].who] = Stage(ready'[i])
    <3>1. CASE i \in 1..k
      <4>1. i + 1 \in 1..Len(ready) /\ ready'[i] = ready[i + 1]
        BY <1>1, <1>9, <3>1
      <4>2. QED BY <1>a, <1>b, <3>1, <4>1 DEF Waiters
    <3>2. CASE i \in k + 1..k + n
      <4>1. i - k \in 1..n /\ ready'[i] = [who |-> waiting[p[i - k]].who, step |-> "wake", index |-> 0]
        BY <1>9, <1>s, <3>2
      <4>2. p[i - k] \in 1..m
        BY <1>4, <1>6, <4>1
      <4>3. QED BY <1>a, <1>b, <4>1, <4>2 DEF Waiters, Stage, Sound, m
    <3>3. QED BY <1>1, <1>4, <3>1, <3>2
  <2>3. QED BY <1>7, <1>9, <2>1, <2>2 DEF Waiters, Stage
<1>d. Once'
  <2>1. ASSUME NEW i \in 1..stays, NEW j \in 1..stays,
               waiting[r[i]].who # Close, waiting[r[i]].who = waiting[r[j]].who
        PROVE  i = j
    <3>1. r[i] = r[j]
      BY <1>5, <2>1 DEF Once, m
    <3>2. QED BY <1>5, <3>1
  <2>2. ASSUME NEW i \in 1..k + n, NEW j \in 1..k + n,
               ready'[i].who # Close, ready'[i].who = ready'[j].who
        PROVE  i = j
    <3>1. ASSUME NEW a \in 1..k, NEW b \in k + 1..k + n,
                 ready'[a].who # Close, ready'[a].who = ready'[b].who
          PROVE  FALSE
      <4>1. a + 1 \in 1..Len(ready) /\ ready'[a] = ready[a + 1]
        BY <1>1, <1>9, <3>1
      <4>2. b - k \in 1..n /\ ready'[b].who = waiting[p[b - k]].who
        BY <1>s, <1>t, <3>1
      <4>3. p[b - k] \in 1..m
        BY <1>4, <1>6, <4>2
      <4>4. QED BY <3>1, <4>1, <4>2, <4>3 DEF Once, m
    <3>2. CASE i \in 1..k /\ j \in 1..k
      <4>1. /\ i + 1 \in 1..Len(ready) /\ ready'[i] = ready[i + 1]
            /\ j + 1 \in 1..Len(ready) /\ ready'[j] = ready[j + 1]
        BY <1>1, <1>9, <3>2
      <4>2. i + 1 = j + 1
        BY <2>2, <4>1 DEF Once
      <4>3. QED BY <4>2
    <3>3. CASE i \in k + 1..k + n /\ j \in k + 1..k + n
      <4>1. /\ i - k \in 1..n /\ ready'[i].who = waiting[p[i - k]].who
            /\ j - k \in 1..n /\ ready'[j].who = waiting[p[j - k]].who
        BY <1>s, <1>t, <3>3
      <4>2. p[i - k] \in 1..m /\ p[j - k] \in 1..m
        BY <1>4, <1>6, <4>1
      <4>3. p[i - k] = p[j - k]
        BY <2>2, <4>1, <4>2 DEF Once, m
      <4>4. i - k = j - k
        BY <1>4, <4>1, <4>3
      <4>5. QED BY <1>1, <3>3, <4>4
    <3>4. QED BY <1>1, <1>4, <2>2, <3>1, <3>2, <3>3
  <2>3. ASSUME NEW i \in 1..stays, NEW j \in 1..k + n, ready'[j].who # Close
        PROVE  ready'[j].who # waiting[r[i]].who
    <3>1. r[i] \in 1..m \ goes
      BY <1>5
    <3>2. CASE j \in 1..k
      <4>1. j + 1 \in 1..Len(ready) /\ ready'[j] = ready[j + 1]
        BY <1>1, <1>9, <3>2
      <4>2. QED BY <2>3, <3>1, <4>1 DEF Once, m
    <3>3. CASE j \in k + 1..k + n
      <4>1. j - k \in 1..n /\ ready'[j].who = waiting[p[j - k]].who
        BY <1>s, <1>t, <3>3
      <4>2. p[j - k] \in 1..m /\ p[j - k] \in goes
        BY <1>4, <1>6, <4>1
      <4>3. QED BY <2>3, <3>1, <4>1, <4>2 DEF Once, m
    <3>4. QED BY <1>1, <1>4, <3>2, <3>3
  <2>4. /\ \A i, j \in 1..stays : waiting'[i].who # Close /\ waiting'[i].who = waiting'[j].who => i = j
        /\ \A i \in 1..stays, j \in 1..k + n : ready'[j].who # Close => ready'[j].who # waiting'[i].who
    BY <1>7, <2>1, <2>3
  <2>5. QED BY <1>7, <1>9, <2>2, <2>4 DEF Once
<1>e. QED BY <1>7, <1>9, <1>c, <1>d
------------------------------------------------------------------------------
(* The steps. *)

Queues == waiting \in Seq(Wait) /\ ready \in Seq(Task) /\ Waiters /\ Once

LEMMA IInvParts ==
  IInv <=> TypeOK /\ Queues /\ Crowd /\ Unopened /\ Owners /\ NoLeak /\ FreeIsIdle /\ Exclusive
BY DEF IInv, Queues, TypeOK, Wait, Task

\* A connection that is used: what it does to the parts other than the queues.
LEMMA UsingKeeps ==
  ASSUME IInv, NEW q \in Query, NEW c \in Conn, NEW asStmt, UseConn(q, c, asStmt),
         pc[q] \in {"new", "waits"}, q <= made', made <= made', made' \in Nat,
         crowded' = crowded, opened' \in Nat, opened <= opened', c <= opened',
         \A d \in Range(conns) : d <= opened',
         Range(conns') \subseteq Range(conns) \cup {c},
         \/ c \in Range(conns) /\ (crowded \/ ~isPgDbConnBusy(c))
         \/ fut[c] = None /\ command[c] = None
  PROVE  Crowd' /\ Unopened' /\ Owners' /\ NoLeak' /\ FreeIsIdle' /\ Exclusive'
<1>1. Used(q, c)
  BY UseConnTypes DEF IInv
<1>2. NoLeak' /\ FreeIsIdle'
  BY UseConnKeeps
<1>3. /\ pc \in [Query -> {"new", "waits", "reads", "retrieves", "done"}]
      /\ pc'[q] \in {"reads", "done"} /\ \A p \in Query \ {q} : pc'[p] = pc[p]
      /\ fut \in [Conn -> Query \cup {None}] /\ made \in Nat /\ opened \in Nat
  <2>1. /\ pc \in [Query -> {"new", "waits", "reads", "retrieves", "done"}]
        /\ fut \in [Conn -> Query \cup {None}]
    BY DEF IInv, TypeOK
  <2>0. made \in Nat /\ opened \in Nat
    BY Counters DEF IInv
  <2>2. pc' = [pc EXCEPT ![q] = "reads"] \/ pc' = [pc EXCEPT ![q] = "done"]
    BY <1>1 DEF Used
  <2>3. QED BY <2>0, <2>1, <2>2
<1>4. Crowd'
  <2>1. ASSUME NEW p \in Query, p > made' PROVE p # q /\ p > made
    BY <1>3, <2>1 DEF Query
  <2>2. QED BY <1>3, <2>1 DEF IInv, Crowd
<1>5. Unopened'
  <2>1. ASSUME NEW d \in Conn, d > opened' PROVE fut'[d] = None /\ command'[d] = None
    <3>1. d # c /\ d > opened
      BY <1>3, <2>1 DEF Conn
    <3>2. fut'[d] = fut[d] /\ command'[d] = command[d]
      BY <1>1, <3>1 DEF Used
    <3>3. QED BY <3>1, <3>2 DEF IInv, Unopened
  <2>2. QED BY <2>1 DEF Unopened
<1>6. Owners'
  <2>1. ASSUME NEW d \in Conn, fut'[d] # None
        PROVE  pc'[fut'[d]] \in {"reads", "retrieves", "done"}
    <3>1. fut'[d] \in {fut[d], q} /\ fut[d] \in Query \cup {None}
      BY <1>1, <1>3 DEF Used
    <3>2. QED BY <1>3, <2>1, <3>1 DEF IInv, Owners
  <2>2. QED BY <2>1 DEF Owners
<1>7. Exclusive'
  <2>1. ~crowded => ~clash /\ command[c] = None
    BY DEF IInv, Exclusive, FreeIsIdle
  <2>2. QED BY <2>1 DEF UseConn, Exclusive
<1>8. QED BY <1>2, <1>4, <1>5, <1>6, <1>7

\* A query that has no connection changes its state without being given one.
LEMMA IdleKeeps ==
  ASSUME IInv, NEW q \in Query, pc[q] \in {"new", "waits"}, q <= made', made <= made', made' \in Nat,
         NEW v \in {"waits", "done"}, pc' = [pc EXCEPT ![q] = v],
         crowded => crowded', v = "waits" => crowded',
         UNCHANGED <<conns, opened, fut, command, reader, future, on, clash>>
  PROVE  Crowd' /\ Unopened' /\ Owners' /\ NoLeak' /\ FreeIsIdle' /\ Exclusive'
<1>1. /\ pc'[q] = v /\ \A p \in Query \ {q} : pc'[p] = pc[p]
      /\ fut \in [Conn -> Query \cup {None}] /\ made \in Nat
  <2>1. pc \in [Query -> {"new", "waits", "reads", "retrieves", "done"}]
    BY DEF IInv, TypeOK
  <2>2. fut \in [Conn -> Query \cup {None}] /\ made \in Nat
    BY Counters DEF IInv, TypeOK
  <2>3. QED BY <2>1, <2>2
<1>2. Crowd'
  <2>1. ASSUME NEW p \in Query, p > made' PROVE p # q /\ p > made
    BY <1>1, <2>1 DEF Query
  <2>2. QED BY <1>1, <2>1 DEF IInv, Crowd
<1>3. \A c \in Conn : fut[c] # None => fut[c] \in Query \ {q}
  BY <1>1 DEF IInv, Owners
<1>4. Owners'
  BY <1>1, <1>3 DEF IInv, Owners
<1>5. NoLeak'
  <2>1. ASSUME ~clash, NEW c \in Range(conns), isPgDbConnBusy(c)
        PROVE  /\ on[fut[c]] = c /\ pc'[fut[c]] \in {"reads", "retrieves"}
               /\ command[c] = fut[c] /\ reader[c] = fut[c]
    <3>1. c \in Conn
      BY RangeOfConns DEF IInv, TypeOK
    <3>2. fut[c] \in Query \ {q}
      BY <1>3, <2>1, <3>1 DEF isPgDbConnBusy
    <3>3. QED BY <1>1, <2>1, <3>2 DEF IInv, NoLeak
  <2>2. QED BY <2>1 DEF NoLeak, isPgDbConnBusy
<1>6. FreeIsIdle' /\ Unopened' /\ Exclusive'
  BY DEF IInv, FreeIsIdle, Unopened, Exclusive, isPgDbConnBusy
<1>7. QED BY <1>2, <1>4, <1>5, <1>6

LEMMA FirstFree ==
  ASSUME IInv, NEW i \in getFirstFreeConnIndex
  PROVE  i \in 1..Len(conns) /\ conns[i] \in Range(conns) /\ conns[i] \in Conn
         /\ ~isPgDbConnBusy(conns[i]) /\ conns[i] <= opened
<1>1. i \in 1..Len(conns) /\ ~isPgDbConnBusy(conns[i]) /\ conns \in Seq(Conn)
  BY DEF getFirstFreeConnIndex, Free, IInv, TypeOK
<1>2. conns[i] \in Range(conns) /\ conns[i] \in Conn
  BY <1>1, RangeOfConns
<1>3. QED BY <1>1, <1>2 DEF IInv, Unopened

LEMMA StartKeeps == ASSUME IInv, NEW asStmt \in BOOLEAN, Start(asStmt) PROVE IInv'
<1> DEFINE q == made + 1
<1>1. /\ q \in Query /\ made \in Nat /\ opened \in Nat /\ MaxQueries \in Nat /\ opened <= made
      /\ made' = q /\ made' \in 0..MaxQueries /\ stmt' \subseteq Query
      /\ UNCHANGED <<closes, ended>>
  BY PoolAssumption DEF Start, IInv, TypeOK, Query
<1>2. pc[q] = "new"
  BY <1>1 DEF IInv, Crowd
<1>t. TypeOK /\ conns \in Seq(Conn) /\ Len(conns) \in Nat /\ Len(conns) <= MaxConnections
  <2>1. TypeOK /\ conns \in Seq(Conn) /\ Len(conns) <= MaxConnections
    BY DEF IInv, TypeOK
  <2>2. QED BY <2>1, LenProperties
<1> HIDE DEF q
<1>q. Queues
  BY IInvParts
<1>3. CASE TakesFree(q, asStmt)
  <2>1. PICK i \in getFirstFreeConnIndex : UseConn(q, conns[i], asStmt)
    BY <1>3 DEF TakesFree
  <2>2. UNCHANGED <<conns, opened, waiting, ready, crowded>>
    BY <1>3 DEF TakesFree, poolVars, loopVars
  <2>3. /\ conns[i] \in Conn /\ conns[i] \in Range(conns)
        /\ ~isPgDbConnBusy(conns[i]) /\ conns[i] <= opened
    BY FirstFree
  <2>4. Crowd' /\ Unopened' /\ Owners' /\ NoLeak' /\ FreeIsIdle' /\ Exclusive'
    <3>1. /\ opened' \in Nat /\ opened <= opened' /\ conns[i] <= opened'
          /\ q <= made' /\ made <= made' /\ made' \in Nat
      BY <1>1, <2>2, <2>3 DEF q
    <3>2. \A d \in Range(conns) : d <= opened'
      BY <2>2 DEF IInv, Unopened
    <3>3. QED BY <1>1, <1>2, <2>1, <2>2, <2>3, <3>1, <3>2, UsingKeeps
  <2>5. Used(q, conns[i])
    BY <1>1, <1>t, <2>1, <2>3, UseConnTypes
  <2>6. Waiters' /\ Once'
    BY <1>1, <1>2, <1>q, <1>t, <2>2, <2>5, OutsideKeeps DEF Used, Queues, loopVars
  <2>7. TypeOK'
    <3>1. opened' \in 0..made'
      BY <1>1, <2>2 DEF q
    <3>2. pc' \in [Query -> {"new", "waits", "reads", "retrieves", "done"}]
      BY <1>t, <2>5 DEF TypeOK, Used
    <3>3. QED BY <1>1, <1>t, <2>2, <2>5, <3>1, <3>2 DEF TypeOK, Used
  <2>8. QED BY <2>4, <2>6, <2>7 DEF IInv
<1>4. CASE OpensConn(q, asStmt)
  <2>1. /\ conns' = Append(conns, opened + 1) /\ opened' = opened + 1
        /\ UseConn(q, opened + 1, asStmt) /\ Len(conns) < MaxConnections
        /\ UNCHANGED <<waiting, ready, crowded>>
    BY <1>4 DEF OpensConn, loopVars
  <2>2. opened + 1 \in Conn /\ opened + 1 <= made'
    BY <1>1 DEF Conn, q
  <2>3. /\ conns' \in Seq(Conn) /\ Range(conns') \subseteq Range(conns) \cup {opened + 1}
        /\ Len(conns') <= MaxConnections
    <3>1. Len(conns') = Len(conns) + 1
      BY <1>t, <2>1
    <3>2. Len(conns) + 1 <= MaxConnections
      BY <1>t, <2>1, PoolAssumption
    <3>3. QED BY <1>t, <2>1, <2>2, <3>1, <3>2, RangeOfAppend
  <2>4. fut[opened + 1] = None /\ command[opened + 1] = None
    BY <1>1, <2>2 DEF IInv, Unopened
  <2>r. \A d \in Range(conns) : d <= opened'
    <3>1. ASSUME NEW d \in Range(conns) PROVE d <= opened'
      <4>1. d \in Nat /\ d <= opened
        BY <1>t, RangeOfConns DEF IInv, Unopened, Conn
      <4>2. QED BY <1>1, <2>1, <4>1
    <3>2. QED BY <3>1
  <2>5. Crowd' /\ Unopened' /\ Owners' /\ NoLeak' /\ FreeIsIdle' /\ Exclusive'
    <3>1. /\ opened' \in Nat /\ opened <= opened' /\ opened + 1 <= opened'
          /\ q <= made' /\ made <= made' /\ made' \in Nat
      BY <1>1, <2>1 DEF q
    <3>2. QED BY <1>1, <1>2, <2>1, <2>2, <2>3, <2>4, <2>r, <3>1, UsingKeeps
  <2>6. Used(q, opened + 1)
    BY <1>1, <1>t, <2>1, <2>2, UseConnTypes
  <2>7. Waiters' /\ Once'
    BY <1>1, <1>2, <1>q, <1>t, <2>1, <2>6, OutsideKeeps DEF Used, Queues, loopVars
  <2>8. TypeOK'
    <3>1. opened' \in 0..made'
      BY <1>1, <2>1, <2>2
    <3>2. QED BY <1>1, <1>t, <2>1, <2>3, <2>6, <3>1 DEF TypeOK, Used
  <2>9. QED BY <2>5, <2>7, <2>8 DEF IInv
<1>5. CASE OpenFails(q)
  <2>1. /\ pc' = [pc EXCEPT ![q] = "done"]
        /\ UNCHANGED <<conns, opened, fut, prepared, command, reader, message, lost, future,
                       on, waiting, ready, crowded, clash>>
    BY <1>5 DEF OpenFails, poolVars, connVars, loopVars
  <2>2. Waiters' /\ Once'
    BY <1>1, <1>2, <1>q, <1>t, <2>1, OutsideKeeps DEF Queues, loopVars
  <2>3. TypeOK'
    <3>1. opened' \in 0..made'
      BY <1>1, <2>1 DEF q
    <3>2. QED BY <1>1, <1>t, <2>1, <3>1 DEF TypeOK
  <2>4. Crowd' /\ Unopened' /\ Owners' /\ NoLeak' /\ FreeIsIdle' /\ Exclusive'
    <3>1. q <= made' /\ made <= made' /\ made' \in Nat
      BY <1>1 DEF q
    <3>2. QED BY <1>1, <1>2, <2>1, <3>1, IdleKeeps
  <2>5. QED BY <2>2, <2>3, <2>4 DEF IInv
<1>6. CASE WaitsForConn(q)
  <2> DEFINE w == [who |-> q, futs |-> { fut[c] : c \in Range(conns) }]
  <2>1. /\ waiting' = Append(waiting, w) /\ isBusy
        /\ pc' = [pc EXCEPT ![q] = "waits"] /\ crowded' = TRUE
        /\ UNCHANGED <<conns, opened, fut, prepared, command, reader, message, lost, future,
                       on, ready, clash>>
    BY <1>6 DEF WaitsForConn, poolVars, connVars
  <2>2. w \in Wait
    <3>1. \A c \in Range(conns) : fut[c] \in Query
      <4>1. conns \in Seq(Conn) /\ fut \in [Conn -> Query \cup {None}]
        BY <1>t DEF TypeOK
      <4>2. \A c \in Range(conns) : c \in Conn
        BY <4>1, RangeOfConns
      <4>3. \A c \in Range(conns) : fut[c] # None
        BY <2>1, Zenon DEF isBusy, isPgDbConnBusy
      <4>4. QED BY <4>1, <4>2, <4>3
    <3>2. QED BY <1>1, <3>1 DEF Wait
  <2>w. w.who # Close
    BY <1>1 DEF Query, Close
  <2>3. Waiters' /\ Once' /\ waiting' \in Seq(Wait)
    <3>1. w.who = q
      OBVIOUS
    <3> HIDE DEF w
    <3>2. QED BY <1>2, <1>q, <1>t, <2>1, <2>2, <2>w, <3>1, WaitingKeeps DEF Queues
  <2>4. TypeOK'
    <3>1. opened' \in 0..made'
      BY <1>1, <2>1 DEF q
    <3>2. QED BY <1>1, <1>t, <2>1, <2>3, <3>1 DEF TypeOK, Wait
  <2>5. Crowd' /\ Unopened' /\ Owners' /\ NoLeak' /\ FreeIsIdle' /\ Exclusive'
    <3>1. q <= made' /\ made <= made' /\ made' \in Nat
      BY <1>1 DEF q
    <3>2. QED BY <1>1, <1>2, <2>1, <3>1, IdleKeeps
  <2>6. QED BY <2>3, <2>4, <2>5 DEF IInv
<1>7. QED BY <1>3, <1>4, <1>5, <1>6 DEF Start, q

\* What the queue has first.
LEMMA HeadFacts ==
  ASSUME IInv, ready # <<>>
  PROVE  /\ Head(ready) \in Task /\ Tail(ready) \in Seq(Task)
         /\ Head(ready).step \in {"pick", "use", "retrieve"} => Head(ready).who \in Query
         /\ Head(ready).step \in {"pick", "use"} => pc[Head(ready).who] = "waits"
         /\ Head(ready).step = "retrieve" => pc[Head(ready).who] = "retrieves"
         /\ Head(ready).step = "use" => Head(ready).index \in Nat \ {0}
<1>1. /\ Head(ready) \in Task /\ Tail(ready) \in Seq(Task)
      /\ Head(ready) = ready[1] /\ 1 \in 1..Len(ready)
  BY QueueTypes DEF IInv
<1>2. /\ Head(ready).step \in {"pick", "use", "retrieve"} => Head(ready).who # Close
      /\ Head(ready).who # Close => pc[Head(ready).who] = Stage(Head(ready))
      /\ Head(ready).step = "use" => Head(ready).index # 0
  BY <1>1 DEF IInv, Waiters, Sound
<1>3. QED BY <1>1, <1>2 DEF Task, Stage

\* Neither the connections nor the states of the queries change.
LEMMA RestKeeps ==
  ASSUME IInv, UNCHANGED <<conns, opened, fut, future, command, reader, made, pc, on, crowded, clash>>
  PROVE  Crowd' /\ Unopened' /\ Owners' /\ NoLeak' /\ FreeIsIdle' /\ Exclusive'
BY DEF IInv, Crowd, Unopened, Owners, NoLeak, FreeIsIdle, Exclusive, isPgDbConnBusy

LEMMA WakeKeeps == ASSUME IInv, Wake PROVE IInv'
<1> DEFINE s == IF Head(ready).who = Close THEN "close" ELSE "pick"
           h == [Head(ready) EXCEPT !.step = s]
<1>1. /\ ready # <<>> /\ Head(ready).step = "wake" /\ ready' = Append(Tail(ready), h)
      /\ UNCHANGED <<conns, opened, fut, prepared, command, reader, message, lost, future, made,
                     stmt, pc, on, waiting, closes, ended, crowded, clash>>
  BY DEF Wake, Runs, Then, poolVars, connVars, madeVars, queryVars
<1>2. h \in Task /\ h.who = Head(ready).who /\ h.step = s
  BY <1>1, HeadFacts DEF Task
<1> HIDE DEF h
<1>3. Waiters' /\ Once' /\ ready' \in Seq(Task)
  BY <1>1, <1>2, ReplacingKeeps DEF IInv, Sound
<1>4. TypeOK'
  BY <1>1, <1>3 DEF IInv, TypeOK, Task
<1>5. QED BY <1>1, <1>3, <1>4, RestKeeps DEF IInv

LEMMA PickConnKeeps == ASSUME IInv, PickConn PROVE IInv'
<1> DEFINE q == Head(ready).who
<1>1. /\ ready # <<>> /\ Head(ready).step = "pick"
      /\ UNCHANGED <<conns, opened, fut, prepared, command, reader, message, lost, future, made,
                     stmt, on, waiting, closes, ended, crowded, clash>>
  BY DEF PickConn, Runs, poolVars, connVars, madeVars
<1>2. q \in Query /\ pc[q] = "waits" /\ crowded
  BY <1>1, HeadFacts DEF IInv, Crowd
<1>3. CASE \E i \in getFirstFreeConnIndex :
             /\ Then([who |-> q, step |-> "use", index |-> i])
             /\ UNCHANGED pc
  <2>1. PICK i \in getFirstFreeConnIndex :
               /\ ready' = Append(Tail(ready), [who |-> q, step |-> "use", index |-> i])
               /\ pc' = pc
    BY <1>3 DEF Then
  <2> DEFINE h == [who |-> q, step |-> "use", index |-> i]
  <2>2. i \in 0..MaxConnections
    <3>1. i \in 1..Len(conns)
      BY FirstFree
    <3>2. Len(conns) \in Nat /\ Len(conns) <= MaxConnections
      BY LenProperties DEF IInv, TypeOK
    <3>3. QED BY <3>1, <3>2, PoolAssumption
  <2>3. h \in Task /\ h.who = q /\ h.step = "use" /\ Sound(h)
    <3>1. i # 0
      BY FirstFree
    <3>2. QED BY <1>2, <2>2, <3>1 DEF Task, Query, Close, Sound
  <2> HIDE DEF h
  <2>4. Waiters' /\ Once' /\ ready' \in Seq(Task)
    BY <1>1, <2>1, <2>3, ReplacingKeeps DEF IInv, h
  <2>5. TypeOK'
    BY <1>1, <2>1, <2>4 DEF IInv, TypeOK, Task
  <2>6. QED BY <1>1, <2>1, <2>4, <2>5, RestKeeps DEF IInv
<1>4. CASE pc' = [pc EXCEPT ![q] = "done"] /\ ready' = Tail(ready)
  <2>1. \A p \in Query \ {q} : pc'[p] = pc[p]
    BY <1>4 DEF IInv, TypeOK
  <2>2. Waiters' /\ Once'
    BY <1>1, <1>2, <1>4, <2>1, LeavingKeeps DEF IInv, Query, Close
  <2>3. TypeOK'
    <3>1. ready' \in Seq(Task)
      BY <1>1, <1>4, HeadFacts
    <3>2. pc' \in [Query -> {"new", "waits", "reads", "retrieves", "done"}]
      BY <1>4 DEF IInv, TypeOK
    <3>3. QED BY <1>1, <3>1, <3>2 DEF IInv, TypeOK, Task
  <2>4. Crowd' /\ Unopened' /\ Owners' /\ NoLeak' /\ FreeIsIdle' /\ Exclusive'
    <3>1. q <= made /\ made \in Nat
      BY <1>2, Counters DEF IInv, Crowd, Query
    <3>2. UNCHANGED <<conns, opened, fut, command, reader, future, on, clash>> /\ crowded' = crowded
          /\ made' = made /\ pc' = [pc EXCEPT ![q] = "done"] /\ pc[q] \in {"new", "waits"}
          /\ q \in Query /\ q <= made' /\ made <= made' /\ made' \in Nat
      BY <1>1, <1>2, <1>4, <3>1
    <3> HIDE DEF q
    <3>3. QED BY <3>2, IdleKeeps
  <2>5. QED BY <2>2, <2>3, <2>4 DEF IInv
<1>5. QED BY <1>3, <1>4 DEF PickConn

LEMMA UsePickedKeeps == ASSUME IInv, UsePicked PROVE IInv'
<1> DEFINE q == Head(ready).who
           i == Head(ready).index
<1>1. /\ ready # <<>> /\ Head(ready).step = "use" /\ ready' = Tail(ready)
      /\ UNCHANGED <<conns, opened, made, stmt, waiting, closes, crowded>>
  BY DEF UsePicked, Runs, poolVars, madeVars
<1>2. q \in Query /\ pc[q] = "waits" /\ crowded /\ i \in Nat \ {0} /\ q <= made /\ made \in Nat
  <2>1. q \in Query /\ pc[q] = "waits" /\ i \in Nat \ {0} /\ made \in Nat
    BY <1>1, HeadFacts, Counters DEF IInv
  <2>2. QED BY <2>1 DEF IInv, Crowd, Query, Task
<1>3. ready' \in Seq(Task)
  BY <1>1, HeadFacts
<1>4. CASE /\ i <= Len(conns) /\ UseConn(q, conns[i], q \in stmt) /\ ended' = ended
  <2>1. conns[i] \in Range(conns) /\ conns[i] \in Conn /\ conns[i] <= opened
    <3>1. conns \in Seq(Conn) /\ i \in 1..Len(conns)
      <4>1. conns \in Seq(Conn)
        BY DEF IInv, TypeOK
      <4>2. QED BY <1>2, <1>4, <4>1, LenProperties
    <3>2. conns[i] \in Range(conns) /\ conns[i] \in Conn
      BY <3>1, RangeOfConns
    <3>3. QED BY <3>2 DEF IInv, Unopened
  <2>2. Crowd' /\ Unopened' /\ Owners' /\ NoLeak' /\ FreeIsIdle' /\ Exclusive'
    <3>1. opened \in Nat
      BY Counters DEF IInv
    <3>2. \A d \in Range(conns) : d <= opened
      BY DEF IInv, Unopened
    <3>3. QED BY <1>1, <1>2, <1>4, <2>1, <3>1, <3>2, UsingKeeps
  <2>3. Used(q, conns[i])
    BY <1>2, <1>4, <2>1, UseConnTypes DEF IInv
  <2>4. /\ \A p \in Query \ {q} : pc'[p] = pc[p]
        /\ pc' \in [Query -> {"new", "waits", "reads", "retrieves", "done"}]
    BY <2>3 DEF Used, IInv, TypeOK
  <2>5. Waiters' /\ Once'
    BY <1>1, <1>2, <2>4, LeavingKeeps DEF IInv, Query, Close
  <2>6. TypeOK'
    BY <1>1, <1>3, <1>4, <2>3, <2>4 DEF IInv, TypeOK, Used, Task
  <2>7. QED BY <2>2, <2>5, <2>6 DEF IInv
<1>5. CASE /\ ended' = "index"
           /\ UNCHANGED <<connVars, future, queryVars, clash>>
  <2>1. UNCHANGED <<fut, prepared, command, reader, message, lost, future, pc, on, clash>>
    BY <1>5 DEF connVars, queryVars
  <2>2. Waiters' /\ Once'
    BY <1>1, <2>1, LeavingKeeps DEF IInv
  <2>3. TypeOK'
    BY <1>1, <1>3, <1>5, <2>1 DEF IInv, TypeOK, Task
  <2>4. QED BY <1>1, <2>1, <2>2, <2>3, RestKeeps DEF IInv
<1>6. QED BY <1>4, <1>5 DEF UsePicked

LEMMA DataArrivesKeeps == ASSUME IInv, NEW c \in Conn, DataArrives(c) PROVE IInv'
<1> DEFINE q == reader[c]
           h == [who |-> q, step |-> "retrieve", index |-> 0]
<1>1. /\ q # None /\ pc[q] = "reads" /\ pc' = [pc EXCEPT ![q] = "retrieves"]
      /\ ready' = Append(ready, h)
      /\ UNCHANGED <<conns, opened, fut, prepared, command, reader, message, lost, future, made,
                     stmt, on, waiting, closes, ended, crowded, clash>>
  BY DEF DataArrives, poolVars, connVars, madeVars
<1>2. q \in Query /\ h \in Task /\ h.who = q /\ h.step = "retrieve" /\ q # Close
  <2>1. q \in Query
    BY <1>1 DEF IInv, TypeOK
  <2>2. 0 \in 0..MaxConnections
    BY PoolAssumption
  <2>3. QED BY <2>1, <2>2 DEF Task, Query, Close
<1> HIDE DEF q, h
<1>3. Waiters' /\ Once' /\ ready' \in Seq(Task)
  BY <1>1, <1>2, JoiningKeeps DEF IInv
<1>4. /\ pc' \in [Query -> {"new", "waits", "reads", "retrieves", "done"}]
      /\ pc'[q] = "retrieves" /\ \A p \in Query \ {q} : pc'[p] = pc[p]
  BY <1>1, <1>2 DEF IInv, TypeOK
<1>5. TypeOK'
  BY <1>1, <1>3, <1>4 DEF IInv, TypeOK, Task
<1>6. Crowd' /\ Owners'
  <2>1. Crowd'
    BY <1>1, <1>2, <1>4 DEF IInv, Crowd
  <2>2. \A d \in Conn : fut[d] \in Query \cup {None}
    BY DEF IInv, TypeOK
  <2>3. Owners'
    BY <1>1, <1>4, <2>2 DEF IInv, Owners
  <2>4. QED BY <2>1, <2>3
<1>7. NoLeak'
  <2>1. ASSUME ~clash, NEW d \in Range(conns), isPgDbConnBusy(d)
        PROVE  /\ on[fut[d]] = d /\ pc'[fut[d]] \in {"reads", "retrieves"}
               /\ command[d] = fut[d] /\ reader[d] = fut[d]
    <3>1. d \in Conn
      BY RangeOfConns DEF IInv, TypeOK
    <3>2. fut[d] \in Query
      BY <2>1, <3>1 DEF IInv, TypeOK, isPgDbConnBusy
    <3>3. QED BY <1>4, <2>1, <3>2 DEF IInv, NoLeak
  <2>2. QED BY <1>1, <2>1 DEF NoLeak, isPgDbConnBusy
<1>8. FreeIsIdle' /\ Unopened' /\ Exclusive'
  BY <1>1 DEF IInv, FreeIsIdle, Unopened, Exclusive, isPgDbConnBusy
<1>9. QED BY <1>3, <1>5, <1>6, <1>7, <1>8 DEF IInv

LEMMA RetrieveKeeps == ASSUME IInv, NEW failed \in BOOLEAN, Retrieve(failed) PROVE IInv'
<1> DEFINE q == Head(ready).who
           c == on[q]
           f == fut[c]
<1>1. /\ ready # <<>> /\ Head(ready).step = "retrieve" /\ c \in Range(conns)
      /\ command' = [command EXCEPT ![c] = None] /\ reader' = [reader EXCEPT ![c] = None]
      /\ message' \in {message, message \cup {c}} /\ lost' \in {lost, lost \cup {c}}
      /\ pc' = [pc EXCEPT ![q] = "done"]
      /\ UNCHANGED <<conns, opened, fut, prepared, made, stmt, on, closes, crowded, clash>>
  BY DEF Retrieve, Runs, poolVars, madeVars
<1>2. \/ /\ \E how \in {"failed", "completed"} : future' = [future EXCEPT ![f] = how]
         /\ GoOn(f, Tail(ready))
      \/ future[f] # "pending" /\ ready' = Tail(ready) /\ UNCHANGED <<future, waiting>>
  BY DEF Retrieve, Finish
<1>3. /\ q \in Query /\ q # Close /\ pc[q] = "retrieves" /\ c \in Conn
      /\ f \in Query \cup {None} /\ Range(conns) \subseteq Conn
  <2>1. q \in Query /\ pc[q] = "retrieves"
    BY <1>1, HeadFacts
  <2>2. Range(conns) \subseteq Conn
    BY RangeOfConns DEF IInv, TypeOK
  <2>3. c \in Conn
    BY <1>1, <2>2
  <2> HIDE DEF c
  <2>4. f \in Query \cup {None}
    BY <2>3 DEF IInv, TypeOK
  <2>5. q # Close
    BY <2>1 DEF Query, Close
  <2>6. QED BY <2>1, <2>2, <2>3, <2>4, <2>5
<1>t. /\ ended' \in {"no", "index", "freed", "finished twice", "not closed", "nil"}
      /\ future' \in [Query -> {"none", "pending", "completed", "failed"}]
  <2>1. ended \in {"no", "index", "freed", "finished twice", "not closed", "nil"}
    BY DEF IInv, TypeOK
  <2>2. ended' \in {ended, "finished twice"}
    BY DEF Retrieve
  <2>3. future \in [Query -> {"none", "pending", "completed", "failed"}]
    BY DEF IInv, TypeOK
  <2>4. QED BY <1>2, <2>1, <2>2, <2>3
<1>p. /\ pc' \in [Query -> {"new", "waits", "reads", "retrieves", "done"}]
      /\ pc'[q] = "done" /\ \A p \in Query \ {q} : pc'[p] = pc[p]
  BY <1>1, <1>3 DEF IInv, TypeOK
<1>4. Waiters' /\ Once' /\ waiting' \in Seq(Wait) /\ ready' \in Seq(Task)
  <2>1. CASE GoOn(f, Tail(ready))
    BY <1>1, <1>3, <1>p, <2>1, GoingOnKeeps DEF IInv
  <2>2. CASE ready' = Tail(ready) /\ UNCHANGED waiting
    <3>1. Waiters' /\ Once'
      BY <1>1, <1>3, <1>p, <2>2, LeavingKeeps DEF IInv
    <3>2. waiting' \in Seq(Wait) /\ ready' \in Seq(Task)
      BY <1>1, <2>2, HeadFacts DEF IInv, TypeOK, Wait
    <3>3. QED BY <3>1, <3>2
  <2>3. QED BY <1>2, <2>1, <2>2
<1> HIDE DEF q, c, f
<1>5. TypeOK'
  BY <1>1, <1>3, <1>4, <1>p, <1>t DEF IInv, TypeOK, Task, Wait
<1>6. Crowd' /\ Owners'
  <2>1. Crowd'
    <3>1. q <= made
      BY <1>3, Counters DEF IInv, Crowd, Query
    <3>2. QED BY <1>1, <1>3, <1>p, <3>1, Counters DEF IInv, Crowd, Query
  <2>2. \A d \in Conn : fut[d] \in Query \cup {None}
    BY DEF IInv, TypeOK
  <2>3. Owners'
    BY <1>1, <1>p, <2>2 DEF IInv, Owners
  <2>4. QED BY <2>1, <2>3
<1>7. \A d \in Conn \ {c} : command'[d] = command[d] /\ reader'[d] = reader[d]
  BY <1>1 DEF IInv, TypeOK
<1>8. command'[c] = None
  BY <1>1, <1>3 DEF IInv, TypeOK
<1>f. fut \in [Conn -> Query \cup {None}] /\ future \in [Query -> {"none", "pending", "completed", "failed"}]
  BY DEF IInv, TypeOK
\* The connection of q counts as free now, and no other was busy with its future.
<1>9. ASSUME NEW d \in Range(conns), isPgDbConnBusy(d)', ~clash
      PROVE  d # c /\ isPgDbConnBusy(d) /\ fut[d] # q
  <2>1. fut[d] # None /\ future'[fut[d]] = "pending" /\ d \in Conn /\ fut[d] \in Query
    BY <1>1, <1>3, <1>9, <1>f DEF isPgDbConnBusy
  <2>2. fut[d] # f /\ future[fut[d]] = "pending"
    BY <1>2, <1>f, <2>1
  <2>3. isPgDbConnBusy(d) /\ d # c
    BY <2>1, <2>2 DEF isPgDbConnBusy, f
  <2>4. on[fut[d]] = d
    BY <1>9, <2>3 DEF IInv, NoLeak
  <2>5. QED BY <2>3, <2>4 DEF c
<1>a. NoLeak'
  <2>1. ASSUME NEW d \in Range(conns), isPgDbConnBusy(d)', ~clash
        PROVE  /\ on[fut[d]] = d /\ pc'[fut[d]] \in {"reads", "retrieves"}
               /\ command'[d] = fut[d] /\ reader'[d] = fut[d]
    <3>1. d # c /\ isPgDbConnBusy(d) /\ fut[d] # q /\ d \in Conn
      BY <1>3, <1>9, <2>1
    <3>2. fut[d] \in Query
      BY <3>1, <1>f DEF isPgDbConnBusy
    <3>3. QED BY <1>7, <1>p, <2>1, <3>1, <3>2 DEF IInv, NoLeak
  <2>2. QED BY <1>1, <2>1 DEF NoLeak
<1>b. FreeIsIdle'
  <2>1. ASSUME NEW d \in Range(conns), ~(isPgDbConnBusy(d)'), ~clash
        PROVE  command'[d] = None
    <3>1. CASE d = c
      BY <1>8, <3>1
    <3>2. CASE d # c /\ isPgDbConnBusy(d)
      <4>1. fut[d] # None /\ future[fut[d]] = "pending" /\ fut'[d] = fut[d] /\ on[fut[d]] = d
            /\ fut[d] \in Query
        BY <1>1, <1>3, <1>f, <2>1, <3>2 DEF isPgDbConnBusy, IInv, NoLeak
      <4>2. fut[d] = f
        BY <1>2, <1>f, <2>1, <4>1 DEF isPgDbConnBusy
      <4>3. isPgDbConnBusy(c)
        BY <4>1, <4>2 DEF isPgDbConnBusy, f
      <4>4. on[f] = c
        BY <1>1, <2>1, <4>3 DEF IInv, NoLeak, f
      <4>5. QED BY <3>2, <4>1, <4>2, <4>4
    <3>3. CASE d # c /\ ~isPgDbConnBusy(d)
      BY <1>3, <1>7, <2>1, <3>3 DEF IInv, FreeIsIdle
    <3>4. QED BY <3>1, <3>2, <3>3
  <2>2. QED BY <1>1, <2>1 DEF FreeIsIdle
<1>c. Unopened' /\ Exclusive'
  <2>1. Exclusive'
    BY <1>1 DEF IInv, Exclusive
  <2>2. Unopened'
    BY <1>1, <1>7, <1>8 DEF IInv, Unopened
  <2>3. QED BY <2>1, <2>2
<1>d. QED BY <1>4, <1>5, <1>6, <1>a, <1>b, <1>c DEF IInv

LEMMA RetrieveClosedKeeps == ASSUME IInv, RetrieveClosed PROVE IInv'
<1>1. /\ ended' = "freed"
      /\ UNCHANGED <<conns, opened, fut, prepared, command, reader, message, lost, future, made,
                     stmt, pc, on, waiting, ready, closes, crowded, clash>>
  BY DEF RetrieveClosed, poolVars, connVars, madeVars, queryVars, loopVars
<1>2. TypeOK'
  BY <1>1 DEF IInv, TypeOK
<1>3. Waiters' /\ Once'
  BY <1>1 DEF IInv, Waiters, Stage, Once
<1>4. QED BY <1>1, <1>2, <1>3, RestKeeps DEF IInv
------------------------------------------------------------------------------
LEMMA CloseAllKeeps ==
  ASSUME IInv, CloseAll, UNCHANGED <<opened, fut, future, made, pc, on, crowded, clash>>
  PROVE  /\ Crowd' /\ Unopened' /\ Owners' /\ NoLeak' /\ FreeIsIdle' /\ Exclusive'
         /\ conns' \in Seq(Conn) /\ Len(conns') <= MaxConnections
         /\ command' \in [Conn -> Query \cup {None}] /\ reader' \in [Conn -> Query \cup {None}]
         /\ ended' \in {ended, "not closed"}
<1>t. /\ conns \in Seq(Conn) /\ Len(conns) <= MaxConnections
      /\ command \in [Conn -> Query \cup {None}] /\ reader \in [Conn -> Query \cup {None}]
  BY DEF IInv, TypeOK
<1>1. Crowd' /\ Owners' /\ Exclusive'
  BY DEF IInv, Crowd, Owners, Exclusive
<1>2. CASE /\ conns' = <<>>
           /\ command' = [c \in Conn |-> IF c \in Range(conns) THEN None ELSE command[c]]
           /\ reader' = [c \in Conn |-> IF c \in Range(conns) THEN None ELSE reader[c]]
           /\ ended' = ended
  <2>1. Range(conns') = {}
    BY <1>2 DEF Range
  <2>2. NoLeak' /\ FreeIsIdle'
    BY <2>1 DEF NoLeak, FreeIsIdle
  <2>3. Unopened'
    BY <1>2, <2>1 DEF IInv, Unopened
  <2>4. conns' \in Seq(Conn) /\ Len(conns') <= MaxConnections
    BY <1>2, EmptySeq, PoolAssumption
  <2>5. command' \in [Conn -> Query \cup {None}] /\ reader' \in [Conn -> Query \cup {None}]
    BY <1>2, <1>t
  <2>6. QED BY <1>1, <1>2, <2>2, <2>3, <2>4, <2>5
<1>3. CASE ended' = "not closed" /\ UNCHANGED <<conns, command, reader>>
  BY <1>t, <1>3, RestKeeps
<1>4. QED BY <1>2, <1>3 DEF CloseAll

LEMMA CloseKeeps == ASSUME IInv, close PROVE IInv'
<1> DEFINE futs == { fut[c] : c \in Range(conns) }
           w == [who |-> Close, futs |-> futs]
<1>1. /\ UNCHANGED <<opened, fut, prepared, message, lost, future, made, stmt, pc, on, ready, crowded, clash>>
      /\ closes < MaxCloses /\ closes' = closes + 1
  BY DEF close, madeVars, queryVars
<1>c. closes' \in 0..MaxCloses
  <2>1. closes \in 0..MaxCloses
    BY DEF IInv, TypeOK
  <2>2. QED BY <1>1, <2>1, PoolAssumption
<1>2. CASE ended' = "nil" /\ UNCHANGED <<conns, command, reader, waiting>>
  <2>1. TypeOK'
    BY <1>1, <1>2, <1>c DEF IInv, TypeOK
  <2>2. Waiters' /\ Once'
    BY <1>1, <1>2 DEF IInv, Waiters, Stage, Once
  <2>3. QED BY <1>1, <1>2, <2>1, <2>2, RestKeeps DEF IInv
<1>3. CASE /\ None \notin futs /\ waiting' = Append(waiting, w)
           /\ UNCHANGED <<conns, command, reader, ended>>
  <2>1. w \in Wait /\ w.who = Close
    <3>1. Range(conns) \subseteq Conn
      BY RangeOfConns DEF IInv, TypeOK
    <3>2. \A c \in Conn : fut[c] \in Query \cup {None}
      BY DEF IInv, TypeOK
    <3>3. futs \subseteq Query
      BY <1>3, <3>1, <3>2
    <3>4. QED BY <3>3 DEF Wait
  <2> HIDE DEF w
  <2>2. Waiters' /\ Once' /\ waiting' \in Seq(Wait)
    BY <1>1, <1>3, <2>1, WaitingKeeps DEF IInv
  <2>3. TypeOK'
    BY <1>1, <1>3, <1>c, <2>2 DEF IInv, TypeOK, Wait
  <2>4. QED BY <1>1, <1>3, <2>2, <2>3, RestKeeps DEF IInv
<1>4. CASE CloseAll /\ waiting' = waiting
  <2>1. Waiters' /\ Once'
    BY <1>1, <1>4 DEF IInv, Waiters, Stage, Once
  <2>2. TypeOK'
    BY <1>1, <1>4, <1>c, CloseAllKeeps DEF IInv, TypeOK
  <2>3. QED BY <1>1, <1>4, <2>1, <2>2, CloseAllKeeps DEF IInv
<1>5. QED BY <1>2, <1>3, <1>4 DEF close

LEMMA CloseGoesOnKeeps == ASSUME IInv, CloseGoesOn PROVE IInv'
<1>1. /\ ready # <<>> /\ CloseAll /\ ready' = Tail(ready)
      /\ UNCHANGED <<opened, fut, prepared, message, lost, future, made, stmt, pc, on, waiting,
                     closes, crowded, clash>>
  BY DEF CloseGoesOn, Runs, madeVars, queryVars
<1>2. Waiters' /\ Once'
  BY <1>1, LeavingKeeps DEF IInv
<1>3. ready' \in Seq(Task)
  BY <1>1, HeadFacts
<1>4. TypeOK'
  BY <1>1, <1>3, CloseAllKeeps DEF IInv, TypeOK, Task
<1>5. QED BY <1>1, <1>2, <1>4, CloseAllKeeps DEF IInv
------------------------------------------------------------------------------
\* The strengthening that the next theorems rest on.
THEOREM Invariance == Spec => []IInv
<1>1. Init => IInv
  BY InitHolds
<1>2. IInv /\ [Next]_vars => IInv'
  <2> SUFFICES ASSUME IInv, [Next]_vars PROVE IInv' OBVIOUS
  <2>1. ASSUME NEW asStmt \in BOOLEAN, Start(asStmt) PROVE IInv'
    BY <2>1, StartKeeps
  <2>2. CASE RunReady
    BY <2>2, WakeKeeps, PickConnKeeps, UsePickedKeeps, RetrieveKeeps, RetrieveClosedKeeps,
       CloseGoesOnKeeps DEF RunReady
  <2>3. CASE close
    BY <2>3, CloseKeeps
  <2>4. ASSUME NEW c \in Conn, DataArrives(c) PROVE IInv'
    BY <2>4, DataArrivesKeeps
  <2>5. CASE UNCHANGED vars
    <3>1. UNCHANGED <<conns, opened, fut, prepared, command, reader, message, lost, future, made,
                      stmt, pc, on, waiting, ready, closes, ended, crowded, clash>>
      BY <2>5 DEF vars, poolVars, connVars, madeVars, queryVars, loopVars
    <3>2. TypeOK'
      BY <3>1 DEF IInv, TypeOK
    <3>3. Waiters' /\ Once'
      BY <3>1 DEF IInv, Waiters, Stage, Once
    <3>4. QED BY <3>1, <3>2, <3>3, RestKeeps DEF IInv
  <2>6. QED BY <2>1, <2>2, <2>3, <2>4, <2>5 DEF Next
<1>3. QED BY <1>1, <1>2, PTL DEF Spec

\* The pool never has more than maxConnections connections (pgasyncpool.nim:90).
THEOREM TypeCorrectness == Spec => []TypeOK
<1>1. IInv => TypeOK BY DEF IInv
<1>2. QED BY <1>1, Invariance, PTL

\* Every error path finishes futBecomeFree (dbconn.nim:265, 305): unless two
\* queries met on a connection, a busy one has a query that is going to finish it.
THEOREM NothingLeaks == Spec => []NoLeak
<1>1. IInv => NoLeak BY DEF IInv
<1>2. QED BY <1>1, Invariance, PTL

\* Two queries meet on a connection only after the pool was full, when one has
\* waited: what getConnIndex picks without an await is in use by nobody.
THEOREM PickedAtOnceIsFree == Spec => []Exclusive
<1>1. IInv => Exclusive BY DEF IInv
<1>2. QED BY <1>1, Invariance, PTL
==============================================================================
