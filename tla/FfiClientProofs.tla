--------------------------- MODULE FfiClientProofs ---------------------------
(***************************************************************************)
(* What waiting for every callback gives a program, for every disciplined  *)
(* program, library and schedule: while main runs nothing of a call is     *)
(* left over, a variable holds the answer it was asked for, and the calls  *)
(* are those of SyncCalls.                                                 *)
(***************************************************************************)
EXTENDS FfiClient, EncodingProofs

Strict == Disciplined(prog)

\* The body, or the rest of a body, of a callback that still has to signal.
Owed(body) ==
  /\ body \in Seq(Range(body)) /\ body # <<>>
  /\ Dos(body) \subseteq {"exitOnErr", "store", "signal"}
  /\ StoredIn(body) \subseteq Cell
  /\ SignalsLast(body)

\* Whether the outstanding call is still to write to c.
Pending(c) ==
  \/ \E r \in posted : c \in StoredIn(r.body)
  \/ running.call # 0 /\ c \in StoredIn(running.body)

Answered(c) == want[c] # 0 => cells[c].call = want[c]

\* The steps left are steps of the program, and a variable is read after a call for it.
ReadsOK(steps, asked) ==
  \A i \in 1..Len(steps) : steps[i].op = "use" =>
     \/ steps[i].cell \in Cell /\ asked[steps[i].cell] # 0
     \/ \E j \in 1..(i - 1) : steps[j].op = "call" /\ steps[i].cell \in StoredIn(steps[j].body)

CodeOK == code \in Seq(StepsOf(prog)) /\ ReadsOK(code, want)

\* Where the one call that may be outstanding is: nowhere, posted, being answered,
\* or answered with the signal not yet taken.
None == posted = {} /\ running.call = 0 /\ ~executed
Sent == /\ \E r \in posted : posted = {r} /\ r.call = calls /\ r.env = frame /\ Owed(r.body)
        /\ running.call = 0 /\ ~executed
Answering == /\ posted = {} /\ ~executed
             /\ running.call = calls /\ running.env = frame /\ Owed(running.body)
Signalled == posted = {} /\ running.call = 0 /\ executed

PhaseOK ==
  \/ thread = "runs" /\ None
  \/ thread \in {"locks", "sleeps"} /\ calls # 0 /\ (Sent \/ Answering)
  \/ thread = "locks" /\ calls # 0 /\ Signalled

\* Between calls the library's thread runs at most an event callback.
Harmless(body) == body \in Seq(Range(body)) /\ Dos(body) \subseteq {"exitOnErr"}

EventOK ==
  /\ DOMAIN running = {"call", "ret", "body", "env", "event"}
  /\ running.call = 0 => Harmless(running.body)

DataOK ==
  /\ calls \in Nat
  /\ cells = [c \in Cell |-> cells[c]]
  /\ want \in [Cell -> Nat]
  /\ \A c \in Cell : IF Pending(c) THEN want[c] = calls ELSE Answered(c)

IInv == /\ prog \in Programs
        /\ Strict => CodeOK /\ PhaseOK /\ EventOK /\ DataOK
------------------------------------------------------------------------------
\* What is left of a sequence when its first element is taken.
LEMMA TailFacts ==
  ASSUME NEW S, NEW b \in Seq(S), b # <<>>
  PROVE  /\ Head(b) = b[1] /\ Tail(b) \in Seq(S) /\ Len(Tail(b)) = Len(b) - 1 /\ Len(b) \in Nat /\ Len(b) >= 1
         /\ \A i \in 1..Len(Tail(b)) : Tail(b)[i] = b[i + 1]
         /\ 1 \in DOMAIN b
  OBVIOUS

\* A sequence is one over any set its elements are in.
LEMMA InSeqOfRange ==
  ASSUME NEW S, NEW T, NEW t \in Seq(S), \A i \in 1..Len(t) : t[i] \in T
  PROVE  t \in Seq(T)
  OBVIOUS

LEMMA EmptyIfShort ==
  ASSUME NEW S, NEW t \in Seq(S), Len(t) = 0
  PROVE  t = <<>>
  BY EmptySeq

\* The range of what is left, and of the whole.
LEMMA TailRange ==
  ASSUME NEW b, b \in Seq(Range(b)), b # <<>>
  PROVE  /\ Tail(b) \in Seq(Range(Tail(b)))
         /\ Range(b) = {Head(b)} \cup Range(Tail(b))
<1>1. Head(b) = b[1] /\ Tail(b) \in Seq(Range(b)) /\ Len(Tail(b)) = Len(b) - 1 /\ Len(b) \in Nat \ {0}
  OBVIOUS
<1>2. \A i \in 1..Len(Tail(b)) : Tail(b)[i] = b[i + 1]
  OBVIOUS
<1>3. DOMAIN b = 1..Len(b) /\ DOMAIN Tail(b) = 1..(Len(b) - 1)
  BY <1>1
<1>4. Range(b) = {Head(b)} \cup Range(Tail(b))
  <2>1. \A i \in 1..Len(b) : i = 1 \/ (i - 1 \in 1..(Len(b) - 1) /\ b[i] = Tail(b)[i - 1])
    BY <1>1, <1>2
  <2>2. \A i \in 1..(Len(b) - 1) : i + 1 \in 1..Len(b) /\ Tail(b)[i] = b[i + 1]
    BY <1>1, <1>2
  <2>3. ASSUME NEW x \in Range(b) PROVE x \in {Head(b)} \cup Range(Tail(b))
    <3>1. PICK i \in 1..Len(b) : x = b[i]
      BY <1>3 DEF Range
    <3>2. QED BY <2>1, <3>1, <1>1, <1>3 DEF Range
  <2>4. ASSUME NEW x \in Range(Tail(b)) PROVE x \in Range(b)
    <3>1. PICK i \in 1..(Len(b) - 1) : x = Tail(b)[i]
      BY <1>3 DEF Range
    <3>2. QED BY <2>2, <3>1, <1>3 DEF Range
  <2>5. Head(b) \in Range(b)
    BY <1>1, <1>3 DEF Range
  <2>6. QED BY <2>3, <2>4, <2>5
<1>5. Tail(b) \in Seq(Range(Tail(b)))
  <2>1. \A i \in 1..Len(Tail(b)) : Tail(b)[i] \in Range(Tail(b))
    BY <1>3, <1>1 DEF Range
  <2> DEFINE S == Range(b)  T == Range(Tail(b))  t == Tail(b)
  <2>2. t \in Seq(S) /\ \A i \in 1..Len(t) : t[i] \in T
    BY <2>1, <1>1
  <2> HIDE DEF S, T, t
  <2>3. t \in Seq(T)
    BY <2>2, InSeqOfRange
  <2>4. QED BY <2>3 DEF T, t
<1>6. QED BY <1>4, <1>5

\* What the rest of a body does and stores.
LEMMA BodyTail ==
  ASSUME NEW b, b \in Seq(Range(b)), b # <<>>
  PROVE  /\ Tail(b) \in Seq(Range(Tail(b)))
         /\ Dos(b) = {Head(b).do} \cup Dos(Tail(b))
         /\ Head(b).do # "store" => StoredIn(b) = StoredIn(Tail(b))
         /\ Head(b).do = "store" => StoredIn(b) = {Head(b).cell} \cup StoredIn(Tail(b))
  BY TailRange DEF Dos, StoredIn

\* A body that is owed and does not signal first is owed still.
LEMMA OwedGoesOn ==
  ASSUME NEW b, Owed(b), Head(b).do # "signal"
  PROVE  Owed(Tail(b))
<1>1. /\ Tail(b) \in Seq(Range(Tail(b))) /\ Dos(Tail(b)) \subseteq Dos(b) /\ StoredIn(Tail(b)) \subseteq StoredIn(b)
  BY BodyTail DEF Owed
<1> DEFINE t == Tail(b)
           h == Head(b)
<1>2. h = b[1] /\ Len(b) \in Nat \ {0} /\ Len(t) = Len(b) - 1 /\ \A i \in 1..Len(t) : t[i] = b[i + 1]
  BY TailFacts DEF Owed
<1>3. t \in Seq(Range(t)) /\ h.do # "signal" /\ SignalsLast(b)
  BY <1>1 DEF Owed
<1> HIDE DEF t, h
<1>4. Len(b) # 1
  BY <1>2, <1>3 DEF SignalsLast
<1>5. SignalsLast(t)
  BY <1>2, <1>3 DEF SignalsLast
<1>6. t # <<>>
  BY <1>2, <1>4, EmptySeq
<1>7. QED BY <1>1, <1>5, <1>6 DEF Owed, t

\* One that signals first is over with it, and has nothing to store.
LEMMA OwedSignals ==
  ASSUME NEW b, Owed(b), Head(b).do = "signal"
  PROVE  Tail(b) = <<>> /\ StoredIn(b) = {}
<1> DEFINE t == Tail(b)
           h == Head(b)
<1>1. h = b[1] /\ Len(b) \in Nat \ {0} /\ Len(t) = Len(b) - 1 /\ t \in Seq(Range(b))
  BY TailFacts DEF Owed
<1>2. h.do = "signal" /\ SignalsLast(b)
  BY DEF Owed
<1> HIDE DEF t, h
<1>3. Len(b) = 1
  BY <1>1, <1>2 DEF SignalsLast
<1>4. t = <<>>
  BY <1>1, <1>3, EmptyIfShort
<1>5. StoredIn(b) = StoredIn(t)
  BY <1>2, BodyTail DEF Owed, t, h
<1>6. StoredIn(<<>>) = {}
  BY DEF StoredIn, Range
<1>7. QED BY <1>4, <1>5, <1>6 DEF t

\* A body that is typed stores in declared variables.
LEMMA BodyFacts ==
  ASSUME NEW b \in Body
  PROVE  b \in Seq(Range(b)) /\ StoredIn(b) \subseteq Cell
<1> DEFINE Parts == [do : {"exitOnErr", "signal", "show"}] \cup [do : {"store"}, cell : Cell]
<1>1. b \in Seq(Parts)
  BY DEF Body
<1>2. \A o \in Parts : o.do = "store" => o.cell \in Cell
  OBVIOUS
<1> HIDE DEF Parts
<1>3. \A i \in 1..Len(b) : b[i] \in Range(b)
  BY <1>1 DEF Range
<1>4. Range(b) \subseteq Parts
  BY <1>1 DEF Range
<1>5. b \in Seq(Range(b))
  BY <1>1, <1>3, InSeqOfRange
<1>6. QED BY <1>2, <1>4, <1>5 DEF StoredIn

\* What ProgramsAreWritten says of the sequences.
LEMMA ProgramFacts ==
  \A p \in Programs :
    /\ p.onEvent \in Seq(Range(p.onEvent))
    /\ \A script \in Scripts(p) : script \in Seq(Range(script))
    /\ \A s \in StepsOf(p) :
         s.op = "call" => s.body \in Seq(Range(s.body)) /\ StoredIn(s.body) \subseteq Cell
  BY ProgramsAreWritten, BodyFacts

\* The steps of a disciplined program.
LEMMA StepFacts ==
  ASSUME NEW p \in Programs, Disciplined(p), NEW s \in StepsOf(p)
  PROVE  /\ s.op \in {"call", "use", "listen", "encode"}
         /\ s.op = "call" => /\ s.waits /\ (s.strict \/ "exitOnErr" \in Dos(s.body))
                             /\ Owed(s.body)
<1>1. PICK script \in Scripts(p) : s \in Range(script)
  BY DEF StepsOf
<1>2. script \in Seq(Range(script))
  BY ProgramFacts
<1>3. PICK i \in 1..Len(script) : s = script[i]
  BY <1>1, <1>2 DEF Range
<1>4. s.op \in {"call", "use", "listen", "encode"} /\ (s.op = "call" => WaitsForItsSignal(s))
  BY <1>3 DEF Disciplined
<1>5. s.op = "call" => s.body \in Seq(Range(s.body)) /\ StoredIn(s.body) \subseteq Cell
  BY ProgramFacts
<1>6. QED BY <1>4, <1>5 DEF WaitsForItsSignal, Owed

\* Any of its scripts may be begun.
LEMMA ScriptFacts ==
  ASSUME NEW p \in Programs, Disciplined(p), NEW script \in Scripts(p), NEW asked
  PROVE  script \in Seq(StepsOf(p)) /\ ReadsOK(script, asked)
<1>1. script \in Seq(Range(script)) /\ Range(script) \subseteq StepsOf(p)
  BY ProgramFacts DEF StepsOf
<1>2. script \in Seq(StepsOf(p))
  BY <1>1, SeqMonotonic
<1>3. ReadsOK(script, asked)
  BY DEF Disciplined, ReadsOK
<1>4. QED BY <1>2, <1>3

\* A step is taken: what is left is still in order, if a call is noted.
LEMMA CodeGoesOn ==
  ASSUME NEW S, NEW steps \in Seq(S), steps # <<>>, NEW before, NEW after, ReadsOK(steps, before),
         \A c \in Cell : before[c] # 0 => after[c] # 0,
         Head(steps).op = "call" => \A c \in StoredIn(Head(steps).body) : c \in Cell /\ after[c] # 0
  PROVE  Tail(steps) \in Seq(S) /\ ReadsOK(Tail(steps), after)
<1> DEFINE t == Tail(steps)
           h == Head(steps)
<1>1. h = steps[1] /\ Len(steps) \in Nat \ {0} /\ Len(t) = Len(steps) - 1 /\ t \in Seq(S)
  BY TailFacts
<1>2. \A i \in 1..Len(t) : t[i] = steps[i + 1]
  BY TailFacts
<1>3. h.op = "call" => \A c \in StoredIn(h.body) : c \in Cell /\ after[c] # 0
  OBVIOUS
<1> HIDE DEF t, h
<1>4. ASSUME NEW i \in 1..Len(t), t[i].op = "use"
      PROVE  \/ t[i].cell \in Cell /\ after[t[i].cell] # 0
             \/ \E j \in 1..(i - 1) : t[j].op = "call" /\ t[i].cell \in StoredIn(t[j].body)
  <2> DEFINE c == t[i].cell
  <2>1. i + 1 \in 1..Len(steps) /\ steps[i + 1].op = "use" /\ c = steps[i + 1].cell
    BY <1>1, <1>2, <1>4
  <2>2. \/ c \in Cell /\ before[c] # 0
        \/ \E j \in 1..i : steps[j].op = "call" /\ c \in StoredIn(steps[j].body)
    BY <2>1, <1>1 DEF ReadsOK
  <2>3. CASE c \in Cell /\ before[c] # 0
    BY <2>3
  <2>4. ASSUME NEW j \in 1..i, steps[j].op = "call", c \in StoredIn(steps[j].body)
        PROVE  (c \in Cell /\ after[c] # 0)
                 \/ \E k \in 1..(i - 1) : t[k].op = "call" /\ c \in StoredIn(t[k].body)
    <3>1. CASE j = 1
      BY <3>1, <2>4, <1>1, <1>3
    <3>2. CASE j # 1
      <4>1. j - 1 \in 1..(i - 1) /\ j - 1 \in 1..Len(t) /\ (j - 1) + 1 = j
        BY <3>2, <1>1
      <4>2. t[j - 1] = steps[j]
        BY <4>1, <1>2
      <4>3. QED BY <4>1, <4>2, <2>4
    <3>3. QED BY <3>1, <3>2
  <2>5. QED BY <2>2, <2>3, <2>4
<1>5. QED BY <1>1, <1>4 DEF ReadsOK, t
------------------------------------------------------------------------------
coreVars == <<thread, executed, calls, frame, cells, posted, running, want>>

\* Of the calls nothing changes.
LEMMA CoreKept ==
  ASSUME PhaseOK, EventOK, DataOK, UNCHANGED coreVars
  PROVE  PhaseOK' /\ EventOK' /\ DataOK'
<1>1. PhaseOK'
  BY DEF coreVars, PhaseOK, None, Sent, Answering, Signalled
<1>2. EventOK'
  BY DEF coreVars, EventOK
<1>3. DataOK'
  BY DEF coreVars, DataOK, Pending, Answered
<1>4. QED BY <1>1, <1>2, <1>3

\* An empty body does nothing.
LEMMA EmptyBody == Harmless(<<>>) /\ StoredIn(<<>>) = {} /\ Dos(<<>>) = {}
<1>1. Range(<<>>) = {}
  BY DEF Range
<1>2. QED BY <1>1, EmptySeq DEF Harmless, StoredIn, Dos

\* The rest of a harmless body is one.
LEMMA HarmlessGoesOn ==
  ASSUME NEW b, Harmless(b), b # <<>>
  PROVE  Head(b).do = "exitOnErr" /\ Harmless(Tail(b))
  BY BodyTail DEF Harmless

\* A harmless body stores nothing.
LEMMA HarmlessStores ==
  ASSUME NEW b, Harmless(b)
  PROVE  StoredIn(b) = {}
  BY DEF Harmless, StoredIn, Dos

\* Going on with a callback keeps what it is the callback of.
LEMMA Continues ==
  ASSUME Continue, DOMAIN running = {"call", "ret", "body", "env", "event"}
  PROVE  /\ DOMAIN running' = DOMAIN running
         /\ Tail(running.body) = <<>> => running'.call = 0 /\ running'.body = <<>>
         /\ Tail(running.body) # <<>> => /\ running'.call = running.call /\ running'.env = running.env
                                         /\ running'.body = Tail(running.body)
<1> DEFINE t == Tail(running.body)
           cb == [running EXCEPT !.body = t]
<1>1. /\ DOMAIN cb = DOMAIN running
      /\ cb.body = t /\ cb.call = running.call /\ cb.env = running.env
  OBVIOUS
<1>2. running' = IF cb.body = <<>> THEN NoCallback ELSE cb
  BY DEF Continue, Run
<1>3. CASE t = <<>>
  BY <1>1, <1>2, <1>3 DEF NoCallback
<1>4. CASE t # <<>>
  BY <1>1, <1>2, <1>4
<1>5. QED BY <1>3, <1>4
------------------------------------------------------------------------------
Inv == prog \in Programs /\ Strict /\ CodeOK /\ PhaseOK /\ EventOK /\ DataOK

\* The flag is set by the answer to the one call there was, and is taken.
LEMMA InvWaitPasses ==
  ASSUME Inv, WaitPasses
  PROVE  PhaseOK' /\ EventOK' /\ DataOK'
<1>1. Signalled /\ thread = "locks"
  BY DEF Inv, WaitPasses, PhaseOK, None, Sent, Answering, Signalled
<1>2. UNCHANGED <<calls, frame, cells, posted, running, want>> /\ executed' = FALSE /\ thread' = "runs"
  BY DEF WaitPasses, libraryVars, blockVars
<1>3. PhaseOK'
  BY <1>1, <1>2 DEF PhaseOK, None, Signalled
<1>4. EventOK' /\ DataOK'
  BY <1>2 DEF Inv, EventOK, DataOK, Pending, Answered
<1>5. QED BY <1>3, <1>4

\* Going to sleep, and waking up, change nothing of the call.
LEMMA InvSleep ==
  ASSUME Inv, WaitSleeps \/ WakesSpuriously
  PROVE  PhaseOK' /\ EventOK' /\ DataOK'
<1>1. /\ UNCHANGED <<executed, calls, frame, cells, posted, running, want>>
      /\ thread \in {"locks", "sleeps"} /\ thread' \in {"locks", "sleeps"} /\ (executed => thread' = "locks")
  BY DEF WaitSleeps, WakesSpuriously, libraryVars, blockVars, sharedVars
<1>2. PhaseOK'
  BY <1>1 DEF Inv, PhaseOK, None, Sent, Answering, Signalled
<1>3. EventOK' /\ DataOK'
  BY <1>1 DEF Inv, EventOK, DataOK, Pending, Answered
<1>4. QED BY <1>2, <1>3

\* The step that main is at.
LEMMA NextStep ==
  ASSUME Inv, code # <<>>
  PROVE  /\ Head(code) \in StepsOf(prog)
         /\ Head(code).op \in {"call", "use", "listen", "encode"}
         /\ Head(code).op = "call" => /\ Head(code).waits
                                      /\ Head(code).strict \/ "exitOnErr" \in Dos(Head(code).body)
                                      /\ Owed(Head(code).body)
<1>1. Head(code) \in StepsOf(prog)
  BY HeadTailProperties DEF Inv, CodeOK
<1>2. QED BY <1>1, StepFacts DEF Inv, Strict

\* A request is posted: it is the only one, and the flag is down.
LEMMA InvPost ==
  ASSUME Inv, Post
  PROVE  CodeOK' /\ PhaseOK' /\ EventOK' /\ DataOK'
<1> DEFINE s == Head(code)
           r == [call |-> calls + 1, fn |-> s.fn, body |-> s.body, env |-> Captured(s.body)]
<1>1. code # <<>> /\ thread = "runs" /\ s.op = "call"
  BY DEF Post, At
<1>2. s.waits /\ Owed(s.body)
  BY <1>1, NextStep
<1>3. None
  BY <1>1 DEF Inv, PhaseOK
<1>4. /\ posted' = posted \cup {r} /\ want' = Wanting(s.body)
      /\ thread' = "locks" /\ calls' = calls + 1 /\ code' = Tail(code)
      /\ UNCHANGED <<prog, frame, executed, cells, running>>
  BY <1>2 DEF Post, sessionVars
<1>5. calls \in Nat /\ want \in [Cell -> Nat]
  BY DEF Inv, DataOK
<1>6. Captured(s.body) = frame
  BY DEF Inv, Strict, Disciplined, Captured
<1>7. posted' = {r} /\ r.call = calls' /\ r.env = frame' /\ r.body = s.body
  BY <1>3, <1>4, <1>6 DEF None
<1>8. CodeOK'
  <2>1. \A c \in Cell : want[c] # 0 => want'[c] # 0
    BY <1>4, <1>5 DEF Wanting
  <2>2. \A c \in StoredIn(s.body) : c \in Cell /\ want'[c] # 0
    BY <1>2, <1>4, <1>5 DEF Wanting, Owed
  <2>3. code \in Seq(StepsOf(prog)) /\ ReadsOK(code, want)
    BY DEF Inv, CodeOK
  <2>4. Tail(code) \in Seq(StepsOf(prog)) /\ ReadsOK(Tail(code), want')
    BY <1>1, <2>1, <2>2, <2>3, CodeGoesOn
  <2>5. QED BY <1>4, <2>4 DEF CodeOK
<1>9. PhaseOK'
  <2>1. Sent'
    BY <1>2, <1>3, <1>4, <1>7 DEF Sent, None
  <2>2. QED BY <1>4, <1>5, <2>1 DEF PhaseOK
<1>10. EventOK'
  BY <1>4 DEF Inv, EventOK
<1>11. DataOK'
  <2>1. \A c \in Cell : Pending(c)' <=> c \in StoredIn(s.body)
    BY <1>3, <1>4, <1>7 DEF Pending, None
  <2>2. \A c \in Cell : ~Pending(c)
    BY <1>3 DEF Pending, None
  <2>3. want' \in [Cell -> Nat] /\ calls' \in Nat
    BY <1>4, <1>5 DEF Wanting
  <2>4. \A c \in Cell : want'[c] = IF c \in StoredIn(s.body) THEN calls' ELSE want[c]
    BY <1>4, <1>5 DEF Wanting
  <2>5. \A c \in Cell : Answered(c)
    BY <2>2 DEF Inv, DataOK
  <2>6. \A c \in Cell : c \notin StoredIn(s.body) => Answered(c)'
    BY <1>4, <2>4, <2>5 DEF Answered
  <2>7. cells' = [c \in Cell |-> cells'[c]]
    BY <1>4 DEF Inv, DataOK
  <2>8. QED BY <2>1, <2>3, <2>4, <2>6, <2>7 DEF DataOK
<1>12. QED BY <1>8, <1>9, <1>10, <1>11

\* A request that cannot be posted ends the program.
LEMMA InvPostFails ==
  ASSUME Inv, PostFails
  PROVE  UNCHANGED clientVars /\ UNCHANGED coreVars
<1>1. code # <<>> /\ Head(code).op = "call"
  BY DEF PostFails, At
<1>2. Head(code).strict \/ "exitOnErr" \in Dos(Head(code).body)
  BY <1>1, NextStep
<1>3. UNCHANGED <<clientVars, executed, cells, want, libraryVars>>
  BY <1>2 DEF PostFails
<1>4. QED BY <1>3 DEF clientVars, blockVars, libraryVars, coreVars

\* The steps that a disciplined program does not take.
LEMMA NoSuchStep ==
  ASSUME Inv
  PROVE  ~EnterBlock /\ ~LeaveBlock /\ ~CheckAnswer /\ ~PollAgain /\ ~PollEnds /\ ~DestroyContext
  BY NextStep DEF EnterBlock, LeaveBlock, CheckAnswer, PollAgain, PollEnds, DestroyContext, At

\* Reading, setting the event callback and encoding leave the calls alone.
LEMMA InvLocalSteps ==
  ASSUME Inv, GoOn \/ set_event_callback \/ EncodeMessage
  PROVE  CodeOK' /\ UNCHANGED <<prog, coreVars>>
<1>1. code # <<>> /\ Head(code).op # "call"
  BY DEF GoOn, set_event_callback, EncodeMessage, At
<1>2. code' = Tail(code) /\ UNCHANGED <<prog, coreVars>>
  BY DEF GoOn, set_event_callback, EncodeMessage, sessionVars, blockVars, sharedVars, libraryVars, coreVars
<1>3. code \in Seq(StepsOf(prog)) /\ ReadsOK(code, want)
  BY DEF Inv, CodeOK
<1>4. Tail(code) \in Seq(StepsOf(prog)) /\ ReadsOK(Tail(code), want)
  BY <1>1, <1>3, CodeGoesOn
<1>5. QED BY <1>2, <1>4 DEF CodeOK, coreVars

\* A command is a script of the program.
LEMMA InvNextCommand ==
  ASSUME Inv, NextCommand
  PROVE  CodeOK' /\ UNCHANGED <<prog, coreVars>>
<1>1. code' \in Scripts(prog) /\ UNCHANGED <<prog, coreVars>>
  BY DEF NextCommand, Scripts, blockVars, sharedVars, libraryVars, coreVars
<1>2. code' \in Seq(StepsOf(prog)) /\ ReadsOK(code', want)
  BY <1>1, ScriptFacts DEF Inv, Strict
<1>3. QED BY <1>1, <1>2 DEF CodeOK, coreVars
------------------------------------------------------------------------------
\* The library answers the one request there is, by starting its callback.
LEMMA InvAnswer ==
  ASSUME Inv, NEW r \in posted, NEW ret \in {RET_OK, RET_ERR}, Answer(r, ret)
  PROVE  PhaseOK' /\ EventOK' /\ DataOK'
<1> DEFINE cb == [call |-> r.call, ret |-> ret, body |-> r.body, env |-> r.env, event |-> NoEvent]
<1>1. Sent /\ thread \in {"locks", "sleeps"} /\ calls # 0
  BY DEF Inv, PhaseOK, None, Sent, Answering, Signalled
<1>2. posted = {r} /\ r.call = calls /\ r.env = frame /\ Owed(r.body) /\ running.call = 0 /\ ~executed
  BY <1>1 DEF Sent
<1>3. posted' = {} /\ running' = cb
  BY <1>2 DEF Answer, Run, Owed
<1>4. UNCHANGED <<thread, executed, calls, frame, cells, want>>
  BY DEF Answer, clientVars, blockVars, sharedVars
<1>5. PhaseOK'
  <2>1. Answering'
    BY <1>2, <1>3, <1>4 DEF Answering
  <2>2. QED BY <1>1, <1>4, <2>1 DEF PhaseOK
<1>6. EventOK'
  BY <1>1, <1>2, <1>3 DEF EventOK
<1>7. DataOK'
  <2>1. \A c \in Cell : Pending(c)' <=> Pending(c)
    BY <1>1, <1>2, <1>3 DEF Pending
  <2>2. QED BY <1>4, <2>1 DEF Inv, DataOK, Answered
<1>8. QED BY <1>5, <1>6, <1>7

\* An event is reported while no callback runs, and its callback can only exit.
LEMMA InvEmit ==
  ASSUME Inv, NEW e, NEW ret, Emit(e, ret)
  PROVE  PhaseOK' /\ EventOK' /\ DataOK'
<1>1. running.body = <<>> /\ UNCHANGED <<thread, executed, calls, frame, cells, posted, want>>
  BY DEF Emit, Idle, clientVars, blockVars, sharedVars
<1>2. running.call = 0
  BY <1>1 DEF Inv, PhaseOK, None, Sent, Answering, Signalled, Owed
<1>3. Harmless(prog.onEvent)
  BY ProgramFacts DEF Inv, Strict, Disciplined, Harmless
<1>4. /\ running'.call = 0 /\ Harmless(running'.body)
      /\ DOMAIN running' = {"call", "ret", "body", "env", "event"}
  BY <1>3, EmptyBody DEF Emit, Run, NoCallback
<1>5. PhaseOK'
  <2>1. ~Answering \/ calls = 0
    BY <1>2 DEF Answering
  <2>2. QED BY <1>1, <1>2, <1>4, <2>1 DEF Inv, PhaseOK, None, Sent, Signalled
<1>6. EventOK'
  BY <1>4 DEF EventOK
<1>7. DataOK'
  BY <1>1, <1>2, <1>4 DEF Inv, DataOK, Pending, Answered
<1>8. QED BY <1>5, <1>6, <1>7

\* A callback that runs is an event's, or the one that answers the call.
LEMMA WhichCallback ==
  ASSUME Inv, NEW do, Running(do)
  PROVE  \/ running.call = 0 /\ do = "exitOnErr" /\ Harmless(running.body)
         \/ /\ Answering /\ running.call # 0 /\ thread \in {"locks", "sleeps"}
            /\ do \in {"exitOnErr", "store", "signal"}
<1>1. running.body # <<>> /\ Head(running.body).do = do
  BY DEF Running
<1>2. CASE running.call = 0
  BY <1>1, <1>2, HarmlessGoesOn DEF Inv, EventOK
<1>3. CASE running.call # 0
  <2>1. Answering /\ thread \in {"locks", "sleeps"}
    BY <1>3 DEF Inv, PhaseOK, None, Sent, Signalled
  <2>2. do \in Dos(running.body)
    BY <1>1, <2>1, BodyTail DEF Answering, Owed
  <2>3. QED BY <1>3, <2>1, <2>2 DEF Answering, Owed
<1>4. QED BY <1>2, <1>3

\* A part that neither signals nor stores leaves the rest of the callback.
LEMMA InvChecks ==
  ASSUME Inv, CallbackChecks
  PROVE  PhaseOK' /\ EventOK' /\ DataOK'
<1>1. Running("exitOnErr") /\ Continue /\ UNCHANGED <<thread, executed, calls, frame, cells, posted, want>>
  BY DEF CallbackChecks, clientVars, blockVars
<1>2. running.body # <<>> /\ Head(running.body).do = "exitOnErr"
  BY <1>1 DEF Running
<1>3. DOMAIN running = {"call", "ret", "body", "env", "event"}
  BY DEF Inv, EventOK
<1>4. CASE running.call = 0 /\ Harmless(running.body)
  <2>1. running'.call = 0 /\ Harmless(running'.body) /\ DOMAIN running' = DOMAIN running
    BY <1>1, <1>2, <1>3, <1>4, Continues, HarmlessGoesOn, EmptyBody
  <2>2. PhaseOK'
    BY <1>1, <1>4, <2>1 DEF Inv, PhaseOK, None, Sent, Answering, Signalled
  <2>3. EventOK'
    BY <1>3, <2>1 DEF EventOK
  <2>4. DataOK'
    BY <1>1, <1>4, <2>1 DEF Inv, DataOK, Pending, Answered
  <2>5. QED BY <2>2, <2>3, <2>4
<1>5. CASE Answering /\ running.call # 0 /\ thread \in {"locks", "sleeps"}
  <2>1. Owed(Tail(running.body)) /\ StoredIn(Tail(running.body)) = StoredIn(running.body)
    BY <1>2, <1>5, OwedGoesOn, BodyTail DEF Answering, Owed
  <2>2. /\ running'.call = running.call /\ running'.env = running.env /\ running'.body = Tail(running.body)
        /\ DOMAIN running' = DOMAIN running
    BY <1>1, <1>3, <2>1, Continues DEF Owed
  <2>3. PhaseOK'
    <3>1. Answering'
      BY <1>1, <1>5, <2>1, <2>2 DEF Answering
    <3>2. QED BY <1>1, <1>5, <3>1 DEF PhaseOK, Answering
  <2>4. EventOK'
    BY <1>3, <1>5, <2>2 DEF EventOK
  <2>5. DataOK'
    BY <1>1, <2>1, <2>2 DEF Inv, DataOK, Pending, Answered
  <2>6. QED BY <2>3, <2>4, <2>5
<1>6. QED BY <1>1, <1>4, <1>5, WhichCallback

\* The answer goes into the variable it is for.
LEMMA InvStores ==
  ASSUME Inv, CallbackStores
  PROVE  PhaseOK' /\ EventOK' /\ DataOK'
<1> DEFINE c0 == Head(running.body).cell
<1>1. Running("store") /\ Continue /\ UNCHANGED <<thread, executed, calls, frame, posted, want>>
  BY DEF CallbackStores, clientVars, blockVars
<1>2. running.body # <<>> /\ Head(running.body).do = "store"
  BY <1>1 DEF Running
<1>3. Answering /\ running.call # 0 /\ thread \in {"locks", "sleeps"}
  BY <1>1, WhichCallback
<1>4. /\ Owed(Tail(running.body)) /\ c0 \in Cell
      /\ StoredIn(running.body) = {c0} \cup StoredIn(Tail(running.body))
  BY <1>2, <1>3, OwedGoesOn, BodyTail DEF Answering, Owed
<1>5. DOMAIN running = {"call", "ret", "body", "env", "event"}
  BY DEF Inv, EventOK
<1>6. /\ running'.call = running.call /\ running'.env = running.env /\ running'.body = Tail(running.body)
      /\ DOMAIN running' = DOMAIN running
  BY <1>1, <1>4, <1>5, Continues DEF Owed
<1>7. PhaseOK'
  <2>1. Answering'
    BY <1>1, <1>3, <1>4, <1>6 DEF Answering
  <2>2. QED BY <1>1, <1>3, <2>1 DEF PhaseOK, Answering
<1>8. EventOK'
  BY <1>3, <1>5, <1>6 DEF EventOK
<1>9. cells' = [cells EXCEPT ![c0] = [call |-> running.call, ret |-> running.ret]]
  BY <1>3 DEF CallbackStores, Answering, Reaches
<1>10. DataOK'
  <2>1. running.call = calls /\ posted = {}
    BY <1>3 DEF Answering
  <2>2. \A c \in Cell : c # c0 => (Pending(c)' <=> Pending(c))
    BY <1>1, <1>4, <1>6 DEF Pending
  <2>3. Pending(c0)
    BY <1>3, <1>4 DEF Pending
  <2>4. want[c0] = calls
    BY <1>4, <2>3 DEF Inv, DataOK
  <2>5. cells'[c0].call = calls /\ \A c \in Cell : c # c0 => cells'[c] = cells[c]
    BY <1>4, <1>9, <2>1 DEF Inv, DataOK
  <2>6. \A c \in Cell : IF Pending(c)' THEN want'[c] = calls' ELSE Answered(c)'
    BY <1>1, <2>2, <2>4, <2>5 DEF Inv, DataOK, Answered
  <2>7. cells' = [c \in Cell |-> cells'[c]]
    BY <1>9 DEF Inv, DataOK
  <2>8. QED BY <1>1, <2>6, <2>7 DEF Inv, DataOK
<1>11. QED BY <1>7, <1>8, <1>10

\* The callback ends with its signal.
LEMMA InvSignals ==
  ASSUME Inv, CallbackSignals
  PROVE  PhaseOK' /\ EventOK' /\ DataOK'
<1>1. Running("signal") /\ Continue /\ UNCHANGED <<calls, frame, cells, posted, want>>
  BY DEF CallbackSignals, blockVars
<1>2. Answering /\ running.call # 0 /\ thread \in {"locks", "sleeps"}
  BY <1>1, WhichCallback
<1>3. Tail(running.body) = <<>> /\ StoredIn(running.body) = {}
  BY <1>1, <1>2, OwedSignals DEF Running, Answering
<1>4. DOMAIN running = {"call", "ret", "body", "env", "event"}
  BY DEF Inv, EventOK
<1>5. running'.call = 0 /\ running'.body = <<>> /\ DOMAIN running' = DOMAIN running
  BY <1>1, <1>3, <1>4, Continues
<1>6. executed' = TRUE /\ thread' = "locks"
  BY <1>2 DEF CallbackSignals, signal_cond
<1>7. PhaseOK'
  BY <1>1, <1>2, <1>5, <1>6 DEF PhaseOK, Signalled, Answering
<1>8. EventOK'
  BY <1>4, <1>5, EmptyBody DEF EventOK
<1>9. DataOK'
  BY <1>1, <1>2, <1>3, <1>5 DEF Inv, DataOK, Pending, Answered, Answering
<1>10. QED BY <1>7, <1>8, <1>9

\* A part that shows an event is not in any callback of such a program.
LEMMA NoShow ==
  ASSUME Inv
  PROVE  ~CallbackShows
  BY WhichCallback DEF CallbackShows

\* The end of the program leaves everything else as it is.
LEMMA InvEnds ==
  ASSUME Inv, MainReturns \/ Crash
  PROVE  UNCHANGED clientVars /\ UNCHANGED coreVars
  BY DEF MainReturns, Crash, clientVars, blockVars, libraryVars, coreVars

------------------------------------------------------------------------------
\* The invariant is kept by every step.
LEMMA InvStep ==
  ASSUME Inv, [Next]_vars
  PROVE  Inv'
<1>1. CASE UNCHANGED <<clientVars, coreVars>>
  BY <1>1, CoreKept DEF Inv, Strict, CodeOK, clientVars, sessionVars, coreVars
<1>2. CASE CodeOK' /\ UNCHANGED <<prog, coreVars>>
  BY <1>2, CoreKept DEF Inv, Strict
<1>3. CASE CodeOK' /\ PhaseOK' /\ EventOK' /\ DataOK' /\ prog' = prog
  BY <1>3 DEF Inv, Strict
<1>4. ASSUME UNCHANGED <<prog, code, want>> PROVE CodeOK'
  BY <1>4 DEF Inv, CodeOK
<1>5. CASE waitForCallback \/ WakesSpuriously
  <2>1. PhaseOK' /\ EventOK' /\ DataOK'
    BY <1>5, InvWaitPasses, InvSleep DEF waitForCallback
  <2>2. UNCHANGED <<prog, code, want>>
    BY <1>5 DEF waitForCallback, WaitPasses, WaitSleeps, WakesSpuriously, sessionVars, sharedVars
  <2>3. QED BY <2>1, <2>2, <1>3, <1>4
<1>6. CASE Post
  <2>1. prog' = prog
    BY <1>6 DEF Post, sessionVars
  <2>2. QED BY <1>6, <2>1, <1>3, InvPost
<1>7. CASE PostFails \/ MainReturns \/ Crash
  BY <1>7, <1>1, InvPostFails, InvEnds
<1>8. CASE GoOn \/ set_event_callback \/ EncodeMessage \/ NextCommand
  BY <1>8, <1>2, InvLocalSteps, InvNextCommand
<1>9. CASE EnterBlock \/ LeaveBlock \/ CheckAnswer \/ PollAgain \/ PollEnds \/ DestroyContext
  BY <1>9, NoSuchStep
<1>10. CASE AnswerSome
  <2>1. PICK r \in posted, ret \in {RET_OK, RET_ERR} : Answer(r, ret)
    BY <1>10 DEF AnswerSome
  <2>2. UNCHANGED <<prog, code, want>>
    BY <2>1 DEF Answer, clientVars, sessionVars, sharedVars
  <2>3. PhaseOK' /\ EventOK' /\ DataOK'
    BY <2>1, InvAnswer
  <2>4. QED BY <2>2, <2>3, <1>3, <1>4
<1>11. CASE \E e \in Events, ret \in {RET_OK, RET_ERR} : Emit(e, ret)
  <2>1. PICK e \in Events, ret \in {RET_OK, RET_ERR} : Emit(e, ret)
    BY <1>11
  <2>2. UNCHANGED <<prog, code, want>>
    BY <2>1 DEF Emit, clientVars, sessionVars, sharedVars
  <2>3. PhaseOK' /\ EventOK' /\ DataOK'
    BY <2>1, InvEmit
  <2>4. QED BY <2>2, <2>3, <1>3, <1>4
<1>12. CASE Callback
  <2>1. PhaseOK' /\ EventOK' /\ DataOK'
    BY <1>12, InvChecks, InvStores, InvSignals, NoShow DEF Callback
  <2>2. CallbackChecks \/ CallbackStores \/ CallbackSignals
    BY <1>12, NoShow DEF Callback
  <2>3. UNCHANGED <<prog, code, want>>
    BY <2>2 DEF CallbackChecks, CallbackStores, CallbackSignals, clientVars, sessionVars
  <2>4. QED BY <2>1, <2>3, <1>3, <1>4
<1>13. CASE UNCHANGED vars
  BY <1>13, <1>1 DEF vars, clientVars, sharedVars, libraryVars, blockVars, coreVars
<1>14. QED
  BY <1>5, <1>6, <1>7, <1>8, <1>9, <1>10, <1>11, <1>12, <1>13 DEF Next, Client

\* The program that runs is the one that was started.
LEMMA ProgramStays ==
  ASSUME [Next]_vars
  PROVE  prog' = prog
<1>1. CASE Client
  BY <1>1 DEF Client, waitForCallback, WaitPasses, WaitSleeps, Post, PostFails, EnterBlock, LeaveBlock, GoOn,
     set_event_callback, EncodeMessage, CheckAnswer, PollAgain, PollEnds, DestroyContext, MainReturns,
     clientVars, sessionVars
<1>2. CASE Callback
  BY <1>2 DEF Callback, CallbackChecks, CallbackSignals, CallbackStores, CallbackShows, clientVars, sessionVars
<1>3. CASE WakesSpuriously \/ NextCommand \/ Crash
  BY <1>3 DEF WakesSpuriously, NextCommand, Crash, clientVars, sessionVars
<1>4. CASE AnswerSome \/ \E e \in Events, ret \in {RET_OK, RET_ERR} : Emit(e, ret)
  BY <1>4 DEF AnswerSome, Answer, Emit, clientVars, sessionVars
<1>5. QED BY <1>1, <1>2, <1>3, <1>4 DEF Next, vars, clientVars, sessionVars

\* A program begins with nothing outstanding.
LEMMA InvInit ==
  ASSUME Init, Strict
  PROVE  Inv
<1>1. prog \in Programs /\ code \in Scripts(prog)
  BY DEF Init, Scripts
<1>2. CodeOK
  BY <1>1, ScriptFacts DEF Strict, CodeOK
<1>3. PhaseOK
  BY DEF Init, PhaseOK, None, NoCallback
<1>4. EventOK
  BY EmptyBody DEF Init, EventOK, NoCallback
<1>5. DataOK
  <2>1. \A c \in Cell : ~Pending(c)
    BY DEF Init, Pending, NoCallback
  <2>2. QED BY <2>1 DEF Init, DataOK, Answered
<1>6. QED BY <1>1, <1>2, <1>3, <1>4, <1>5 DEF Inv

\* In every state of a disciplined program the one call that may be outstanding
\* is posted, being answered, or answered with its signal not yet taken, and
\* variables that wait for no answer hold the one they were last asked for.
THEOREM Invariance == Spec => []IInv
<1>1. Init => IInv
  BY InvInit DEF IInv, Init, Inv
<1>2. IInv /\ [Next]_vars => IInv'
  BY InvStep, ProgramStays DEF IInv, Inv, Strict
<1>3. QED BY <1>1, <1>2, PTL DEF Spec

\* WAKU_CALL returns with the call it made, for every disciplined program.
THEOREM CallsAreAwaited == Spec => []AnswerIsOwn
<1>1. IInv => AnswerIsOwn
  BY DEF IInv, AnswerIsOwn, Strict, PhaseOK, None
<1>2. QED BY <1>1, Invariance, PTL

\* What main reads is the answer to its last call for it, and is not being written.
THEOREM ReadsAreFresh == Spec => []FreshReads
<1>1. IInv => FreshReads
  <2> SUFFICES ASSUME IInv, Strict, At("use")
               PROVE  LET c == Head(code).cell
                      IN /\ want[c] # 0 /\ cells[c].call = want[c]
                         /\ c \notin StoredIn(running.body)
    BY DEF FreshReads, Strict
  <2> DEFINE c == Head(code).cell
  <2>1. code # <<>> /\ thread = "runs" /\ Head(code).op = "use"
    BY DEF At
  <2>2. CodeOK /\ None /\ EventOK /\ DataOK
    BY <2>1 DEF IInv, PhaseOK
  <2>3. Head(code) = code[1] /\ 1 \in 1..Len(code)
    BY <2>1, <2>2, TailFacts DEF CodeOK
  <2>4. c \in Cell /\ want[c] # 0
    BY <2>1, <2>2, <2>3 DEF CodeOK, ReadsOK
  <2>5. cells[c].call = want[c]
    BY <2>2, <2>4 DEF None, DataOK, Pending, Answered
  <2>6. StoredIn(running.body) = {}
    BY <2>2, HarmlessStores DEF None, EventOK
  <2>7. QED BY <2>4, <2>5, <2>6
<1>2. QED BY <1>1, Invariance, PTL

\* Every disciplined program implements SyncCalls.
THEOREM CallsAreSynchronous == Spec => Synchronous
<1>1. Init => Sync!Init
  <2>1. Disciplined(prog) \in BOOLEAN
    BY Zenon DEF Disciplined
  <2>2. Init => calls = 0 /\ thread = "runs" /\ ~Unanswered
    BY DEF Init, Unanswered, NoCallback
  <2>3. QED BY <2>1, <2>2 DEF Sync!Init
<1>2. IInv /\ [Next]_vars => [Sync!Next]_Sync!vars
  <2> SUFFICES ASSUME IInv, [Next]_vars
               PROVE  [Sync!Next]_Sync!vars
    OBVIOUS
  <2>1. Disciplined(prog)' = Disciplined(prog)
    BY ProgramStays
  <2>2. CASE ~Strict
    BY <2>1, <2>2 DEF Strict, Sync!Next
  <2>3. CASE Strict
    <3>1. Inv /\ Inv'
      BY <2>3, InvStep DEF IInv, Inv
    <3>2. calls \in Nat /\ calls' \in Nat
      BY <3>1 DEF Inv, DataOK
    <3>3. CASE UNCHANGED <<calls, thread, posted, running>>
      BY <2>1, <3>3 DEF Sync!vars, Unanswered
    <3>4. CASE WaitPasses
      <4>1. Signalled /\ thread = "locks"
        BY <3>1, <3>4 DEF Inv, WaitPasses, PhaseOK, None, Sent, Answering, Signalled
      <4>2. thread' = "runs" /\ UNCHANGED <<calls, posted, running>>
        BY <3>4 DEF WaitPasses, libraryVars
      <4>3. Sync!Return
        BY <4>1, <4>2 DEF Signalled, Sync!Return, Unanswered
      <4>4. QED BY <4>3, <2>1 DEF Sync!Next
    <3>5. CASE WaitSleeps \/ WakesSpuriously
      <4>1. UNCHANGED <<calls, posted, running>> /\ thread # "runs" /\ thread' # "runs"
        BY <3>5 DEF WaitSleeps, WakesSpuriously, libraryVars
      <4>2. QED BY <4>1, <2>1 DEF Sync!vars, Unanswered
    <3>6. CASE Post
      <4>1. None /\ thread = "runs"
        BY <3>1, <3>6 DEF Inv, PhaseOK, Post, At
      <4>2. calls' = calls + 1 /\ thread' = "locks" /\ posted' # {}
        BY <3>1, <3>6, NextStep DEF Post, At
      <4>3. Sync!Call
        BY <3>2, <4>1, <4>2 DEF None, Sync!Call, Unanswered
      <4>4. QED BY <4>3, <2>1 DEF Sync!Next
    <3>7. CASE PostFails \/ MainReturns \/ Crash
      BY <3>7, <3>1, <3>3, InvPostFails, InvEnds DEF coreVars
    <3>8. CASE GoOn \/ set_event_callback \/ EncodeMessage \/ NextCommand
      BY <3>8, <3>1, <3>3, InvLocalSteps, InvNextCommand DEF coreVars
    <3>9. CASE EnterBlock \/ LeaveBlock \/ CheckAnswer \/ PollAgain \/ PollEnds \/ DestroyContext
      BY <3>9, <3>1, NoSuchStep
    <3>10. CASE AnswerSome
      <4>1. PICK r \in posted, ret \in {RET_OK, RET_ERR} : Answer(r, ret)
        BY <3>10 DEF AnswerSome
      <4>2. UNCHANGED <<calls, thread>>
        BY <4>1 DEF Answer, clientVars
      <4>3. Sent /\ calls # 0
        BY <3>1, <4>1 DEF Inv, PhaseOK, None, Answering, Signalled
      <4>4. running'.call # 0
        BY <4>1, <4>3 DEF Sent, Answer, Run, Owed
      <4>5. Unanswered /\ Unanswered'
        BY <4>3, <4>4 DEF Unanswered, Sent
      <4>6. QED BY <4>2, <4>5, <2>1 DEF Sync!vars
    <3>11. CASE \E e \in Events, ret \in {RET_OK, RET_ERR} : Emit(e, ret)
      <4>1. UNCHANGED <<calls, thread, posted>> /\ running.body = <<>> /\ running'.call = 0
        BY <3>11 DEF Emit, Idle, clientVars, Run, NoCallback
      <4>2. running.call = 0
        BY <3>1, <4>1 DEF Inv, PhaseOK, None, Sent, Answering, Signalled, Owed
      <4>3. QED BY <4>1, <4>2, <2>1 DEF Sync!vars, Unanswered
    <3>12. CASE CallbackChecks \/ CallbackStores
      <4>1. UNCHANGED <<calls, thread, posted>> /\ Continue /\ running.body # <<>> /\ Head(running.body).do # "signal"
        BY <3>12 DEF CallbackChecks, CallbackStores, clientVars, Running
      <4>2. DOMAIN running = {"call", "ret", "body", "env", "event"}
        BY <3>1 DEF Inv, EventOK
      <4>3. CASE running.call = 0
        BY <4>1, <4>2, <4>3, <2>1, Continues DEF Sync!vars, Unanswered
      <4>4. CASE running.call # 0
        <5>1. Owed(running.body)
          BY <3>1, <4>4 DEF Inv, PhaseOK, None, Sent, Answering, Signalled
        <5>2. Tail(running.body) # <<>>
          BY <4>1, <5>1, OwedGoesOn DEF Owed
        <5>3. running'.call = running.call
          BY <4>1, <4>2, <5>2, Continues
        <5>4. QED BY <4>1, <4>4, <5>3, <2>1 DEF Sync!vars, Unanswered
      <4>5. QED BY <4>3, <4>4
    <3>13. CASE CallbackSignals
      <4>1. Running("signal") /\ Continue /\ UNCHANGED <<calls, posted>>
        BY <3>13 DEF CallbackSignals
      <4>2. Answering /\ running.call # 0 /\ thread \in {"locks", "sleeps"}
        BY <3>1, <4>1, WhichCallback
      <4>3. thread' = "locks"
        BY <3>13, <4>2 DEF CallbackSignals, signal_cond
      <4>4. running'.call = 0
        BY <3>1, <4>1, <4>2, OwedSignals, Continues DEF Running, Answering, Inv, EventOK
      <4>5. Sync!Answer
        BY <3>2, <4>1, <4>2, <4>3, <4>4 DEF Answering, Sync!Answer, Unanswered
      <4>6. QED BY <4>5, <2>1 DEF Sync!Next
    <3>14. CASE UNCHANGED vars
      BY <3>14, <3>3 DEF vars, clientVars, libraryVars
    <3>15. QED
      BY <3>1, <3>4, <3>5, <3>6, <3>7, <3>8, <3>9, <3>10, <3>11, <3>12, <3>13, <3>14, NoShow
         DEF Next, Client, Callback, waitForCallback
  <2>4. QED BY <2>2, <2>3
<1>3. QED BY <1>1, <1>2, Invariance, PTL DEF Spec, Synchronous, Sync!Spec
------------------------------------------------------------------------------
(* The types, for every program. *)

\* What is sent belongs to what was typed.
PayloadEncoded ==
  /\ payload.typed \in Seq(0..255)
  /\ IF prog.cify THEN \E after \in Seq(Nat) : payload.text = b64_encode_cpp(payload.typed, after)
                   ELSE payload.text = b64_encode(payload.typed)

LEMMA NoneEncoded ==
  /\ payload = NoMessage => PayloadEncoded
  /\ payload' = NoMessage => PayloadEncoded'
<1>1. NoMessage.typed = <<>> /\ NoMessage.text = <<>> /\ <<>> \in Seq(0..255) /\ <<>> \in Seq(Nat)
  BY DEF NoMessage
<1>2. NoMessage.text = b64_encode(NoMessage.typed) /\ NoMessage.text = b64_encode_cpp(NoMessage.typed, <<>>)
  BY <1>1, NothingIsEncoded
<1>3. payload = NoMessage => PayloadEncoded
  BY <1>1, <1>2 DEF PayloadEncoded
<1>4. payload' = NoMessage => PayloadEncoded'
  BY <1>1, <1>2 DEF PayloadEncoded
<1>5. QED BY <1>3, <1>4

TInv ==
  /\ TypeOK
  /\ code \in Seq(StepsOf(prog)) /\ frames \in [Cell -> Nat]
  /\ DOMAIN running = {"call", "ret", "body", "env", "event"} /\ running.ret \in {RET_OK, RET_ERR}
  /\ PayloadEncoded

\* The rest of a body is one.
LEMMA BodyTyped ==
  /\ <<>> \in Body
  /\ \A b \in Body : b # <<>> => Tail(b) \in Body
  BY DEF Body

\* Starting or going on with a callback keeps its type.
LEMMA RunTyped ==
  ASSUME TInv, NEW cb, Run(cb), DOMAIN cb = {"call", "ret", "body", "env", "event"},
         cb.call \in 0..calls, cb.ret \in {RET_OK, RET_ERR}, cb.body \in Body
  PROVE  /\ DOMAIN running' = {"call", "ret", "body", "env", "event"}
         /\ running'.call \in 0..calls /\ running'.ret \in {RET_OK, RET_ERR} /\ running'.body \in Body
<1>1. calls \in Nat
  BY DEF TInv, TypeOK
<1>2. CASE cb.body = <<>>
  BY <1>1, <1>2, BodyTyped DEF Run, NoCallback
<1>3. CASE cb.body # <<>>
  BY <1>3 DEF Run
<1>4. QED BY <1>2, <1>3

LEMMA ContinueTyped ==
  ASSUME TInv, Continue, running.body # <<>>
  PROVE  /\ DOMAIN running' = {"call", "ret", "body", "env", "event"}
         /\ running'.call \in 0..calls /\ running'.ret \in {RET_OK, RET_ERR} /\ running'.body \in Body
<1> DEFINE t == Tail(running.body)
           cb == [running EXCEPT !.body = t]
<1>1. DOMAIN running = {"call", "ret", "body", "env", "event"} /\ running.body \in Body
      /\ running.call \in 0..calls /\ running.ret \in {RET_OK, RET_ERR}
  BY DEF TInv, TypeOK
<1>2. t \in Body
  BY <1>1, BodyTyped
<1>3. /\ DOMAIN cb = DOMAIN running
      /\ cb.body = t /\ cb.call = running.call /\ cb.ret = running.ret
  BY <1>1
<1>4. Run(cb)
  BY DEF Continue
<1> HIDE DEF cb, t
<1>5. QED BY <1>1, <1>2, <1>3, <1>4, RunTyped

LEMMA StepTyped ==
  ASSUME TInv, code # <<>>
  PROVE  /\ Head(code) \in StepsOf(prog) /\ Tail(code) \in Seq(StepsOf(prog)) /\ prog \in Programs
         /\ Head(code).op = "call" => Head(code).body \in Body /\ Head(code).fn \in WakuFns \cup LogosFns
         /\ Head(code).op = "check" => Head(code).else \in Seq(StepsOf(prog))
<1>1. code \in Seq(StepsOf(prog)) /\ prog \in Programs
  BY DEF TInv, TypeOK
<1>2. Head(code) \in StepsOf(prog) /\ Tail(code) \in Seq(StepsOf(prog))
  BY <1>1
<1>3. QED BY <1>1, <1>2, ProgramsAreWritten

\* What is not part of the types.
typedVars == <<prog, code, thread, exited, executed, calls, frame, frames, static, cells, want, payload,
               posted, running>>

LEMMA TypedKept == ASSUME TInv, UNCHANGED typedVars PROVE TInv'
  BY DEF TInv, TypeOK, PayloadEncoded, typedVars

\* A step of the program's thread that touches nothing but its code and the blocks.
LEMMA CodeTyped ==
  ASSUME TInv, UNCHANGED <<prog, exited, executed, calls, static, running, payload>>, posted' \subseteq posted,
         thread' \in {"runs", "locks", "sleeps"}, code' \in Seq(StepsOf(prog)),
         frame' \in [Cell -> Nat], frames' \in [Cell -> Nat], want' \in [Cell -> 0..calls],
         cells' \in [Cell -> [call : Nat, ret : {RET_OK, RET_ERR}]]
  PROVE  TInv'
  BY DEF TInv, TypeOK, PayloadEncoded

LEMMA BlocksTyped ==
  ASSUME TInv, EnterBlock \/ LeaveBlock \/ GoOn \/ CheckAnswer \/ PollEnds \/ PollAgain \/ DestroyContext
                 \/ set_event_callback
  PROVE  TInv'
<1>1. /\ frame \in [Cell -> Nat] /\ frames \in [Cell -> Nat] /\ want \in [Cell -> 0..calls] /\ calls \in Nat
      /\ cells \in [Cell -> [call : Nat, ret : {RET_OK, RET_ERR}]]
      /\ thread \in {"runs", "locks", "sleeps"} /\ code \in Seq(StepsOf(prog))
  BY DEF TInv, TypeOK
<1>2. code # <<>>
  BY DEF EnterBlock, LeaveBlock, GoOn, CheckAnswer, PollEnds, PollAgain, DestroyContext, set_event_callback, At
<1>3. Tail(code) \in Seq(StepsOf(prog)) /\ (Head(code).op = "check" => Head(code).else \in Seq(StepsOf(prog)))
  BY <1>2, StepTyped
<1>4. CASE EnterBlock
  <2> DEFINE c == Head(code).cell
  <2>1. /\ frames' = [frames EXCEPT ![c] = @ + 1] /\ frame' = [frame EXCEPT ![c] = frames[c] + 1]
        /\ cells' = [cells EXCEPT ![c] = Unset] /\ want' = [want EXCEPT ![c] = 0] /\ calls' = calls
    BY <1>4 DEF EnterBlock
  <2>2. Unset \in [call : Nat, ret : {RET_OK, RET_ERR}] /\ 0 \in 0..calls
    BY <1>1 DEF Unset
  <2> HIDE DEF c
  <2>3. frames' \in [Cell -> Nat] /\ frame' \in [Cell -> Nat]
    <3>1. CASE c \in Cell
      <4>1. frames[c] \in Nat /\ frames[c] + 1 \in Nat
        BY <1>1, <3>1
      <4>2. QED BY <1>1, <2>1, <3>1, <4>1
    <3>2. CASE c \notin Cell
      <4>1. frames' = frames /\ frame' = frame
        BY <1>1, <2>1, <3>2
      <4>2. QED BY <1>1, <4>1
    <3>3. QED BY <3>1, <3>2
  <2>4. cells' \in [Cell -> [call : Nat, ret : {RET_OK, RET_ERR}]] /\ want' \in [Cell -> 0..calls]
    BY <1>1, <2>1, <2>2
  <2>5. QED BY <1>1, <1>3, <1>4, <2>3, <2>4, CodeTyped DEF EnterBlock, sessionVars, libraryVars
<1>5. CASE LeaveBlock
  <2>1. frame' \in [Cell -> Nat]
    BY <1>1, <1>5 DEF LeaveBlock
  <2>2. QED BY <1>1, <1>3, <1>5, <2>1, CodeTyped DEF LeaveBlock, sessionVars, sharedVars, libraryVars
<1>6. CASE GoOn \/ PollEnds \/ set_event_callback
  BY <1>1, <1>3, <1>6, CodeTyped DEF GoOn, PollEnds, set_event_callback, sessionVars, blockVars, sharedVars, libraryVars
<1>7. CASE CheckAnswer
  <2>1. code' \in Seq(StepsOf(prog))
    BY <1>3, <1>7 DEF CheckAnswer, At
  <2>2. QED BY <1>1, <1>7, <2>1, CodeTyped DEF CheckAnswer, sessionVars, blockVars, sharedVars, libraryVars
<1>8. CASE PollAgain
  BY <1>8, TypedKept DEF PollAgain, typedVars, blockVars, sharedVars, libraryVars
<1>9. CASE DestroyContext
  BY <1>1, <1>3, <1>9, CodeTyped DEF DestroyContext, blockVars, sharedVars
<1>10. QED BY <1>4, <1>5, <1>6, <1>7, <1>8, <1>9

\* The encoding belongs to the message.
LEMMA EncodeTyped == ASSUME TInv, EncodeMessage PROVE TInv'
<1>1. code # <<>>
  BY DEF EncodeMessage, At
<1>2. Tail(code) \in Seq(StepsOf(prog))
  BY <1>1, StepTyped
<1>3. PICK m \in Typed, after \in IF prog.cify THEN Leftover ELSE {<<>>} :
        payload' = [typed |-> m, text |-> IF prog.cify THEN b64_encode_cpp(m, after) ELSE b64_encode(m)]
  BY DEF EncodeMessage
<1>4. m \in Seq(0..255) /\ (prog.cify => after \in Seq(Nat)) /\ prog' = prog
  BY BytesAreTyped DEF EncodeMessage, sessionVars
<1>5. PayloadEncoded'
  BY <1>3, <1>4 DEF PayloadEncoded
<1>6. UNCHANGED <<prog, thread, exited, executed, calls, frame, frames, static, cells, want, posted, running>>
      /\ code' = Tail(code)
  BY DEF EncodeMessage, blockVars, sharedVars, libraryVars
<1>7. QED BY <1>2, <1>5, <1>6 DEF TInv, TypeOK

\* Waiting, a new command, and the end.
LEMMA WaitTyped ==
  ASSUME TInv, waitForCallback \/ WakesSpuriously \/ NextCommand \/ MainReturns \/ Crash
  PROVE  TInv'
<1>1. CASE waitForCallback \/ WakesSpuriously
  BY <1>1 DEF waitForCallback, WaitPasses, WaitSleeps, WakesSpuriously, TInv, TypeOK, PayloadEncoded, sessionVars, blockVars,
     sharedVars, libraryVars
<1>2. CASE NextCommand
  <2>1. prog \in Programs /\ thread \in {"runs", "locks", "sleeps"}
    BY DEF TInv, TypeOK
  <2>2. code' \in Seq(StepsOf(prog))
    <3>1. code' \in Scripts(prog)
      BY <1>2 DEF NextCommand, Scripts
    <3>2. code' \in Seq(Range(code')) /\ Range(code') \subseteq StepsOf(prog)
      BY <2>1, <3>1, ProgramsAreWritten DEF StepsOf
    <3>3. QED BY <3>2, SeqMonotonic
  <2>3. payload' = NoMessage
    BY <1>2 DEF NextCommand
  <2>4. PayloadEncoded'
    BY <2>3, NoneEncoded
  <2>5. QED BY <1>2, <2>2, <2>4 DEF NextCommand, TInv, TypeOK, blockVars, sharedVars, libraryVars
<1>3. CASE MainReturns \/ Crash
  BY <1>3 DEF MainReturns, Crash, TInv, TypeOK, PayloadEncoded, clientVars, sessionVars, blockVars, libraryVars
<1>4. QED BY <1>1, <1>2, <1>3

\* A call makes one request more, and every variable that waits for it is told so.
LEMMA CallTyped ==
  ASSUME TInv, At("call"), static' = Closures(Head(code).body), want' = Wanting(Head(code).body),
         calls' = calls + 1, UNCHANGED <<frame, frames, prog>>
  PROVE  /\ calls' \in Nat /\ static' \in [Cell -> Nat] /\ want' \in [Cell -> 0..calls']
         /\ code # <<>> /\ Tail(code) \in Seq(StepsOf(prog))
         /\ Head(code).body \in Body /\ Head(code).fn \in WakuFns \cup LogosFns
<1>1. /\ frame \in [Cell -> Nat] /\ static \in [Cell -> Nat] /\ want \in [Cell -> 0..calls] /\ calls \in Nat
  BY DEF TInv, TypeOK
<1>2. code # <<>> /\ Head(code).op = "call"
  BY DEF At
<1>3. static' \in [Cell -> Nat]
  BY <1>1 DEF Closures
<1>4. want' \in [Cell -> 0..calls']
  <2> DEFINE st == StoredIn(Head(code).body)
  <2>1. want' = [c \in Cell |-> IF c \in st THEN calls + 1 ELSE want[c]]
    BY DEF Wanting
  <2> HIDE DEF st
  <2>2. \A c \in Cell : want'[c] \in 0..(calls + 1)
    BY <1>1, <2>1
  <2>3. QED BY <2>1, <2>2
<1>5. QED BY <1>1, <1>2, <1>3, <1>4, StepTyped

LEMMA PostTyped == ASSUME TInv, Post PROVE TInv'
<1>1. /\ frame \in [Cell -> Nat] /\ frames \in [Cell -> Nat] /\ calls \in Nat
      /\ \A r \in posted : r.call \in 1..calls /\ r.fn \in WakuFns \cup LogosFns /\ r.body \in Body
      /\ running.call \in 0..calls
  BY DEF TInv, TypeOK
<1> DEFINE s == Head(code)
           new == [call |-> calls + 1, fn |-> s.fn, body |-> s.body, env |-> Captured(s.body)]
<1>2. /\ posted' = posted \cup {new} /\ thread' \in {"runs", "locks"} /\ code' = Tail(code) /\ calls' = calls + 1
      /\ UNCHANGED <<prog, payload, frame, frames, exited, executed, cells, running>>
  BY DEF Post, sessionVars
<1>3. /\ calls' \in Nat /\ static' \in [Cell -> Nat] /\ want' \in [Cell -> 0..calls']
      /\ Tail(code) \in Seq(StepsOf(prog)) /\ s.body \in Body /\ s.fn \in WakuFns \cup LogosFns
  BY <1>2, CallTyped DEF Post
<1>4. new.call = calls + 1 /\ new.fn = s.fn /\ new.body = s.body
  OBVIOUS
<1> HIDE DEF s, new
<1>5. \A r \in posted' : r.call \in 1..calls' /\ r.fn \in WakuFns \cup LogosFns /\ r.body \in Body
  <2> SUFFICES ASSUME NEW r \in posted' PROVE r.call \in 1..calls' /\ r.fn \in WakuFns \cup LogosFns /\ r.body \in Body
    OBVIOUS
  <2>1. CASE r \in posted
    BY <1>1, <1>2, <2>1
  <2>2. CASE r = new
    BY <1>1, <1>2, <1>3, <1>4, <2>2
  <2>3. QED BY <1>2, <2>1, <2>2
<1>6. running'.call \in 0..calls'
  BY <1>1, <1>2
<1>7. QED BY <1>2, <1>3, <1>5, <1>6 DEF TInv, TypeOK, PayloadEncoded

LEMMA PostFailsTyped == ASSUME TInv, PostFails PROVE TInv'
<1> DEFINE body == Head(code).body
<1>1. CASE UNCHANGED <<clientVars, executed, cells, want>> /\ exited' = TRUE
  BY <1>1 DEF PostFails, libraryVars, clientVars, sessionVars, blockVars, TInv, TypeOK, PayloadEncoded
<1>2. ASSUME ~Head(code).strict,
             UNCHANGED <<sessionVars, frame, frames, exited>>, code' = Tail(code), calls' = calls + 1,
             static' = Closures(body), want' = Wanting(body),
             executed' = (executed \/ "signal" \in Dos(body)),
             thread' = IF Head(code).waits THEN "locks" ELSE "runs",
             NEW lands \in BOOLEAN,
             cells' = [c \in Cell |-> IF c \in StoredIn(body) /\ Reaches(Captured(body), c, lands)
                                      THEN [call |-> calls + 1, ret |-> RET_ERR] ELSE cells[c]]
      PROVE TInv'
  <2>1. /\ frame \in [Cell -> Nat] /\ frames \in [Cell -> Nat] /\ calls \in Nat
        /\ cells \in [Cell -> [call : Nat, ret : {RET_OK, RET_ERR}]]
        /\ \A r \in posted : r.call \in 1..calls /\ r.fn \in WakuFns \cup LogosFns /\ r.body \in Body
        /\ running.call \in 0..calls
    BY DEF TInv, TypeOK
  <2>2. UNCHANGED <<prog, payload, posted, running>> /\ At("call")
    BY <1>2 DEF PostFails, sessionVars, libraryVars
  <2>3. /\ calls' \in Nat /\ static' \in [Cell -> Nat] /\ want' \in [Cell -> 0..calls']
        /\ Tail(code) \in Seq(StepsOf(prog))
    BY <1>2, <2>2, CallTyped
  <2>4. cells' \in [Cell -> [call : Nat, ret : {RET_OK, RET_ERR}]]
    <3> DEFINE at(c) == c \in StoredIn(body) /\ Reaches(Captured(body), c, lands)
    <3>1. cells' = [c \in Cell |-> IF at(c) THEN [call |-> calls + 1, ret |-> RET_ERR] ELSE cells[c]]
      BY <1>2
    <3>2. [call |-> calls + 1, ret |-> RET_ERR] \in [call : Nat, ret : {RET_OK, RET_ERR}]
      BY <2>1
    <3> HIDE DEF at
    <3>3. QED BY <2>1, <3>1, <3>2
  <2>5. /\ \A r \in posted' : r.call \in 1..calls' /\ r.fn \in WakuFns \cup LogosFns /\ r.body \in Body
        /\ running'.call \in 0..calls'
    BY <1>2, <2>1, <2>2
  <2>6. executed' \in BOOLEAN /\ thread' \in {"runs", "locks"}
    BY <1>2
  <2>7. QED BY <1>2, <2>1, <2>2, <2>3, <2>4, <2>5, <2>6 DEF TInv, TypeOK, PayloadEncoded
<1>3. QED BY <1>1, <1>2 DEF PostFails

\* The library's thread takes its callbacks from the calls and from the program.
LEMMA AnswerTyped == ASSUME TInv, AnswerSome PROVE TInv'
<1>1. PICK r \in posted, ret \in {RET_OK, RET_ERR} : Answer(r, ret)
  BY DEF AnswerSome
<1> DEFINE cb == [call |-> r.call, ret |-> ret, body |-> r.body, env |-> r.env, event |-> NoEvent]
<1>2. calls \in Nat /\ r.call \in 1..calls /\ r.body \in Body
  BY DEF TInv, TypeOK
<1>3. /\ DOMAIN cb = {"call", "ret", "body", "env", "event"}
      /\ cb.call \in 0..calls /\ cb.ret \in {RET_OK, RET_ERR} /\ cb.body \in Body
  BY <1>2
<1>4. Run(cb) /\ posted' \subseteq posted
  BY <1>1 DEF Answer
<1> HIDE DEF cb
<1>5. /\ DOMAIN running' = {"call", "ret", "body", "env", "event"}
      /\ running'.call \in 0..calls /\ running'.ret \in {RET_OK, RET_ERR} /\ running'.body \in Body
  BY <1>3, <1>4, RunTyped
<1>6. UNCHANGED <<clientVars, sharedVars>>
  BY <1>1 DEF Answer
<1>7. QED BY <1>4, <1>5, <1>6 DEF TInv, TypeOK, PayloadEncoded, clientVars, sessionVars, blockVars, sharedVars

LEMMA EmitTyped == ASSUME TInv, NEW e \in Events, NEW ret \in {RET_OK, RET_ERR}, Emit(e, ret) PROVE TInv'
<1> DEFINE shows == IF ret = RET_OK /\ "show" \in Dos(prog.onEvent) THEN [sent |-> e, as |-> event_callback(toFlatJson(e))]
                    ELSE NoEvent
           cb == [call |-> 0, ret |-> ret, body |-> prog.onEvent, env |-> NoCallback.env, event |-> shows]
<1>1. calls \in Nat /\ prog.onEvent \in Body
  BY ProgramsAreWritten DEF TInv, TypeOK
<1>2. Run(cb)
  BY DEF Emit
<1> HIDE DEF shows
<1>3. /\ DOMAIN cb = {"call", "ret", "body", "env", "event"}
      /\ cb.call \in 0..calls /\ cb.ret \in {RET_OK, RET_ERR} /\ cb.body \in Body
  BY <1>1
<1> HIDE DEF cb
<1>4. /\ DOMAIN running' = {"call", "ret", "body", "env", "event"}
      /\ running'.call \in 0..calls /\ running'.ret \in {RET_OK, RET_ERR} /\ running'.body \in Body
  BY <1>2, <1>3, RunTyped
<1>5. UNCHANGED <<clientVars, sharedVars, posted>>
  BY DEF Emit
<1>6. QED BY <1>4, <1>5 DEF TInv, TypeOK, PayloadEncoded, clientVars, sessionVars, blockVars, sharedVars

\* What a callback does leaves the types alone.
LEMMA CallbackTyped == ASSUME TInv, Callback PROVE TInv'
<1>1. running.body # <<>> /\ Continue
  BY DEF Callback, CallbackChecks, CallbackSignals, CallbackStores, CallbackShows, Running
<1>2. /\ DOMAIN running' = {"call", "ret", "body", "env", "event"}
      /\ running'.call \in 0..calls /\ running'.ret \in {RET_OK, RET_ERR} /\ running'.body \in Body
  BY <1>1, ContinueTyped
<1>3. /\ cells \in [Cell -> [call : Nat, ret : {RET_OK, RET_ERR}]] /\ calls \in Nat
      /\ running.call \in 0..calls /\ running.ret \in {RET_OK, RET_ERR}
      /\ thread \in {"runs", "locks", "sleeps"} /\ exited \in BOOLEAN /\ executed \in BOOLEAN
  BY DEF TInv, TypeOK
<1>4. /\ UNCHANGED <<prog, code, calls, frame, frames, static, want, payload, posted>>
      /\ thread' \in {"runs", "locks", "sleeps"} /\ exited' \in BOOLEAN /\ executed' \in BOOLEAN
  BY <1>3 DEF Callback, CallbackChecks, CallbackSignals, CallbackStores, CallbackShows, signal_cond, clientVars,
     sessionVars, blockVars
<1>5. cells' \in [Cell -> [call : Nat, ret : {RET_OK, RET_ERR}]]
  <2>1. CASE CallbackChecks \/ CallbackSignals
    BY <1>3, <2>1 DEF CallbackChecks, CallbackSignals
  <2>2. CASE CallbackStores
    <3> DEFINE answer == [call |-> running.call, ret |-> running.ret]
               c == Head(running.body).cell
    <3>1. answer \in [call : Nat, ret : {RET_OK, RET_ERR}]
      BY <1>3
    <3>2. cells' = [cells EXCEPT ![c] = answer] \/ cells' = cells
      BY <2>2 DEF CallbackStores
    <3> HIDE DEF answer, c
    <3>3. QED BY <1>3, <3>1, <3>2
  <2>3. CASE CallbackShows
    <3> DEFINE answer == [call |-> 1, ret |-> RET_OK]
    <3>1. answer \in [call : Nat, ret : {RET_OK, RET_ERR}]
      OBVIOUS
    <3>2. cells' = [cells EXCEPT !["got"] = answer] \/ cells' = cells
      BY <2>3 DEF CallbackShows
    <3> HIDE DEF answer
    <3>3. QED BY <1>3, <3>1, <3>2
  <2>4. QED BY <2>1, <2>2, <2>3 DEF Callback
<1>6. QED BY <1>2, <1>4, <1>5 DEF TInv, TypeOK, PayloadEncoded

LEMMA NextKeepsTypes == TInv /\ [Next]_vars => TInv'
<1> SUFFICES ASSUME TInv, [Next]_vars PROVE TInv'
  OBVIOUS
<1>1. CASE UNCHANGED vars
  BY <1>1, TypedKept DEF vars, clientVars, sessionVars, blockVars, sharedVars, libraryVars, typedVars
<1>2. CASE Client
  BY <1>2, WaitTyped, PostTyped, PostFailsTyped, BlocksTyped, EncodeTyped DEF Client
<1>3. CASE WakesSpuriously \/ NextCommand \/ Crash
  BY <1>3, WaitTyped
<1>4. CASE AnswerSome
  BY <1>4, AnswerTyped
<1>5. CASE Callback
  BY <1>5, CallbackTyped
<1>6. ASSUME NEW e \in Events, NEW ret \in {RET_OK, RET_ERR}, Emit(e, ret) PROVE TInv'
  BY <1>6, EmitTyped
<1>7. QED BY <1>1, <1>2, <1>3, <1>4, <1>5, <1>6 DEF Next

LEMMA InitTyped == Init => TInv
<1> SUFFICES ASSUME Init PROVE TInv
  OBVIOUS
<1>1. prog \in Programs /\ code = prog.main /\ calls = 0
  BY DEF Init
<1>2. code \in Seq(StepsOf(prog))
  <2>1. code \in Scripts(prog)
    BY <1>1 DEF Scripts
  <2>2. code \in Seq(Range(code)) /\ Range(code) \subseteq StepsOf(prog)
    BY <1>1, <2>1, ProgramsAreWritten DEF StepsOf
  <2>3. QED BY <2>2, SeqMonotonic
<1>3. /\ frame \in [Cell -> Nat] /\ frames \in [Cell -> Nat] /\ static \in [Cell -> Nat] /\ want \in [Cell -> 0..calls]
      /\ cells \in [Cell -> [call : Nat, ret : {RET_OK, RET_ERR}]]
  BY DEF Init, Unset
<1>4. /\ DOMAIN running = {"call", "ret", "body", "env", "event"} /\ running.ret \in {RET_OK, RET_ERR}
      /\ running.call \in 0..calls /\ running.body \in Body
  BY <1>1, BodyTyped DEF Init, NoCallback
<1>6. PayloadEncoded
  BY NoneEncoded DEF Init
<1>7. /\ thread \in {"runs", "locks", "sleeps"} /\ exited \in BOOLEAN /\ executed \in BOOLEAN /\ calls \in Nat
      /\ posted = {}
  BY DEF Init
<1>8. QED BY <1>1, <1>2, <1>3, <1>4, <1>6, <1>7 DEF TInv, TypeOK

LEMMA Typedness == Spec => []TInv
  BY InitTyped, NextKeepsTypes, PTL DEF Spec

\* The state that the two threads share has its types, and every request and callback under way
\* belongs to a call that the program has made.
THEOREM TypeCorrectness == Spec => []TypeOK
  BY Typedness, PTL DEF TInv

\* publish_message of waku_example.c sends, in base64, what the user typed, whatever its bytes are. What
\* waku.cpp sends begins with that, when no byte is negative as a char, and goes on with whatever stands
\* in memory behind it.
THEOREM PayloadsDecode == Spec => []PayloadDecodes
<1>1. TInv => PayloadDecodes
  <2> SUFFICES ASSUME PayloadEncoded PROVE PayloadDecodes
    BY DEF TInv
  <2>1. CASE ~prog.cify
    BY <2>1, EncodingIsDecoded DEF PayloadEncoded, PayloadDecodes
  <2>2. CASE prog.cify
    BY <2>2, CppEncodingIsDecoded DEF PayloadEncoded, PayloadDecodes
  <2>3. QED BY <2>1, <2>2
<1>2. QED BY <1>1, Typedness, PTL
------------------------------------------------------------------------------
(* The node before the requests for it: programs that await the answer to its creation. *)

\* The first call makes the node: its answer is an error that will end the program, or the node is there.
AwaitInv ==
  /\ calls = 0 => code = prog.main
  /\ calls # 0 => NoCreation(code)
  /\ \A r \in posted : IF calls = 1 THEN r.fn \in Creates /\ "exitOnErr" \in Dos(r.body) ELSE r.fn \notin Creates
  /\ calls = 1 /\ running.call # 0 /\ node # "created" => running.ret = RET_ERR /\ "exitOnErr" \in Dos(running.body)
  /\ calls = 1 /\ posted = {} /\ running.call = 0 => node = "created"
  /\ calls > 1 => node = "created"

Ready == \A r \in posted : NodeReady(r)

AInv == AwaitsNode(prog) => Ready /\ (exited \/ AwaitInv)

\* What is left of a script.
LEMMA TailNeeds ==
  ASSUME NEW S, NEW steps \in Seq(S), steps # <<>>
  PROVE  /\ NoCreation(steps) => ~Creation(Head(steps)) /\ NoCreation(Tail(steps))
         /\ NeedsNone(steps) => ~NeedsNode(Head(steps)) /\ NeedsNone(Tail(steps))
<1> DEFINE t == Tail(steps)
           h == Head(steps)
<1>1. h = steps[1] /\ Len(steps) \in Nat \ {0} /\ Len(t) = Len(steps) - 1
  BY TailFacts
<1>2. \A i \in 1..Len(t) : t[i] = steps[i + 1] /\ i + 1 \in 1..Len(steps)
  BY <1>1, TailFacts
<1> HIDE DEF t, h
<1>3. NoCreation(steps) => ~Creation(h) /\ NoCreation(t)
  BY <1>1, <1>2 DEF NoCreation
<1>4. NeedsNone(steps) => ~NeedsNode(h) /\ NeedsNone(t)
  BY <1>1, <1>2 DEF NeedsNone
<1>5. QED BY <1>3, <1>4 DEF t, h

\* Between a call's return and the next there is a node, if there was a call.
LEMMA AwaitedIsThere ==
  ASSUME Inv, AwaitInv
  PROVE  /\ Ready
         /\ thread = "runs" /\ calls # 0 => node = "created"
<1>1. calls \in Nat
  BY DEF Inv, DataOK
<1>2. calls = 0 => posted = {}
  BY <1>1 DEF Inv, PhaseOK, None
<1>3. Ready
  BY <1>1, <1>2 DEF AwaitInv, Ready, NodeReady, NodeFree
<1>4. thread = "runs" => None
  BY DEF Inv, PhaseOK
<1>5. QED BY <1>1, <1>3, <1>4 DEF AwaitInv, None

\* The creation is posted first, and any other request when the node is there.
LEMMA AwaitPost ==
  ASSUME Inv, AwaitsNode(prog), AwaitInv, Post
  PROVE  AwaitInv'
<1> DEFINE s == Head(code)
           new == [call |-> calls + 1, fn |-> s.fn, body |-> s.body, env |-> Captured(s.body)]
<1>1. /\ posted' = posted \cup {new} /\ calls' = calls + 1 /\ code' = Tail(code) /\ UNCHANGED <<running, node>>
      /\ thread = "runs" /\ code # <<>> /\ s.op = "call"
  BY DEF Post, At
<1>2. calls \in Nat /\ posted = {} /\ running.call = 0 /\ code \in Seq(StepsOf(prog))
  BY <1>1 DEF Inv, PhaseOK, None, DataOK, CodeOK
<1>3. new.fn = s.fn /\ new.body = s.body
  OBVIOUS
<1>4. CASE calls = 0
  <2>1. Creation(s) /\ "exitOnErr" \in Dos(s.body) /\ NoCreation(Tail(code))
    BY <1>4 DEF AwaitInv, AwaitsNode, MakesNodeOnce
  <2>2. s.fn \in Creates
    BY <2>1 DEF Creation
  <2> HIDE DEF s, new
  <2>3. QED BY <1>1, <1>2, <1>3, <1>4, <2>1, <2>2 DEF AwaitInv
<1>5. CASE calls # 0
  <2>1. node = "created"
    BY <1>1, <1>5, AwaitedIsThere
  <2>2. s.fn \notin Creates /\ NoCreation(Tail(code))
    BY <1>1, <1>2, <1>5, TailNeeds DEF AwaitInv, Creation
  <2> HIDE DEF s, new
  <2>3. QED BY <1>1, <1>2, <1>3, <1>5, <2>1, <2>2 DEF AwaitInv
<1>6. QED BY <1>4, <1>5

\* The steps between the calls come after the first.
LEMMA AwaitSteps ==
  ASSUME Inv, AwaitsNode(prog), AwaitInv,
         waitForCallback \/ WakesSpuriously \/ GoOn \/ set_event_callback \/ EncodeMessage \/ NextCommand
  PROVE  AwaitInv'
<1>1. UNCHANGED <<prog, calls, posted, running, node>>
  BY DEF waitForCallback, WaitPasses, WaitSleeps, WakesSpuriously, GoOn, set_event_callback, EncodeMessage,
     NextCommand, sessionVars, libraryVars
<1>2. code' = code \/ (code # <<>> /\ Head(code).op # "call" /\ code' = Tail(code)) \/ (code = <<>> /\ code' \in prog.menu)
  BY DEF waitForCallback, WaitPasses, WaitSleeps, WakesSpuriously, GoOn, set_event_callback, EncodeMessage,
     NextCommand, At
<1>3. prog.main # <<>> /\ Head(prog.main).op = "call" /\ \A script \in prog.menu : NoCreation(script)
  BY DEF AwaitsNode, MakesNodeOnce, Creation
<1>4. CASE code' = code
  BY <1>1, <1>4 DEF AwaitInv
<1>5. CASE calls # 0
  <2>1. NoCreation(code')
    BY <1>2, <1>3, <1>5, TailNeeds DEF AwaitInv, Inv, CodeOK
  <2>2. QED BY <1>1, <1>5, <2>1 DEF AwaitInv
<1>6. CASE calls = 0 /\ code' # code
  BY <1>2, <1>3, <1>6 DEF AwaitInv
<1>7. QED BY <1>4, <1>5, <1>6

\* The answer says whether the node is there.
LEMMA AwaitAnswer ==
  ASSUME Inv, AwaitInv, NEW r \in posted, NEW ret \in {RET_OK, RET_ERR}, Answer(r, ret)
  PROVE  AwaitInv'
<1> DEFINE cb == [call |-> r.call, ret |-> ret, body |-> r.body, env |-> r.env, event |-> NoEvent]
<1>1. posted = {r} /\ r.call = calls /\ Owed(r.body) /\ calls \in Nat \ {0}
  BY DEF Inv, PhaseOK, None, Sent, Answering, Signalled, DataOK
<1>2. /\ posted' = {} /\ running' = cb /\ UNCHANGED <<calls, code>>
      /\ node' = IF r.fn \notin Creates THEN node ELSE IF ret = RET_OK THEN "created" ELSE "failed"
  BY <1>1 DEF Answer, Run, Owed, clientVars
<1>3. running'.call = calls /\ running'.ret = ret /\ running'.body = r.body
  BY <1>1, <1>2
<1>4. IF calls = 1 THEN r.fn \in Creates /\ "exitOnErr" \in Dos(r.body) ELSE r.fn \notin Creates
  BY DEF AwaitInv
<1> HIDE DEF cb
<1>5. QED BY <1>1, <1>2, <1>3, <1>4 DEF AwaitInv

\* No event is reported while an answer is being given.
LEMMA AwaitEmit ==
  ASSUME Inv, AwaitInv, NEW e, NEW ret, Emit(e, ret)
  PROVE  AwaitInv'
<1>1. running.call = 0
  BY DEF Emit, Idle, Inv, PhaseOK, None, Sent, Answering, Signalled, Owed
<1>2. running'.call = 0 /\ UNCHANGED <<calls, code, posted, node, prog>>
  BY DEF Emit, Run, NoCallback, clientVars, sessionVars
<1>3. QED BY <1>1, <1>2 DEF AwaitInv

\* A callback that goes on past its check has the node.
LEMMA AwaitCallback ==
  ASSUME Inv, AwaitInv, Callback, ~exited'
  PROVE  AwaitInv'
<1> PICK do \in {"exitOnErr", "store", "signal"} : Running(do) /\ (do = "exitOnErr" => running.ret # RET_ERR)
  BY NoShow DEF Callback, CallbackChecks, CallbackStores, CallbackSignals
<1>1. Continue /\ UNCHANGED <<calls, code, posted, node, prog>>
  BY NoShow DEF Callback, CallbackChecks, CallbackStores, CallbackSignals, clientVars, sessionVars
<1>2. running.body # <<>> /\ Head(running.body).do = do /\ DOMAIN running = {"call", "ret", "body", "env", "event"}
  BY DEF Running, Inv, EventOK
<1>3. CASE running.call = 0
  <2>1. running'.call = 0
    BY <1>1, <1>2, <1>3, Continues
  <2>2. QED BY <1>1, <1>3, <2>1 DEF AwaitInv
<1>4. CASE running.call # 0 /\ Answering
  <2>1. Dos(running.body) = {do} \cup Dos(Tail(running.body))
    BY <1>2, <1>4, BodyTail DEF Answering, Owed
  <2>2. CASE Tail(running.body) # <<>>
    <3>1. running'.call = running.call /\ running'.ret = running.ret /\ running'.body = Tail(running.body)
      BY <1>1, <1>2, <2>2, Continues DEF Continue, Run
    <3>2. QED BY <1>1, <1>4, <2>1, <3>1 DEF AwaitInv
  <2>3. CASE Tail(running.body) = <<>>
    <3>1. Dos(running.body) = {do} /\ running'.call = 0
      BY <1>1, <1>2, <2>1, <2>3, Continues, EmptyBody
    <3>2. calls = 1 => node = "created"
      BY <1>4, <3>1 DEF AwaitInv
    <3>3. QED BY <1>1, <1>4, <3>1, <3>2 DEF AwaitInv, Answering
  <2>4. QED BY <2>2, <2>3
<1>5. QED BY <1>3, <1>4, WhichCallback

LEMMA AwaitKept == ASSUME IInv, AInv, [Next]_vars PROVE AInv'
<1> SUFFICES ASSUME AwaitsNode(prog) PROVE Ready' /\ (exited' \/ AwaitInv')
  BY ProgramStays DEF AInv
<1>1. Inv /\ Inv' /\ Ready /\ (exited \/ AwaitInv) /\ prog' = prog
  BY ProgramStays, InvStep DEF IInv, Inv, Strict, AwaitsNode, AInv
<1>2. AwaitInv' => Ready'
  BY <1>1 DEF Inv, DataOK, PhaseOK, None, AwaitInv, Ready, NodeReady, NodeFree
<1>3. CASE UNCHANGED <<exited, prog, code, calls, posted, running, node>>
  BY <1>1, <1>3 DEF AwaitInv, Ready, NodeReady
<1>4. CASE exited' /\ UNCHANGED <<posted, node>>
  BY <1>1, <1>4 DEF Ready, NodeReady
<1>5. CASE ~exited /\ AwaitInv'
  BY <1>2, <1>5
<1>6. CASE waitForCallback \/ WakesSpuriously \/ GoOn \/ set_event_callback \/ EncodeMessage \/ NextCommand
  <2>1. ~exited
    BY <1>6 DEF waitForCallback, WaitPasses, WaitSleeps, WakesSpuriously, GoOn, set_event_callback, EncodeMessage,
       NextCommand, At
  <2>2. QED BY <1>1, <1>5, <1>6, <2>1, AwaitSteps
<1>7. CASE Post
  BY <1>1, <1>5, <1>7, AwaitPost DEF Post, At
<1>8. CASE PostFails \/ MainReturns \/ Crash
  <2>1. exited'
    BY <1>1, <1>8, NextStep DEF PostFails, MainReturns, Crash, At
  <2>2. UNCHANGED <<posted, node>>
    BY <1>8 DEF PostFails, MainReturns, Crash, libraryVars
  <2>3. QED BY <1>4, <2>1, <2>2
<1>9. CASE AnswerSome
  <2>1. PICK r \in posted, ret \in {RET_OK, RET_ERR} : Answer(r, ret)
    BY <1>9 DEF AnswerSome
  <2>2. ~exited
    BY <2>1 DEF Answer, Idle
  <2>3. QED BY <1>1, <1>5, <2>1, <2>2, AwaitAnswer
<1>10. ASSUME NEW e \in Events, NEW ret \in {RET_OK, RET_ERR}, Emit(e, ret) PROVE Ready' /\ (exited' \/ AwaitInv')
  <2>1. ~exited
    BY <1>10 DEF Emit, Idle
  <2>2. QED BY <1>1, <1>5, <1>10, <2>1, AwaitEmit
<1>11. CASE Callback
  <2>1. ~exited /\ UNCHANGED <<posted, node>>
    BY <1>11 DEF Callback, CallbackChecks, CallbackSignals, CallbackStores, CallbackShows, Running
  <2>2. CASE exited'
    BY <1>4, <2>1, <2>2
  <2>3. CASE ~exited'
    BY <1>1, <1>5, <1>11, <2>1, <2>3, AwaitCallback
  <2>4. QED BY <2>2, <2>3
<1>12. CASE UNCHANGED vars
  BY <1>3, <1>12 DEF vars, clientVars, sessionVars, sharedVars, libraryVars
<1>13. CASE EnterBlock \/ LeaveBlock \/ CheckAnswer \/ PollAgain \/ PollEnds \/ DestroyContext
  BY <1>1, <1>13, NoSuchStep
<1>14. QED BY <1>6, <1>7, <1>8, <1>9, <1>10, <1>11, <1>12, <1>13 DEF Next, Client
------------------------------------------------------------------------------
(* The node before the requests for it: programs that look at the answer to its creation. *)

SaysOK(c) == cells[c].call # 0 /\ cells[c].ret = RET_OK

\* Every request of the script for the node comes after a look at c.
Guarded(script, c) ==
  \A i \in 1..Len(script) : NeedsNode(script[i]) =>
    \E j \in 1..(i - 1) : script[j].op = "check" /\ script[j].cell = c

\* No request of the script for the node comes after the end of the context.
EndsLast(script) ==
  \A i \in 1..Len(script) : NeedsNode(script[i]) => \A j \in 1..(i - 1) : script[j].op # "destroy"

\* c does not say that the node is there, and will not by the callback that runs.
Denied(c) == ~SaysOK(c) /\ (c \in StoredIn(running.body) => running.ret = RET_ERR)

\* Only the creation writes to c; c says that the node is there only if it was, and then no request for it
\* is left or it still is.
CheckInv(c) ==
  /\ Ready
  /\ EndsLast(code)
  /\ calls = 0 => code = prog.main /\ posted = {} /\ node # "created"
  /\ calls # 0 => NoCreation(code)
  /\ \A r \in posted : c \in StoredIn(r.body) => r.fn \in Creates
  /\ \A r, q \in posted : r.fn \in Creates /\ q.fn \in Creates => r = q /\ node # "created"
  /\ node = "created" \/ NeedsNone(code) \/ (Guarded(code, c) /\ Denied(c))

BInv == \A c \in Cell : ChecksNode(prog, c) => CheckInv(c)

\* What is left of a script whose first step is no look at c.
LEMMA GuardedTail ==
  ASSUME NEW S, NEW script \in Seq(S), script # <<>>, NEW c
  PROVE  /\ EndsLast(script) => EndsLast(Tail(script)) /\ (Head(script).op = "destroy" => NeedsNone(Tail(script)))
         /\ Guarded(script, c) => ~NeedsNode(Head(script))
         /\ Guarded(script, c) /\ ~(Head(script).op = "check" /\ Head(script).cell = c) => Guarded(Tail(script), c)
<1> DEFINE t == Tail(script)
           h == Head(script)
<1>1. h = script[1] /\ Len(script) \in Nat \ {0} /\ Len(t) = Len(script) - 1
  BY TailFacts
<1>2. \A i \in 1..Len(t) : t[i] = script[i + 1] /\ i + 1 \in 1..Len(script)
  BY <1>1, TailFacts
<1> HIDE DEF t, h
<1>3. ASSUME EndsLast(script) PROVE EndsLast(t) /\ (h.op = "destroy" => NeedsNone(t))
  <2>1. ASSUME NEW i \in 1..Len(t), NeedsNode(t[i])
        PROVE  h.op # "destroy" /\ \A j \in 1..(i - 1) : t[j].op # "destroy"
    <3>1. NeedsNode(script[i + 1]) /\ i + 1 \in 1..Len(script)
      BY <1>2, <2>1
    <3>2. \A j \in 1..i : script[j].op # "destroy"
      BY <1>3, <3>1 DEF EndsLast
    <3>3. 1 \in 1..i /\ \A j \in 1..(i - 1) : j \in 1..Len(t) /\ j + 1 \in 1..i
      BY <1>1
    <3>4. QED BY <1>1, <1>2, <3>2, <3>3
  <2>2. QED BY <2>1 DEF EndsLast, NeedsNone
<1>4. Guarded(script, c) => ~NeedsNode(h)
  BY <1>1 DEF Guarded
<1>5. ASSUME Guarded(script, c), ~(h.op = "check" /\ h.cell = c) PROVE Guarded(t, c)
  <2>1. ASSUME NEW i \in 1..Len(t), NeedsNode(t[i])
        PROVE  \E j \in 1..(i - 1) : t[j].op = "check" /\ t[j].cell = c
    <3>1. NeedsNode(script[i + 1]) /\ i + 1 \in 1..Len(script)
      BY <1>2, <2>1
    <3>2. PICK j \in 1..i : script[j].op = "check" /\ script[j].cell = c
      BY <1>5, <3>1 DEF Guarded
    <3>3. j # 1 /\ j - 1 \in 1..(i - 1) /\ j - 1 \in 1..Len(t) /\ (j - 1) + 1 = j
      BY <1>1, <1>5, <3>2
    <3>4. t[j - 1] = script[j]
      BY <1>2, <3>3
    <3>5. QED BY <3>2, <3>3, <3>4
  <2>2. QED BY <2>1 DEF Guarded
<1>6. QED BY <1>3, <1>4, <1>5 DEF t, h

\* A step that neither posts nor answers, nor looks at c.
LEMMA CheckSame ==
  ASSUME TInv, NEW c \in Cell, CheckInv(c), UNCHANGED <<prog, calls, node>>, posted' \subseteq posted,
         \/ code' = code
         \/ /\ calls # 0 /\ code # <<>> /\ code' = Tail(code)
            /\ ~(Head(code).op = "check" /\ Head(code).cell = c),
         Denied(c) => Denied(c)'
  PROVE  CheckInv(c)'
<1>1. code \in Seq(StepsOf(prog))
  BY DEF TInv
<1>2. Ready' /\ \A r \in posted' : r \in posted
  BY DEF CheckInv, Ready, NodeReady
<1>3. CASE code' = code
  BY <1>2, <1>3 DEF CheckInv
<1>4. CASE calls # 0 /\ code # <<>> /\ code' = Tail(code) /\ ~(Head(code).op = "check" /\ Head(code).cell = c)
  <2>1. EndsLast(code') /\ NoCreation(code') /\ (NeedsNone(code) => NeedsNone(code'))
        /\ (Guarded(code, c) => Guarded(code', c))
    BY <1>1, <1>4, GuardedTail, TailNeeds DEF CheckInv
  <2>2. QED BY <1>2, <1>4, <2>1 DEF CheckInv
<1>5. QED BY <1>3, <1>4

\* Such are most steps of the program's thread.
LEMMA CheckSteps ==
  ASSUME TInv, NEW c \in Cell, ChecksNode(prog, c), CheckInv(c),
         \/ waitForCallback \/ WakesSpuriously \/ EnterBlock \/ LeaveBlock \/ GoOn \/ set_event_callback
         \/ EncodeMessage \/ PollAgain \/ PollEnds \/ MainReturns \/ Crash
  PROVE  CheckInv(c)'
<1>1. UNCHANGED <<prog, calls, node, posted, running>>
  BY DEF waitForCallback, WaitPasses, WaitSleeps, WakesSpuriously, EnterBlock, LeaveBlock, GoOn, set_event_callback,
     EncodeMessage, PollAgain, PollEnds, MainReturns, Crash, clientVars, sessionVars, libraryVars
<1>2. code' = code \/ (code # <<>> /\ code' = Tail(code) /\ Head(code).op \notin {"call", "check"})
  BY DEF waitForCallback, WaitPasses, WaitSleeps, WakesSpuriously, EnterBlock, LeaveBlock, GoOn, set_event_callback,
     EncodeMessage, PollAgain, PollEnds, MainReturns, Crash, clientVars, At
<1>3. cells \in [Cell -> [call : Nat, ret : {RET_OK, RET_ERR}]]
  BY DEF TInv, TypeOK
<1>4. cells' = cells \/ \E d : cells' = [cells EXCEPT ![d] = Unset]
  BY DEF waitForCallback, WaitPasses, WaitSleeps, WakesSpuriously, EnterBlock, LeaveBlock, GoOn, set_event_callback,
     EncodeMessage, PollAgain, PollEnds, MainReturns, Crash, sharedVars
<1>5. SaysOK(c)' => SaysOK(c)
  BY <1>3, <1>4 DEF SaysOK, Unset
<1>6. calls = 0 => Head(code).op = "call"
  BY DEF CheckInv, ChecksNode, MakesNodeOnce, Creation
<1>7. QED BY <1>1, <1>2, <1>5, <1>6, CheckSame DEF Denied

\* The look at c: the node is there, or the program gives up.
LEMMA CheckLooks ==
  ASSUME TInv, NEW c \in Cell, ChecksNode(prog, c), CheckInv(c), CheckAnswer
  PROVE  CheckInv(c)'
<1> DEFINE s == Head(code)
<1>1. /\ UNCHANGED <<prog, calls, node, posted, running, cells>> /\ code # <<>> /\ s.op = "check"
      /\ code' = IF SaysOK(s.cell) THEN Tail(code) ELSE s.else
  BY DEF CheckAnswer, sessionVars, sharedVars, libraryVars, At, SaysOK
<1>2. code \in Seq(StepsOf(prog)) /\ s \in StepsOf(prog)
  BY <1>1, StepTyped DEF TInv
<1>3. NoCreation(s.else) /\ NeedsNone(s.else)
  BY <1>1, <1>2 DEF ChecksNode
<1>4. calls # 0
  BY <1>1 DEF CheckInv, ChecksNode, MakesNodeOnce, Creation
<1>5. Denied(c)' <=> Denied(c)
  BY <1>1 DEF Denied, SaysOK
<1>6. CASE code' = s.else
  <2>1. EndsLast(code') /\ NeedsNone(code') /\ NoCreation(code')
    BY <1>3, <1>6 DEF EndsLast, NeedsNone
  <2>2. QED BY <1>1, <1>4, <2>1 DEF CheckInv, Ready, NodeReady
<1>7. CASE code' = Tail(code) /\ SaysOK(s.cell)
  <2>1. CASE s.cell = c
    <3>1. node = "created" \/ NeedsNone(code)
      BY <1>7, <2>1 DEF CheckInv, Denied
    <3>2. EndsLast(code') /\ NoCreation(code') /\ (NeedsNone(code) => NeedsNone(code'))
      BY <1>1, <1>2, <1>4, <1>7, GuardedTail, TailNeeds DEF CheckInv
    <3>3. QED BY <1>1, <1>4, <3>1, <3>2 DEF CheckInv, Ready, NodeReady
  <2>2. CASE s.cell # c
    BY <1>1, <1>4, <1>5, <1>7, <2>2, CheckSame
  <2>3. QED BY <2>1, <2>2
<1>8. QED BY <1>1, <1>6, <1>7

\* The context is destroyed after the last request for the node.
LEMMA CheckDestroys ==
  ASSUME TInv, NEW c \in Cell, ChecksNode(prog, c), CheckInv(c), DestroyContext
  PROVE  CheckInv(c)'
<1>1. /\ posted' = {} /\ node' = "none" /\ code' = Tail(code) /\ calls' = calls
      /\ code # <<>> /\ Head(code).op = "destroy" /\ code \in Seq(StepsOf(prog))
  BY DEF DestroyContext, At, TInv
<1>2. calls # 0
  BY <1>1 DEF CheckInv, ChecksNode, MakesNodeOnce, Creation
<1>3. EndsLast(code') /\ NeedsNone(code') /\ NoCreation(code')
  BY <1>1, <1>2, GuardedTail, TailNeeds DEF CheckInv
<1>4. QED BY <1>1, <1>2, <1>3 DEF CheckInv, Ready

\* A call: of the first the rest of main is left, which makes no node.
LEMMA CheckCall ==
  ASSUME TInv, NEW c \in Cell, ChecksNode(prog, c), CheckInv(c), At("call"), UNCHANGED <<prog, node, running>>,
         code' = Tail(code), calls' = calls + 1, SaysOK(c)' => SaysOK(c),
         \/ posted' = posted
         \/ \E n, env : posted' = posted \cup {[call |-> n, fn |-> Head(code).fn, body |-> Head(code).body, env |-> env]}
  PROVE  CheckInv(c)'
<1> DEFINE s == Head(code)
<1>1. code # <<>> /\ s.op = "call" /\ code \in Seq(StepsOf(prog)) /\ s \in StepsOf(prog)
  BY StepTyped DEF At, TInv
<1>2. calls \in Nat /\ calls + 1 # 0
  BY DEF TInv, TypeOK
<1>3. NoCreation(code') /\ (calls = 0 <=> Creation(s))
  <2>1. CASE calls = 0
    BY <2>1 DEF CheckInv, ChecksNode, MakesNodeOnce
  <2>2. CASE calls # 0
    BY <1>1, <2>2, TailNeeds DEF CheckInv
  <2>3. QED BY <2>1, <2>2
<1>4. /\ EndsLast(code') /\ (NeedsNone(code) => ~NeedsNode(s) /\ NeedsNone(code'))
      /\ (Guarded(code, c) => ~NeedsNode(s) /\ Guarded(code', c))
  BY <1>1, GuardedTail, TailNeeds DEF CheckInv
<1>5. Denied(c) => Denied(c)'
  BY DEF Denied
<1>6. /\ c \in StoredIn(s.body) => s.fn \in Creates
      /\ Creation(s) <=> s.fn \in Creates
      /\ NeedsNode(s) <=> s.fn \notin NodeFree
  BY <1>1 DEF ChecksNode, Creation, NeedsNode
<1>7. node = "created" \/ s.fn \in NodeFree
  BY <1>4, <1>6 DEF CheckInv
<1>8. CASE posted' = posted
  BY <1>2, <1>3, <1>4, <1>5, <1>8 DEF CheckInv, Ready, NodeReady
<1>9. ASSUME NEW n, NEW env, posted' = posted \cup {[call |-> n, fn |-> s.fn, body |-> s.body, env |-> env]}
      PROVE  CheckInv(c)'
  <2> DEFINE new == [call |-> n, fn |-> s.fn, body |-> s.body, env |-> env]
  <2>1. new.fn = s.fn /\ new.body = s.body /\ posted' = posted \cup {new}
    BY <1>9
  <2> HIDE DEF new, s
  <2>2. Ready'
    BY <1>7, <2>1 DEF CheckInv, Ready, NodeReady
  <2>3. \A r \in posted' : c \in StoredIn(r.body) => r.fn \in Creates
    BY <1>6, <2>1 DEF CheckInv
  <2>4. \A r, q \in posted' : r.fn \in Creates /\ q.fn \in Creates => r = q /\ node # "created"
    BY <1>3, <1>6, <2>1 DEF CheckInv
  <2>5. QED BY <1>2, <1>3, <1>4, <1>5, <2>2, <2>3, <2>4 DEF CheckInv
<1>10. QED BY <1>8, <1>9

LEMMA CheckPosts ==
  ASSUME TInv, NEW c \in Cell, ChecksNode(prog, c), CheckInv(c), Post \/ PostFails
  PROVE  CheckInv(c)'
<1>1. CASE Post
  BY <1>1, CheckCall DEF Post, sessionVars, SaysOK
<1>2. CASE PostFails /\ UNCHANGED <<clientVars, cells>>
  <2>1. UNCHANGED <<prog, calls, node, posted, running, cells, code>>
    BY <1>2 DEF PostFails, libraryVars, clientVars, sessionVars
  <2>2. QED BY <2>1, CheckSame DEF Denied, SaysOK
<1>3. CASE PostFails /\ ~UNCHANGED <<clientVars, cells>>
  <2>1. /\ At("call") /\ UNCHANGED <<prog, node, running, posted>> /\ code' = Tail(code) /\ calls' = calls + 1
    BY <1>3 DEF PostFails, sessionVars, libraryVars
  <2>2. cells \in [Cell -> [call : Nat, ret : {RET_OK, RET_ERR}]]
    BY DEF TInv, TypeOK
  <2>3. cells'[c] = cells[c] \/ cells'[c] = [call |-> calls + 1, ret |-> RET_ERR]
    BY <1>3, <2>2 DEF PostFails
  <2>4. SaysOK(c)' => SaysOK(c)
    BY <2>3 DEF SaysOK, RET_OK, RET_ERR
  <2>5. QED BY <2>1, <2>4, CheckCall
<1>4. QED BY <1>1, <1>2, <1>3

\* The answer to the creation says whether there is a node, and no other answer goes to c.
LEMMA CheckAnswers ==
  ASSUME TInv, NEW c \in Cell, ChecksNode(prog, c), CheckInv(c), NEW r \in posted, NEW ret \in {RET_OK, RET_ERR},
         Answer(r, ret)
  PROVE  CheckInv(c)'
<1> DEFINE cb == [call |-> r.call, ret |-> ret, body |-> r.body, env |-> r.env, event |-> NoEvent]
<1>1. /\ posted' = posted \ {r} /\ Run(cb) /\ UNCHANGED <<prog, calls, code, cells>>
      /\ node' = IF r.fn \notin Creates THEN node ELSE IF ret = RET_OK THEN "created" ELSE "failed"
  BY DEF Answer, clientVars, sessionVars, sharedVars
<1>2. running' = NoCallback \/ (running'.body = r.body /\ running'.ret = ret)
  BY <1>1 DEF Run
<1>3. c \notin StoredIn(NoCallback.body)
  BY EmptyBody DEF NoCallback
<1>4. SaysOK(c)' <=> SaysOK(c)
  BY <1>1 DEF SaysOK
<1>5. calls # 0
  BY DEF CheckInv
<1> HIDE DEF cb
<1>6. CASE r.fn \in Creates
  <2>1. node # "created" /\ \A q \in posted' : q.fn \notin Creates
    BY <1>1, <1>6 DEF CheckInv
  <2>2. Ready'
    BY <1>1, <2>1 DEF CheckInv, Ready, NodeReady
  <2>3. node' = "created" \/ (Denied(c) => Denied(c)')
    BY <1>1, <1>2, <1>3, <1>4, <1>6 DEF Denied
  <2>4. QED BY <1>1, <1>5, <2>1, <2>2, <2>3 DEF CheckInv
<1>7. CASE r.fn \notin Creates
  <2>1. c \notin StoredIn(running'.body)
    BY <1>2, <1>3, <1>7 DEF CheckInv
  <2>2. QED BY <1>1, <1>4, <1>7, <2>1, CheckSame DEF Denied
<1>8. QED BY <1>6, <1>7

LEMMA CheckEmit ==
  ASSUME TInv, NEW c \in Cell, ChecksNode(prog, c), CheckInv(c), NEW e, NEW ret, Emit(e, ret)
  PROVE  CheckInv(c)'
<1>1. UNCHANGED <<prog, calls, node, posted, code, cells>>
  BY DEF Emit, clientVars, sessionVars, sharedVars
<1>2. running'.body = prog.onEvent \/ running'.body = <<>>
  BY DEF Emit, Run, NoCallback
<1>3. c \notin StoredIn(running'.body)
  BY <1>2, EmptyBody DEF ChecksNode
<1>4. QED BY <1>1, <1>3, CheckSame DEF Denied, SaysOK

\* The callback that writes to c says what the answer was.
LEMMA CheckCallback ==
  ASSUME TInv, NEW c \in Cell, ChecksNode(prog, c), CheckInv(c), Callback
  PROVE  CheckInv(c)'
<1>1. /\ UNCHANGED <<prog, calls, node, posted, code>> /\ Continue /\ running.body # <<>>
  BY DEF Callback, CallbackChecks, CallbackSignals, CallbackStores, CallbackShows, clientVars, sessionVars, Running
<1>2. /\ DOMAIN running = {"call", "ret", "body", "env", "event"} /\ running.body \in Body
      /\ cells \in [Cell -> [call : Nat, ret : {RET_OK, RET_ERR}]]
  BY DEF TInv, TypeOK
<1>3. running.body \in Seq(Range(running.body))
  BY <1>2, BodyFacts
<1>4. StoredIn(Tail(running.body)) \subseteq StoredIn(running.body)
  BY <1>1, <1>3, BodyTail
<1>5. c \in StoredIn(running'.body) => c \in StoredIn(running.body) /\ running'.ret = running.ret
  <2>1. running' = NoCallback \/ (running'.body = Tail(running.body) /\ running'.ret = running.ret)
    BY <1>1, <1>2 DEF Continue, Run
  <2>2. QED BY <1>4, <2>1, EmptyBody DEF NoCallback
<1>6. Denied(c) /\ SaysOK(c)' => SaysOK(c)
  <2>1. CASE CallbackChecks \/ CallbackSignals
    BY <2>1 DEF CallbackChecks, CallbackSignals, SaysOK
  <2>2. CASE CallbackShows
    BY <1>2, <2>2 DEF CallbackShows, SaysOK, ChecksNode
  <2>3. CASE CallbackStores
    <3> DEFINE d == Head(running.body).cell
    <3>1. cells' = cells \/ cells' = [cells EXCEPT ![d] = [call |-> running.call, ret |-> running.ret]]
      BY <2>3 DEF CallbackStores
    <3>2. d \in StoredIn(running.body)
      BY <1>1, <1>3, <2>3, BodyTail DEF CallbackStores, Running
    <3> HIDE DEF d
    <3>3. CASE d = c
      BY <1>2, <3>1, <3>2, <3>3 DEF Denied, SaysOK, RET_OK, RET_ERR
    <3>4. CASE d # c
      BY <1>2, <3>1, <3>4 DEF SaysOK
    <3>5. QED BY <3>3, <3>4
  <2>4. QED BY <2>1, <2>2, <2>3 DEF Callback
<1>7. Denied(c) => Denied(c)'
  BY <1>5, <1>6 DEF Denied
<1>8. QED BY <1>1, <1>7, CheckSame

LEMMA CheckKept == ASSUME TInv, BInv, [Next]_vars PROVE BInv'
<1> SUFFICES ASSUME NEW c \in Cell, ChecksNode(prog, c) PROVE CheckInv(c)'
  BY ProgramStays DEF BInv
<1>1. CheckInv(c)
  BY DEF BInv
<1>2. CASE UNCHANGED vars
  BY <1>1, <1>2, CheckSame DEF vars, clientVars, sessionVars, sharedVars, libraryVars, Denied, SaysOK
<1>3. CASE Client
  BY <1>1, <1>3, CheckSteps, CheckPosts, CheckLooks, CheckDestroys DEF Client
<1>4. CASE WakesSpuriously \/ Crash
  BY <1>1, <1>4, CheckSteps
<1>5. CASE NextCommand
  BY <1>5 DEF NextCommand, ChecksNode
<1>6. CASE AnswerSome
  BY <1>1, <1>6, CheckAnswers DEF AnswerSome
<1>7. ASSUME NEW e \in Events, NEW ret \in {RET_OK, RET_ERR}, Emit(e, ret) PROVE CheckInv(c)'
  BY <1>1, <1>7, CheckEmit
<1>8. CASE Callback
  BY <1>1, <1>8, CheckCallback
<1>9. QED BY <1>2, <1>3, <1>4, <1>5, <1>6, <1>7, <1>8 DEF Next

\* Every request for the node is made, and answered, while there is one: for every program that awaits the
\* answer to its creation, as waku_example.c does, or looks at it, as logosdelivery_example.c does.
THEOREM NodeComesFirst == Spec => []NodeFirst
<1>1. Init => AInv /\ BInv
  <2> SUFFICES ASSUME Init PROVE AInv /\ BInv
    OBVIOUS
  <2>1. code = prog.main /\ calls = 0 /\ posted = {} /\ node = "none" /\ running = NoCallback
    BY DEF Init
  <2>2. AInv
    BY <2>1 DEF AInv, AwaitInv, Ready, NoCallback
  <2>3. ASSUME NEW c \in Cell, ChecksNode(prog, c) PROVE CheckInv(c)
    <3>1. Guarded(code, c) /\ EndsLast(code)
      BY <2>1, <2>3 DEF ChecksNode, Guarded, EndsLast
    <3>2. Denied(c)
      BY <2>1, EmptyBody DEF Init, Denied, SaysOK, Unset, NoCallback
    <3>3. QED BY <2>1, <3>1, <3>2 DEF CheckInv, Ready
  <2>4. QED BY <2>2, <2>3 DEF BInv
<1>2. IInv /\ TInv /\ AInv /\ BInv /\ [Next]_vars => AInv' /\ BInv'
  BY AwaitKept, CheckKept
<1>3. AInv /\ BInv => NodeFirst
  BY DEF AInv, BInv, CheckInv, NodeFirst, Ready
<1>4. QED BY <1>1, <1>2, <1>3, Invariance, Typedness, PTL DEF Spec

----------------------------------------------------------------------------
(* What is shown. *)

\* Nothing yet, or an event that was reported and what is read in its text.
Reported(x) == x = NoEvent \/ \E e \in Events : x = [sent |-> e, as |-> event_callback(toFlatJson(e))]
ShownInv == Reported(running.event) /\ Reported(shown) /\ DOMAIN running = DOMAIN NoCallback

LEMMA RunKeeps ==
  ASSUME NEW cb, Run(cb), Reported(cb.event), DOMAIN cb = DOMAIN NoCallback
  PROVE  Reported(running'.event) /\ DOMAIN running' = DOMAIN NoCallback
<1>1. NoCallback.event = NoEvent
  BY DEF NoCallback
<1>2. QED BY <1>1 DEF Run, Reported

LEMMA ContinueKeeps ==
  ASSUME ShownInv, Continue
  PROVE  Reported(running'.event) /\ DOMAIN running' = DOMAIN NoCallback
<1> DEFINE cb == [running EXCEPT !.body = Tail(@)]
<1>1. cb.event = running.event /\ DOMAIN cb = DOMAIN NoCallback
  BY DEF ShownInv, NoCallback
<1>2. Run(cb)
  BY DEF Continue
<1> HIDE DEF cb
<1>3. QED BY <1>1, <1>2, RunKeeps DEF ShownInv

LEMMA ShownKept == ASSUME ShownInv, [Next]_vars PROVE ShownInv'
<1>1. ASSUME UNCHANGED <<running, shown>> PROVE ShownInv'
  BY <1>1 DEF ShownInv, Reported
<1>2. CASE UNCHANGED vars
  BY <1>1, <1>2 DEF vars, libraryVars
<1>3. CASE Client
  BY <1>1, <1>3 DEF Client, waitForCallback, WaitPasses, WaitSleeps, Post, PostFails, EnterBlock, LeaveBlock, GoOn,
       set_event_callback, EncodeMessage, CheckAnswer, PollAgain, PollEnds, DestroyContext, MainReturns, libraryVars
<1>4. CASE WakesSpuriously \/ NextCommand \/ Crash
  BY <1>1, <1>4 DEF WakesSpuriously, NextCommand, Crash, libraryVars
<1>5. CASE AnswerSome
  <2>1. PICK r \in posted, ret \in {RET_OK, RET_ERR} : Answer(r, ret)
    BY <1>5 DEF AnswerSome
  <2> DEFINE cb == [call |-> r.call, ret |-> ret, body |-> r.body, env |-> r.env, event |-> NoEvent]
  <2>2. Run(cb) /\ shown' = shown
    BY <2>1 DEF Answer
  <2>3. Reported(cb.event) /\ DOMAIN cb = DOMAIN NoCallback
    BY DEF Reported, NoCallback
  <2> HIDE DEF cb
  <2>4. Reported(running'.event) /\ DOMAIN running' = DOMAIN NoCallback
    BY <2>2, <2>3, RunKeeps
  <2>5. QED BY <2>2, <2>4 DEF ShownInv, Reported
<1>6. ASSUME NEW e \in Events, NEW ret \in {RET_OK, RET_ERR}, Emit(e, ret) PROVE ShownInv'
  <2> DEFINE cb == [call |-> 0, ret |-> ret, body |-> prog.onEvent, env |-> NoCallback.env,
                    event |-> IF ret = RET_OK /\ "show" \in Dos(prog.onEvent) THEN [sent |-> e, as |-> event_callback(toFlatJson(e))]
                              ELSE NoEvent]
  <2>1. Run(cb) /\ shown' = shown
    BY <1>6 DEF Emit
  <2>2. Reported(cb.event)
    BY DEF Reported
  <2>3. DOMAIN cb = DOMAIN NoCallback
    BY DEF NoCallback
  <2> HIDE DEF cb
  <2>4. Reported(running'.event) /\ DOMAIN running' = DOMAIN NoCallback
    BY <2>1, <2>2, <2>3, RunKeeps
  <2>5. QED BY <2>1, <2>4 DEF ShownInv, Reported
<1>7. CASE Callback
  <2>1. Continue
    BY <1>7 DEF Callback, CallbackChecks, CallbackSignals, CallbackStores, CallbackShows
  <2>2. shown' = shown \/ shown' = running.event
    BY <1>7 DEF Callback, CallbackChecks, CallbackSignals, CallbackStores, CallbackShows
  <2>3. Reported(running'.event) /\ DOMAIN running' = DOMAIN NoCallback
    BY <2>1, ContinueKeeps
  <2>4. Reported(shown')
    BY <2>2 DEF ShownInv
  <2>5. QED BY <2>3, <2>4 DEF ShownInv, Reported
<1>8. QED BY <1>2, <1>3, <1>4, <1>5, <1>6, <1>7 DEF Next

\* What event_callback of logosdelivery_example.c shows is the event that was reported, cut to its buffers, for
\* every event whose strings have no mark, payloads of any length and buffers of any size.
THEOREM EventsAreShown == Spec => []ShownIsSent
<1>1. Init => ShownInv
  BY DEF Init, ShownInv, Reported, NoCallback
<1>2. ShownInv /\ [Next]_vars => ShownInv'
  BY ShownKept
<1>3. ShownInv => ShownIsSent
  <2> SUFFICES ASSUME ShownInv, shown # NoEvent,
                      \A k \in DOMAIN shown.sent.fields : Plain(shown.sent.fields[k]), Plain(shown.sent.contentTopic)
               PROVE  shown.as = Expected(shown.sent)
    BY DEF ShownIsSent
  <2>1. PICK e \in Events : shown = [sent |-> e, as |-> event_callback(toFlatJson(e))]
    BY DEF ShownInv, Reported
  <2>2. shown.sent = e /\ shown.as = event_callback(toFlatJson(e))
    BY <2>1
  <2>3. IsEvent(e)
    BY EventsAreWritten
  <2>4. Lacks(e.contentTopic, Quote) /\ Lacks(e.contentTopic, OpenBrace) /\ Lacks(e.contentTopic, CloseBrace)
    <3>1. e.contentTopic \in Text /\ Plain(e.contentTopic)
      BY <2>2, <2>3 DEF IsEvent
    <3>2. QED BY <3>1, TextFacts DEF Plain
  <2>5. \A i \in 1..Len(Fields(e.type)) : Lacks(e.fields[Fields(e.type)[i]], Quote)
    <3> TAKE i \in 1..Len(Fields(e.type))
    <3> DEFINE v == e.fields[Fields(e.type)[i]]
    <3>1. v \in Text /\ Plain(v)
      BY <2>2, <2>3 DEF IsEvent
    <3> HIDE DEF v
    <3>2. Lacks(v, Quote)
      BY <3>1, TextFacts DEF Plain
    <3>3. QED BY <3>2 DEF v
  <2>6. QED BY <2>2, <2>3, <2>4, <2>5, EventIsShown
<1>4. QED BY <1>1, <1>2, <1>3, PTL DEF Spec
=============================================================================
