------------------------------ MODULE FfiClient ------------------------------
(***************************************************************************)
(* A program that uses libwaku or liblogosdelivery through C, and the      *)
(* library's own thread. A call posts a request; the library's thread      *)
(* answers every request once, by running the callback that came with it,  *)
(* and reports events by running the event callback. The program runs the  *)
(* steps in `code`: its main procedure and then, for ever, commands its    *)
(* user chooses. What the programs do is data (see the modules             *)
(* WakuExampleC, WakuExampleCpp, LogosExample and WakuJni); what a step or *)
(* a part of a callback does is an action here.                            *)
(***************************************************************************)
EXTENDS Base64, LogosEvents, Functions

CONSTANTS
  Programs,      \* the client programs
  Cell,          \* the programs' variables that callbacks write
  Typed,         \* the messages a user may type, as bytes
  Leftover,      \* what may stand in memory behind the C++ encoding, up to a zero byte
  Events,        \* the events the library may report
  MaxCommands,   \* bound on the commands a user gives
  MaxEvents,     \* bound on the events reported
  PollLimit      \* timeout_sec of the polling example

RET_OK == 0
RET_ERR == 1

\* The functions of libwaku.h and liblogosdelivery.h that the programs call.
WakuFns ==
  {"waku_new", "waku_start", "waku_stop", "waku_version", "waku_content_topic", "waku_pubsub_topic",
   "waku_default_pubsub_topic", "waku_relay_publish", "waku_relay_subscribe", "waku_connect",
   "waku_get_peerids_from_peerstore", "waku_listen_addresses", "waku_discv5_update_bootnodes"}
LogosFns ==
  {"logosdelivery_create_node", "logosdelivery_start_node", "logosdelivery_stop_node",
   "logosdelivery_subscribe", "logosdelivery_unsubscribe", "logosdelivery_send",
   "logosdelivery_get_available_node_info_ids", "logosdelivery_get_node_info",
   "logosdelivery_get_available_configs"}

\* Requests that make the node, that do without it, and that always succeed.
Creates == {"waku_new", "logosdelivery_create_node"}
NodeFree == Creates \cup {"waku_version", "waku_content_topic", "waku_pubsub_topic", "waku_default_pubsub_topic"}
NeverFails ==
  (NodeFree \ Creates) \cup {"waku_listen_addresses", "waku_get_peerids_from_peerstore", "waku_connect"}

----------------------------------------------------------------------------
(* The parts of a callback's body, and the steps of a program. *)

ExitOnErr == [do |-> "exitOnErr"]              \* exit(1) when callerRet is RET_ERR
Signal == [do |-> "signal"]                    \* signal_cond()
Store(c) == [do |-> "store", cell |-> c]       \* keep what the library said in c
Show == [do |-> "show"]                        \* parse and print an event

\* A call, whether the program then waits for its callback, and whether it ends
\* when the call does not return RET_OK (or a context).
Call(fn, body, waits, strict) == [op |-> "call", fn |-> fn, body |-> body, waits |-> waits, strict |-> strict]
Use(c) == [op |-> "use", cell |-> c]           \* read the variable c
Local(c) == [op |-> "local", cell |-> c]       \* enter the block that declares c
Gone(c) == [op |-> "gone", cell |-> c]         \* leave it
Listen == [op |-> "listen"]                    \* set the event callback
Encode == [op |-> "encode"]                    \* read a message and encode it
Check(c, else) == [op |-> "check", cell |-> c, else |-> else]  \* go on if c says RET_OK
Poll == [op |-> "poll"]                        \* wait for an event, for a while
Destroy == [op |-> "destroy"]                  \* destroy the context

Dos(body) == { o.do : o \in Range(body) }
StoredIn(body) == { o.cell : o \in { p \in Range(body) : p.do = "store" } }

Scripts(p) == {p.main} \cup p.menu
StepsOf(p) == UNION { Range(script) : script \in Scripts(p) }

Body == Seq([do : {"exitOnErr", "signal", "show"}] \cup [do : {"store"}, cell : Cell])

\* Programs are sequences of calls of the two headers, and go on with steps of their own; their callbacks
\* write to declared variables.
ASSUME ProgramsAreWritten ==
  \A p \in Programs :
    /\ p.onEvent \in Body
    /\ \A script \in Scripts(p) : script \in Seq(Range(script))
    /\ \A s \in StepsOf(p) :
         /\ s.op = "call" => s.body \in Body /\ s.fn \in WakuFns \cup LogosFns
         /\ s.op = "check" => s.else \in Seq(StepsOf(p))

ASSUME BytesAreTyped == Typed \subseteq Seq(0..255) /\ Leftover \subseteq Seq(Nat)

ASSUME EventsAreWritten == \A e \in Events : IsEvent(e)

----------------------------------------------------------------------------
VARIABLES
  prog,          \* the program
  code,          \* steps still to run
  thread,        \* the program's thread: "runs", "locks" (enters or tests), "sleeps" on the condition
  exited,        \* the process has ended
  executed,      \* callback_executed
  calls,         \* calls made so far
  commands,      \* commands given so far
  frame,         \* per cell: the activation whose variable is alive, 0 if none
  frames,        \* per cell: activations so far
  static,        \* per cell: the activation a `static` closure captured, 0 before the first
  cells,         \* per cell: the call whose answer it holds (0: none) and how that call ended
  handler,       \* an event callback is set
  payload,       \* the message the block that is run has read, and its encoding
  elapsed        \* rounds of the polling loop

VARIABLES
  posted,        \* requests not yet answered
  running,       \* the library thread's last callback; its body is what is left to run
  node,          \* "none", "created" or "failed"
  emits,         \* the library reports events
  reported,      \* events reported so far
  shown,         \* the event shown last, and what was shown of it
  want           \* history, per cell: the last call whose answer is to go there

sessionVars == <<prog, commands, handler, payload, elapsed>>
blockVars == <<frame, frames, static>>
clientVars == <<sessionVars, blockVars, code, thread, calls>>
sharedVars == <<exited, executed, cells, want>>
libraryVars == <<posted, running, node, emits, reported, shown>>
vars == <<clientVars, sharedVars, libraryVars>>

NoEvent == [sent |-> [type |-> "none"], as |-> [type |-> "none"]]
NoCallback == [call |-> 0, ret |-> RET_OK, body |-> <<>>, env |-> [c \in Cell |-> 0], event |-> NoEvent]
NoMessage == [typed |-> <<>>, text |-> <<>>]
Unset == [call |-> 0, ret |-> RET_ERR]

Init ==
  /\ prog \in Programs
  /\ code = prog.main
  /\ thread = "runs" /\ exited = FALSE /\ executed = FALSE
  /\ calls = 0 /\ commands = 0 /\ elapsed = 0
  /\ frame = [c \in Cell |-> IF c \in prog.globals THEN 1 ELSE 0]
  /\ frames = frame
  /\ static = [c \in Cell |-> 0]
  /\ cells = [c \in Cell |-> Unset] /\ want = [c \in Cell |-> 0]
  /\ handler = FALSE
  /\ payload = NoMessage
  /\ posted = {} /\ running = NoCallback /\ node = "none"
  /\ emits = FALSE /\ reported = 0 /\ shown = NoEvent

----------------------------------------------------------------------------
(* The condition variable that the two examples for libwaku share with their callbacks. The mutex is held
   for all of waitForCallback but the sleep, and for all of signal_cond. *)

\* Mutants: the flag is not taken back; the loop is an if, so that any wake-up will do.
MutantWaitPasses ==
  /\ ~exited /\ thread = "locks" /\ executed
  /\ executed' = executed
  /\ thread' = "runs"
  /\ UNCHANGED <<sessionVars, blockVars, code, calls, exited, cells, want, libraryVars>>
MutantWaitPassesUnset ==
  /\ ~exited /\ thread = "locks"
  /\ executed' = FALSE
  /\ thread' = "runs"
  /\ UNCHANGED <<sessionVars, blockVars, code, calls, exited, cells, want, libraryVars>>

\* waitForCallback: the flag is set, so take it and go on ...
WaitPasses ==
  /\ ~exited /\ thread = "locks" /\ executed
  /\ executed' = FALSE
  /\ thread' = "runs"
  /\ UNCHANGED <<sessionVars, blockVars, code, calls, exited, cells, want, libraryVars>>

\* ... or sleep on the condition until a signal; a sleeper may also wake up without one.
WaitSleeps ==
  /\ ~exited /\ thread = "locks" /\ ~executed
  /\ thread' = "sleeps"
  /\ UNCHANGED <<sessionVars, blockVars, code, calls, sharedVars, libraryVars>>

WakesSpuriously ==
  /\ ~exited /\ thread = "sleeps"
  /\ thread' = "locks"
  /\ UNCHANGED <<sessionVars, blockVars, code, calls, sharedVars, libraryVars>>

waitForCallback == WaitPasses \/ WaitSleeps

\* Mutant: the condition is signalled but the flag is not set.
MutantSignalCond ==
  /\ executed' = executed
  /\ thread' = IF thread = "sleeps" THEN "locks" ELSE thread

signal_cond ==
  /\ executed' = TRUE
  /\ thread' = IF thread = "sleeps" THEN "locks" ELSE thread

----------------------------------------------------------------------------
(* The program's thread. *)

At(op) == ~exited /\ thread = "runs" /\ code # <<>> /\ Head(code).op = op

\* The activations a call's callback will write to: those that are alive, or,
\* for closures kept in a `static`, those of its first use.
Closures(body) ==
  [c \in Cell |-> IF c \in StoredIn(body) /\ static[c] = 0 THEN frame[c] ELSE static[c]]
Captured(body) == IF prog.cify THEN Closures(body) ELSE frame

\* Writing to the variable a call captured reaches the one that is alive now if it is
\* the same, or if the write is to a dead one that had its place.
Reaches(env, c, lands) == env[c] = frame[c] \/ (lands /\ frame[c] # 0)

\* Mutant: the answer is expected of the next call.
MutantWanting(body) == [c \in Cell |-> IF c \in StoredIn(body) THEN calls + 2 ELSE want[c]]

Wanting(body) == [c \in Cell |-> IF c \in StoredIn(body) THEN calls + 1 ELSE want[c]]

\* A call whose request the library's thread takes: it returns RET_OK.
Post ==
  /\ At("call")
  /\ LET s == Head(code)
     IN /\ posted' = posted \cup {[call |-> calls + 1, fn |-> s.fn, body |-> s.body, env |-> Captured(s.body)]}
        /\ static' = Closures(s.body)
        /\ want' = Wanting(s.body)
        /\ thread' = IF s.waits THEN "locks" ELSE "runs"
  /\ calls' = calls + 1
  /\ code' = Tail(code)
  /\ UNCHANGED <<sessionVars, frame, frames, exited, executed, cells, running, node, emits, reported, shown>>

\* A request that cannot be handed over: the callback runs at once, on this
\* thread and with RET_ERR, and the call does not return RET_OK.
PostFails ==
  /\ At("call")
  /\ LET s == Head(code)
     IN \/ /\ s.strict \/ "exitOnErr" \in Dos(s.body)
           /\ exited' = TRUE
           /\ UNCHANGED <<clientVars, executed, cells, want>>
        \/ /\ ~s.strict /\ "exitOnErr" \notin Dos(s.body)
           /\ LET env == Captured(s.body)
              IN \E lands \in BOOLEAN :
                   cells' = [c \in Cell |-> IF c \in StoredIn(s.body) /\ Reaches(env, c, lands)
                                            THEN [call |-> calls + 1, ret |-> RET_ERR] ELSE cells[c]]
           /\ static' = Closures(s.body)
           /\ want' = Wanting(s.body)
           /\ executed' = (executed \/ "signal" \in Dos(s.body))
           /\ thread' = IF s.waits THEN "locks" ELSE "runs"
           /\ calls' = calls + 1
           /\ code' = Tail(code)
           /\ UNCHANGED <<sessionVars, frame, frames, exited>>
  /\ UNCHANGED libraryVars

\* A variable of a block comes to life, or goes; a global one is always there.
EnterBlock ==
  /\ At("local")
  /\ LET c == Head(code).cell
     IN /\ frames' = [frames EXCEPT ![c] = @ + 1]
        /\ frame' = [frame EXCEPT ![c] = frames[c] + 1]
        /\ cells' = [cells EXCEPT ![c] = Unset]
        /\ want' = [want EXCEPT ![c] = 0]
  /\ code' = Tail(code)
  /\ UNCHANGED <<sessionVars, thread, calls, static, exited, executed, libraryVars>>

LeaveBlock ==
  /\ At("gone")
  /\ frame' = [frame EXCEPT ![Head(code).cell] = 0]
  /\ code' = Tail(code)
  /\ UNCHANGED <<sessionVars, thread, calls, frames, static, sharedVars, libraryVars>>

\* Reading a variable leaves everything alone.
GoOn ==
  /\ At("use")
  /\ code' = Tail(code)
  /\ UNCHANGED <<sessionVars, blockVars, thread, calls, sharedVars, libraryVars>>

set_event_callback ==
  /\ At("listen")
  /\ handler' = TRUE
  /\ code' = Tail(code)
  /\ UNCHANGED <<prog, commands, payload, elapsed, blockVars, thread, calls, sharedVars, libraryVars>>

\* The user types a message, which is encoded and printed into the request with
\* %s: in waku.cpp, up to the first zero byte behind the encoding.
EncodeMessage ==
  /\ At("encode")
  /\ \E m \in Typed, after \in IF prog.cify THEN Leftover ELSE {<<>>} :
       payload' = [typed |-> m, text |-> IF prog.cify THEN b64_encode_cpp(m, after) ELSE b64_encode(m)]
  /\ code' = Tail(code)
  /\ UNCHANGED <<prog, commands, handler, elapsed, blockVars, thread, calls, sharedVars, libraryVars>>

\* Mutant: give up only if the callback has said that it failed.
MutantCheckAnswer ==
  /\ At("check")
  /\ LET s == Head(code)
     IN code' = IF cells[s.cell].call = 0 \/ cells[s.cell].ret = RET_OK THEN Tail(code) ELSE s.else
  /\ UNCHANGED <<sessionVars, blockVars, thread, calls, sharedVars, libraryVars>>

\* Go on if the callback has said RET_OK by now, and give up otherwise.
CheckAnswer ==
  /\ At("check")
  /\ LET s == Head(code)
     IN code' = IF cells[s.cell].call # 0 /\ cells[s.cell].ret = RET_OK THEN Tail(code) ELSE s.else
  /\ UNCHANGED <<sessionVars, blockVars, thread, calls, sharedVars, libraryVars>>

\* Mutant: the rounds are not counted.
MutantPollAgain ==
  /\ At("poll")
  /\ cells["got"].call = 0 /\ elapsed < PollLimit
  /\ UNCHANGED vars

\* The loop that waits for an event: one more round, or the end of it.
PollAgain ==
  /\ At("poll")
  /\ cells["got"].call = 0 /\ elapsed < PollLimit
  /\ elapsed' = elapsed + 1
  /\ UNCHANGED <<prog, commands, handler, payload, blockVars, code, thread, calls, sharedVars, libraryVars>>

PollEnds ==
  /\ At("poll")
  /\ cells["got"].call # 0 \/ elapsed >= PollLimit
  /\ code' = Tail(code)
  /\ UNCHANGED <<sessionVars, blockVars, thread, calls, sharedVars, libraryVars>>

\* Destroying the context ends the library's thread; requests it holds are dropped.
DestroyContext ==
  /\ At("destroy")
  /\ running.body = <<>>
  /\ posted' = {} /\ node' = "none" /\ emits' = FALSE /\ handler' = FALSE
  /\ code' = Tail(code)
  /\ UNCHANGED <<prog, commands, payload, elapsed, blockVars, thread, calls, sharedVars, running, reported, shown>>

\* handle_user_input: the next command, or main returns if there are none.
NextCommand ==
  /\ ~exited /\ thread = "runs" /\ code = <<>>
  /\ commands < MaxCommands
  /\ code' \in prog.menu
  /\ commands' = commands + 1
  /\ payload' = NoMessage
  /\ UNCHANGED <<prog, handler, elapsed, blockVars, thread, calls, sharedVars, libraryVars>>

MainReturns ==
  /\ ~exited /\ thread = "runs" /\ code = <<>> /\ prog.menu = {}
  /\ exited' = TRUE
  /\ UNCHANGED <<clientVars, executed, cells, want, libraryVars>>

Client ==
  \/ waitForCallback \/ Post \/ PostFails \/ EnterBlock \/ LeaveBlock \/ GoOn \/ set_event_callback
  \/ EncodeMessage \/ CheckAnswer \/ PollAgain \/ PollEnds \/ DestroyContext \/ MainReturns

----------------------------------------------------------------------------
(* The library's thread. It runs one callback at a time and answers requests in any order, as they are
   handled by concurrent tasks. *)

NodeReady(r) == r.fn \in NodeFree \/ node = "created"

Idle == ~exited /\ running.body = <<>>

\* Start a callback; one with nothing to do ends at once.
Run(cb) == running' = IF cb.body = <<>> THEN NoCallback ELSE cb

\* A request is handled and its callback is run. liblogosdelivery refuses a
\* request for a node that is not there, libwaku does not look. Events are
\* reported from the creation on by libwaku, from start to stop by the other.
Answer(r, ret) ==
  /\ Idle /\ r \in posted
  /\ NodeReady(r) \/ prog.lib = "logosdelivery"
  /\ ret = RET_ERR => ~NodeReady(r) \/ r.fn \notin NeverFails
  /\ ret = RET_OK => NodeReady(r)
  /\ posted' = posted \ {r}
  /\ Run([call |-> r.call, ret |-> ret, body |-> r.body, env |-> r.env, event |-> NoEvent])
  /\ node' = IF r.fn \notin Creates THEN node ELSE IF ret = RET_OK THEN "created" ELSE "failed"
  /\ emits' = ( \/ r.fn = "waku_new" /\ ret = RET_OK
                \/ r.fn = "logosdelivery_start_node" /\ NodeReady(r)
                \/ emits /\ r.fn # "logosdelivery_stop_node" )
  /\ UNCHANGED <<clientVars, sharedVars, reported, shown>>

\* A request of libwaku for a node that is not there dereferences nil.
Crash ==
  /\ Idle /\ prog.lib = "waku"
  /\ \E r \in posted : ~NodeReady(r)
  /\ exited' = TRUE
  /\ UNCHANGED <<clientVars, executed, cells, want, libraryVars>>

\* An event is written as text and reported. What event_callback will read in the
\* text depends on nothing else and is kept with it; it does not look at the text
\* of an error, and no other callback looks at any.
Emit(e, ret) ==
  /\ Idle /\ handler /\ emits /\ reported < MaxEvents
  /\ Run([call |-> 0, ret |-> ret, body |-> prog.onEvent, env |-> NoCallback.env,
          event |-> IF ret = RET_OK /\ "show" \in Dos(prog.onEvent) THEN [sent |-> e, as |-> event_callback(toFlatJson(e))]
                    ELSE NoEvent])
  /\ reported' = reported + 1
  /\ UNCHANGED <<clientVars, sharedVars, posted, node, emits, shown>>

Running(do) == ~exited /\ running.body # <<>> /\ Head(running.body).do = do
Continue == Run([running EXCEPT !.body = Tail(@)])

CallbackChecks ==
  /\ Running("exitOnErr")
  /\ exited' = (running.ret = RET_ERR)
  /\ Continue
  /\ UNCHANGED <<clientVars, executed, cells, want, posted, node, emits, reported, shown>>

CallbackSignals ==
  /\ Running("signal")
  /\ signal_cond
  /\ Continue
  /\ UNCHANGED <<sessionVars, blockVars, code, calls, exited, cells, want, posted, node, emits, reported, shown>>

\* The answer goes into the variable that the call captured.
CallbackStores ==
  /\ Running("store")
  /\ LET c == Head(running.body).cell
     IN \E lands \in BOOLEAN :
          cells' = IF Reaches(running.env, c, lands)
                   THEN [cells EXCEPT ![c] = [call |-> running.call, ret |-> running.ret]] ELSE cells
  /\ Continue
  /\ UNCHANGED <<clientVars, exited, executed, want, posted, node, emits, reported, shown>>

\* event_callback: an event that is an error, or has no type, is ignored.
CallbackShows ==
  /\ Running("show")
  /\ LET as == running.event.as
     IN IF running.ret = RET_OK /\ as.type # "none"
        THEN /\ shown' = running.event
             /\ cells' = IF Ends(as.type) THEN [cells EXCEPT !["got"] = [call |-> 1, ret |-> RET_OK]] ELSE cells
        ELSE UNCHANGED <<shown, cells>>
  /\ Continue
  /\ UNCHANGED <<clientVars, exited, executed, want, posted, node, emits, reported>>

Callback == CallbackChecks \/ CallbackSignals \/ CallbackStores \/ CallbackShows
AnswerSome == \E r \in posted, ret \in {RET_OK, RET_ERR} : Answer(r, ret)

Next ==
  \/ Client \/ WakesSpuriously \/ NextCommand
  \/ AnswerSome \/ Crash \/ Callback
  \/ \E e \in Events, ret \in {RET_OK, RET_ERR} : Emit(e, ret)

Spec == Init /\ [][Next]_vars

\* Threads are scheduled, and the library answers; it need not report events,
\* nor the user type, nor a sleeper wake up without reason.
Fairness ==
  /\ WF_vars(Client)
  /\ WF_vars(AnswerSome \/ Crash \/ Callback)

FairSpec == Spec /\ Fairness

----------------------------------------------------------------------------
(* Programs that wait for every call, by a callback that signals as the last thing it does, and by nothing
   else; that end when a call fails; whose callbacks write only to global variables; and that read one only
   after a call that sets it. *)

SignalsLast(body) == \A i \in 1..Len(body) : body[i].do = "signal" <=> i = Len(body)

WaitsForItsSignal(s) ==
  /\ s.waits
  /\ s.strict \/ "exitOnErr" \in Dos(s.body)
  /\ s.body # <<>>
  /\ Dos(s.body) \subseteq {"exitOnErr", "store", "signal"}
  /\ SignalsLast(s.body)

Disciplined(p) ==
  /\ ~p.cify
  /\ Dos(p.onEvent) \subseteq {"exitOnErr"}
  /\ \A script \in Scripts(p) : \A i \in 1..Len(script) :
       /\ script[i].op \in {"call", "use", "listen", "encode"}
       /\ script[i].op = "call" => WaitsForItsSignal(script[i])
       /\ script[i].op = "use" => \E j \in 1..(i - 1) : /\ script[j].op = "call"
                                                       /\ script[i].cell \in StoredIn(script[j].body)

(* Programs that make the node by their first call and by no other: and that end when the answer to it is an
   error, or that make every request for the node after they have seen c say that it is there. *)

Creation(s) == s.op = "call" /\ s.fn \in Creates
NeedsNode(s) == s.op = "call" /\ s.fn \notin NodeFree
NoCreation(script) == \A i \in 1..Len(script) : ~Creation(script[i])
NeedsNone(script) == \A i \in 1..Len(script) : ~NeedsNode(script[i])

MakesNodeOnce(p) ==
  /\ p.main # <<>> /\ Creation(Head(p.main))
  /\ \A script \in p.menu \cup {Tail(p.main)} : NoCreation(script)

AwaitsNode(p) == Disciplined(p) /\ MakesNodeOnce(p) /\ "exitOnErr" \in Dos(Head(p.main).body)

ChecksNode(p, c) ==
  /\ MakesNodeOnce(p) /\ p.menu = {} /\ c # "got" /\ c \notin StoredIn(p.onEvent)
  /\ \A s \in StepsOf(p) : /\ s.op = "call" /\ c \in StoredIn(s.body) => Creation(s)
                           /\ s.op = "check" => NoCreation(s.else) /\ NeedsNone(s.else)
  /\ \A i \in 1..Len(p.main) : NeedsNode(p.main[i]) =>
       /\ \E j \in 1..(i - 1) : p.main[j].op = "check" /\ p.main[j].cell = c
       /\ \A j \in 1..(i - 1) : p.main[j].op # "destroy"

----------------------------------------------------------------------------
(* Properties *)

\* The types of the state that the two threads share.
TypeOK ==
  /\ prog \in Programs
  /\ thread \in {"runs", "locks", "sleeps"} /\ exited \in BOOLEAN /\ executed \in BOOLEAN
  /\ calls \in Nat /\ cells \in [Cell -> [call : Nat, ret : {RET_OK, RET_ERR}]]
  /\ frame \in [Cell -> Nat] /\ static \in [Cell -> Nat] /\ want \in [Cell -> 0..calls]
  /\ \A r \in posted : r.call \in 1..calls /\ r.fn \in WakuFns \cup LogosFns /\ r.body \in Body
  /\ running.call \in 0..calls /\ running.body \in Body

\* WAKU_CALL of waku_example.c returns only when the callback of that very call
\* has run: no request, signal or callback of a call is left when main goes on,
\* whatever events come in between and however often the sleeper wakes up.
AnswerIsOwn ==
  Disciplined(prog) /\ ~exited /\ thread = "runs" => posted = {} /\ ~executed /\ running.call = 0

\* When main reads a variable that a callback sets (contentTopic in
\* publish_message), it holds the answer to the last call made for it, and the
\* library's thread is not writing to it.
FreshReads ==
  Disciplined(prog) /\ At("use") =>
    LET c == Head(code).cell
    IN /\ want[c] # 0 /\ cells[c].call = want[c]
       /\ c \notin StoredIn(running.body)

\* waku_example.c and logosdelivery_example.c make no request for a node whose
\* creation has not succeeded, although the second never waits for it.
NodeFirst == AwaitsNode(prog) \/ (\E c \in Cell : ChecksNode(prog, c)) => \A r \in posted : NodeReady(r)

\* What publish_message of waku_example.c sends decodes to what the user typed.
\* waku.cpp does not end its text, so the whole of what it sends need not; its
\* first b64_encoded_size characters do, as long as none of the characters,
\* which it reads as signed, is negative.
PayloadDecodes ==
  IF prog.cify
  THEN (\A i \in 1..Len(payload.typed) : payload.typed[i] < 128)
         => b64_decode(SubSeq(payload.text, 1, b64_encoded_size(Len(payload.typed)))) = payload.typed
  ELSE b64_decode(payload.text) = payload.typed

\* Strings that the reader of json_utils.c is made for: without quotes and braces.
Plain(text) == \A i \in 1..Len(text) : text[i][1] # "mark"

\* event_callback shows every event as it was reported, cut only to its buffers,
\* when the strings in it have no quote and no brace.
ShownIsSent ==
  LET e == shown.sent
  IN shown # NoEvent /\ (\A k \in DOMAIN e.fields : Plain(e.fields[k])) /\ Plain(e.contentTopic)
       => shown.as = Expected(e)

\* A program that waits for a callback goes on or ends: no wake-up is lost.
CallsReturn == (~exited /\ thread # "runs") ~> (exited \/ thread = "runs")

\* logosdelivery_example.c, which has no user, ends, whatever is reported to it.
ExampleEnds == (prog.menu = {}) ~> exited

\* A disciplined program makes the library synchronous: its calls, the answers
\* to them and their returns are steps of SyncCalls.
Unanswered == posted # {} \/ running.call # 0
Sync == INSTANCE SyncCalls WITH
  strict <- Disciplined(prog),
  begun <- calls,
  answered <- IF Unanswered THEN calls - 1 ELSE calls,
  returned <- IF thread = "runs" THEN calls ELSE calls - 1
Synchronous == Sync!Spec
=============================================================================
