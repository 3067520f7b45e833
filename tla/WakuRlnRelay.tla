----------------------------- MODULE WakuRlnRelay -----------------------------
(***************************************************************************)
(* Rate limiting with RLN (waku_rln_relay): every node draws the nonces of *)
(* its messages from its NonceManager, has its own validator judge a       *)
(* message before it publishes it, and judges what arrives against its log *)
(* of nullifiers. A proof is valid here; a nullifier stands for the        *)
(* member, the epoch and the nonce it is computed from. Clocks are in      *)
(* whole seconds and run at the same speed.                                *)
(***************************************************************************)
EXTENDS Integers, FiniteSets

CONSTANTS
  Node,             \* nodes; each is one member of the group
  Careless,         \* nodes that choose nonces as they like and do not judge their own messages
  Ahead,            \* how far a node's clock is ahead of `now`
  EpochSize,        \* rlnEpochSizeSec
  MaxTimestampGap,  \* rlnMaxTimestampGap, MaxClockGapSeconds
  NonceLimit,       \* userMessageLimit
  MaxAge,           \* per node: bound on the age of its messages when their proof is made
  Start, MaxTime,   \* bounds on the time
  MaxMessages       \* bound on the messages

\* rlnMaxEpochGap
MaxEpochGap ==
  IF MaxTimestampGap \div EpochSize > 1 THEN MaxTimestampGap \div EpochSize ELSE 1

\* The clock shows a time long after 1970, so that no unsigned difference wraps around.
ASSUME RlnAssumption ==
  /\ Careless \subseteq Node
  /\ Ahead \in [Node -> Nat]
  /\ EpochSize \in Nat \ {0}
  /\ MaxTimestampGap \in Nat /\ NonceLimit \in Nat /\ MaxAge \in [Node -> Nat] /\ MaxMessages \in Nat
  /\ Start \in Nat /\ MaxTime \in Nat
  /\ Start \div EpochSize >= MaxEpochGap /\ \A n \in Node : Start >= MaxAge[n]

VARIABLES
  now,
  nextNonce, lastNonceTime,   \* per node: its NonceManager
  nullifierLog,               \* per node: the nullifiers it has logged; each names its epoch
  pending,                    \* messages that have their proof and wait for their own node's validator
  wire,                       \* messages published
  created,                    \* messages made so far
  judged                      \* every judgement so far: who, what, the result, and whether the message was far away

nonceVars == <<nextNonce, lastNonceTime>>
vars == <<now, nonceVars, nullifierLog, pending, wire, created, judged>>

Clock(n) == now + Ahead[n]

calcEpoch(t) == t \div EpochSize

absDiff(a, b) == IF a > b THEN a - b ELSE b - a

Nullifier(m) == [epoch |-> m.epoch, member |-> m.from, nonce |-> m.nonce]

Init ==
  /\ now = Start
  /\ nextNonce = [n \in Node |-> 0] /\ lastNonceTime = [n \in Node |-> 0]
  /\ nullifierLog = [n \in Node |-> {}]
  /\ pending = {} /\ wire = {} /\ created = 0 /\ judged = {}

----------------------------------------------------------------------------
(* The validator. *)

\* Mutant: epochs of the past are kept.
MutantKept(n) ==
  LET currentEpoch == calcEpoch(Clock(n))
  IN { e \in nullifierLog[n] : ~ (currentEpoch + MaxEpochGap <= e.epoch) }

\* clearNullifierLog: what is left of the log.
Kept(n) ==
  LET currentEpoch == calcEpoch(Clock(n))
  IN { e \in nullifierLog[n] : ~ (\/ currentEpoch + MaxEpochGap <= e.epoch
                                  \/ e.epoch <= currentEpoch - MaxEpochGap) }

\* validateMessage, after the log was cleared.
Verdict(n, m) ==
  IF \/ absDiff(Clock(n), m.time) > MaxTimestampGap
     \/ m.epoch # calcEpoch(m.time)
  THEN "Invalid"
  ELSE IF Nullifier(m) \in Kept(n) THEN "Spam"
  ELSE "Valid"

\* Mutant: nothing is added to an epoch that is in the log already.
MutantUpdateLog(log, m) == IF \E e \in log : e.epoch = m.epoch THEN log ELSE log \cup {Nullifier(m)}

updateLog(log, m) == log \cup {Nullifier(m)}

\* The clock is rlnMaxEpochGap epochs or more away from the message.
Far(n, m) == absDiff(calcEpoch(Clock(n)), m.epoch) >= MaxEpochGap

\* The validator of generateRlnValidator: clear the log, judge the message, and
\* log it if it is valid.
validator(n, m) ==
  /\ nullifierLog' = [nullifierLog EXCEPT ![n] =
       IF Verdict(n, m) = "Valid" THEN updateLog(Kept(n), m) ELSE Kept(n)]
  /\ judged' = judged \cup {[node |-> n, msg |-> m, result |-> Verdict(n, m), far |-> Far(n, m)]}

----------------------------------------------------------------------------
\* getNonce: the nonces start again when a whole epoch has passed since they did last.
Fresh(n) == Clock(n) - lastNonceTime[n] >= EpochSize
NonceOf(n) == IF Fresh(n) THEN 0 ELSE nextNonce[n]

\* Mutant: one nonce too many.
MutantLimitReached(n) == NonceOf(n) > NonceLimit

LimitReached(n) == NonceOf(n) >= NonceLimit

\* Mutant: the time of the restart is not kept.
MutantGetNonce(n) ==
  /\ nextNonce' = [nextNonce EXCEPT ![n] = NonceOf(n) + 1]
  /\ lastNonceTime' = lastNonceTime

getNonce(n) ==
  /\ nextNonce' = [nextNonce EXCEPT ![n] = NonceOf(n) + 1]
  /\ lastNonceTime' = [lastNonceTime EXCEPT ![n] = IF Fresh(n) THEN Clock(n) ELSE @]

\* createRlnProof: the epoch is that of the clock, not that of the message's time.
Proved(n, age, nonce) ==
  [id |-> created + 1, from |-> n, time |-> Clock(n) - age, epoch |-> calcEpoch(Clock(n)), nonce |-> nonce]

\* Mutant: what the node's own validator says is ignored.
MutantPublished(n, m) == wire \cup {m}

\* Published only if the node's own validator accepts it.
Published(n, m) == IF Verdict(n, m) = "Valid" THEN wire \cup {m} ELSE wire

\* A message that may be some seconds old gets its proof, which takes time.
Prove(n, age) ==
  /\ n \notin Careless /\ created < MaxMessages
  /\ getNonce(n)
  /\ ~LimitReached(n)
  /\ pending' = pending \cup {Proved(n, age, NonceOf(n))}
  /\ created' = created + 1
  /\ UNCHANGED <<now, nullifierLog, wire, judged>>

\* No nonce is left, or the proof cannot be generated: an error, which moves the
\* counter all the same.
ProveFails(n) ==
  /\ n \notin Careless
  /\ nextNonce[n] <= NonceLimit \/ Fresh(n)      \* bound: one failure more is as good as many
  /\ getNonce(n)
  /\ UNCHANGED <<now, nullifierLog, pending, wire, created, judged>>

\* The node's own validator judges the message.
Publish(m) ==
  /\ validator(m.from, m)
  /\ wire' = Published(m.from, m)
  /\ pending' = pending \ {m}
  /\ UNCHANGED <<now, nonceVars, created>>

\* A node that keeps to no rule but the one the proof enforces.
PublishCarelessly(n, age, nonce) ==
  /\ n \in Careless /\ created < MaxMessages
  /\ wire' = wire \cup {Proved(n, age, nonce)}
  /\ created' = created + 1
  /\ UNCHANGED <<now, nonceVars, nullifierLog, pending, judged>>

\* A message arrives at another node, at any later time, once.
Arrive(n, m) ==
  /\ m \in wire /\ m.from # n
  /\ \A j \in judged : ~ (j.node = n /\ j.msg = m)
  /\ validator(n, m)
  /\ UNCHANGED <<now, nonceVars, pending, wire, created>>

Tick ==
  /\ now < MaxTime
  /\ now' = now + 1
  /\ UNCHANGED <<nonceVars, nullifierLog, pending, wire, created, judged>>

Next ==
  \/ \E n \in Node : \E age \in 0..MaxAge[n] : Prove(n, age)
  \/ \E n \in Node : ProveFails(n)
  \/ \E m \in pending : Publish(m)
  \/ \E n \in Node, nonce \in 0..(NonceLimit - 1) : \E age \in 0..MaxAge[n] : PublishCarelessly(n, age, nonce)
  \/ \E n \in Node, m \in wire : Arrive(n, m)
  \/ Tick

Spec == Init /\ [][Next]_vars

----------------------------------------------------------------------------
(* Properties *)

Message == [id : Nat, from : Node, time : Nat, epoch : Nat, nonce : Nat]

\* The types of the state; no more nonces than allowed are proved.
TypeOK ==
  /\ now \in Nat /\ created \in Nat
  /\ nextNonce \in [Node -> Nat] /\ lastNonceTime \in [Node -> Nat]
  /\ nullifierLog \in [Node -> SUBSET [epoch : Nat, member : Node, nonce : Nat]]
  /\ pending \subseteq Message /\ wire \subseteq Message
  /\ judged \subseteq [node : Node, msg : Message, result : {"Valid", "Invalid", "Spam"}, far : BOOLEAN]
  /\ \A m \in pending \cup wire : m.nonce < NonceLimit

\* hasDuplicate and clearNullifierLog: of two messages with one nullifier a node
\* accepts at most one, unless one of them reaches it when its clock is
\* rlnMaxEpochGap or more epochs away. (Messages of such epochs are still
\* accepted for a while, but the log has dropped them.)
DoubleUseIsCaught ==
  \A a, b \in judged :
    /\ a.node = b.node /\ a.msg # b.msg
    /\ Nullifier(a.msg) = Nullifier(b.msg)
    /\ a.result = "Valid" /\ b.result = "Valid"
    => a.far \/ b.far

\* What the group is for: of the messages a member made in an epoch, however careless
\* it is with its nonces, a node accepts no more than userMessageLimit, not counting
\* those that reach it when its clock is rlnMaxEpochGap or more epochs away.
RateLimitHolds ==
  \A j \in judged :
    LET accepted == { k \in judged : /\ k.node = j.node /\ k.result = "Valid" /\ ~k.far
                                    /\ k.msg.from = j.msg.from /\ k.msg.epoch = j.msg.epoch }
    IN Cardinality({ k.msg : k \in accepted }) <= NonceLimit

\* A node that draws its nonces from its NonceManager and lets its own validator
\* judge first is never taken for a spammer by another node, although its nonces
\* start again within an epoch; unless its clock went rlnMaxEpochGap epochs on
\* between a proof with that nullifier and the judgement of its own validator,
\* which has then forgotten the epoch.
HonestIsNotSpam ==
  \A j \in judged : j.result = "Spam" =>
    \/ j.msg.from \in Careless \/ j.node = j.msg.from
    \/ \E k \in judged : k.node = k.msg.from /\ Nullifier(k.msg) = Nullifier(j.msg) /\ k.far

\* getNonce's window and calcEpoch's slots are not aligned, so a nonce may come
\* again within an epoch, and the message is then refused by the node itself;
\* but it comes no third time.
NonceAtMostTwice ==
  LET own == { j \in judged : j.node = j.msg.from }
  IN \A j \in own : Cardinality({ k \in own : Nullifier(k.msg) = Nullifier(j.msg) }) <= 2

\* clearNullifierLog keeps the log to a number of epochs that does not grow.
LogIsBounded == \A n \in Node : Cardinality({ e.epoch : e \in nullifierLog[n] }) <= 2 * MaxEpochGap
=============================================================================
