-------------------------- MODULE WakuRlnRelayProofs --------------------------
(***************************************************************************)
(* Proofs about WakuRlnRelay. DoubleUseIsCaught rests on Remembered: what  *)
(* a node accepted in time stays in its log while its clock is near.       *)
(* HonestIsNotSpam follows from it for the sender's own node, without      *)
(* which nothing is published: two messages of it with one nullifier are   *)
(* not both on the wire, unless one was late; and what any node has logged *)
(* of others it took from the wire. NonceAtMostTwice rests on where the    *)
(* counter stands (NonceInv): when a nonce comes again, the counter has    *)
(* started again in that epoch, so that it cannot do so once more in it.   *)
(***************************************************************************)
EXTENDS WakuRlnRelay, FiniteSetTheorems, TLAPS

EpochNow(n) == calcEpoch(Clock(n))

Honest(m) == m.from \notin Careless

\* What a node published its own validator had accepted.
WireIsAccepted ==
  \A w \in wire : Honest(w) => \E k \in judged : k.node = w.from /\ k.msg = w /\ k.result = "Valid"

\* A message with the nullifier was judged late by its own node.
Late(nullifier) == \E k \in judged : k.node = k.msg.from /\ Nullifier(k.msg) = nullifier /\ k.far

\* What a node has logged of another it has judged, and found on the wire.
LoggedFromWire ==
  \A n \in Node : \A e \in nullifierLog[n] :
    e.member # n => \E j \in judged : j.node = n /\ j.msg \in wire /\ Nullifier(j.msg) = e

\* What a node accepted in time is in its log as long as its clock is near.
Remembered ==
  \A j \in judged : j.result = "Valid" /\ ~j.far =>
    /\ EpochNow(j.node) + MaxEpochGap > j.msg.epoch
    /\ EpochNow(j.node) < j.msg.epoch + MaxEpochGap => Nullifier(j.msg) \in nullifierLog[j.node]

IInv ==
  /\ TypeOK /\ now >= Start
  /\ WireIsAccepted /\ LoggedFromWire /\ Remembered
  /\ DoubleUseIsCaught /\ HonestIsNotSpam

----------------------------------------------------------------------------
(* Epochs. *)

LEMMA GapIsPositive == MaxEpochGap \in Nat /\ MaxEpochGap >= 1
  BY RlnAssumption DEF MaxEpochGap

LEMMA EpochIsNat == \A t \in Nat : calcEpoch(t) \in Nat
  BY RlnAssumption DEF calcEpoch

LEMMA EpochIsMonotone == \A s, t \in Nat : s <= t => calcEpoch(s) <= calcEpoch(t)
<1> SUFFICES ASSUME NEW s \in Nat, NEW t \in Nat, s <= t
             PROVE  s \div EpochSize <= t \div EpochSize
  BY DEF calcEpoch
<1> QED BY RlnAssumption

LEMMA ClockIsNat ==
  ASSUME TypeOK, NEW n \in Node
  PROVE  Clock(n) \in Nat /\ EpochNow(n) \in Nat
<1>1. Clock(n) \in Nat BY RlnAssumption DEF TypeOK, Clock
<1>2. QED BY <1>1, EpochIsNat DEF EpochNow

----------------------------------------------------------------------------
(* The log. *)

\* The clock of n is less than rlnMaxEpochGap epochs away from the epoch.
Near(n, epoch) == EpochNow(n) + MaxEpochGap > epoch /\ EpochNow(n) < epoch + MaxEpochGap

LEMMA KeptIsNear ==
  ASSUME TypeOK, NEW n \in Node
  PROVE  /\ Kept(n) \subseteq nullifierLog[n]
         /\ \A e \in nullifierLog[n] : Near(n, e.epoch) => e \in Kept(n)
<1>1. \A e \in nullifierLog[n] : e.epoch \in Nat BY DEF TypeOK
<1>2. EpochNow(n) \in Nat /\ MaxEpochGap \in Nat BY ClockIsNat, GapIsPositive
<1>3. ASSUME NEW e \in nullifierLog[n], Near(n, e.epoch)
      PROVE  ~ (\/ EpochNow(n) + MaxEpochGap <= e.epoch
                \/ e.epoch <= EpochNow(n) - MaxEpochGap)
  BY <1>1, <1>2, <1>3 DEF Near
<1>4. QED BY <1>3 DEF Kept, EpochNow

LEMMA FarIsNotNear ==
  ASSUME TypeOK, NEW n \in Node, NEW m \in Message, ~Far(n, m)
  PROVE  Near(n, m.epoch)
<1>1. m.epoch \in Nat BY DEF Message
<1>2. EpochNow(n) \in Nat /\ MaxEpochGap \in Nat BY ClockIsNat, GapIsPositive
<1>3. QED BY <1>1, <1>2 DEF Near, Far, absDiff, EpochNow

\* What the validator does to the log of its node and to no other.
LEMMA ValidatorLogs ==
  ASSUME TypeOK, NEW n \in Node, NEW m \in Message, validator(n, m)
  PROVE  /\ \A k \in Node : k # n => nullifierLog'[k] = nullifierLog[k]
         /\ \A k \in Node : \A e \in nullifierLog[k] : Near(k, e.epoch) => e \in nullifierLog'[k]
         /\ nullifierLog'[n] \subseteq nullifierLog[n] \cup {Nullifier(m)}
         /\ Verdict(n, m) = "Valid" => Nullifier(m) \in nullifierLog'[n]
         /\ Verdict(n, m) # "Valid" => nullifierLog'[n] \subseteq nullifierLog[n]
<1> DEFINE log == IF Verdict(n, m) = "Valid" THEN Kept(n) \cup {Nullifier(m)} ELSE Kept(n)
<1>1. nullifierLog' = [nullifierLog EXCEPT ![n] = log] BY DEF validator, updateLog
<1>2. DOMAIN nullifierLog = Node BY DEF TypeOK
<1>3. nullifierLog'[n] = log /\ \A k \in Node : k # n => nullifierLog'[k] = nullifierLog[k]
  BY <1>1, <1>2
<1>4. QED BY <1>3, KeptIsNear

LEMMA VerdictType == ASSUME NEW n, NEW m PROVE Verdict(n, m) \in {"Valid", "Invalid", "Spam"}
  BY DEF Verdict

\* A valid message's nullifier is not in the log, of what is near.
LEMMA ValidIsNew ==
  ASSUME TypeOK, NEW n \in Node, NEW m \in Message, Verdict(n, m) = "Valid", Near(n, m.epoch)
  PROVE  Nullifier(m) \notin nullifierLog[n]
<1>1. Nullifier(m).epoch = m.epoch BY DEF Nullifier
<1>2. Nullifier(m) \notin Kept(n) BY DEF Verdict
<1>3. QED BY <1>1, <1>2, KeptIsNear

LEMMA SpamIsLogged ==
  ASSUME TypeOK, NEW n \in Node, NEW m \in Message, Verdict(n, m) = "Spam"
  PROVE  Nullifier(m) \in nullifierLog[n]
<1>1. Nullifier(m) \in Kept(n) BY DEF Verdict
<1>2. QED BY <1>1, KeptIsNear

\* A message with a proof is one.
LEMMA ProvedIsMessage ==
  ASSUME TypeOK, now >= Start, NEW n \in Node, NEW age \in 0..MaxAge[n], NEW nonce \in Nat
  PROVE  /\ Proved(n, age, nonce) \in Message
         /\ Proved(n, age, nonce).from = n /\ Proved(n, age, nonce).epoch = EpochNow(n)
         /\ Proved(n, age, nonce).nonce = nonce
<1>1. Clock(n) \in Nat /\ EpochNow(n) \in Nat BY ClockIsNat
<1>2. Clock(n) - age \in Nat
  <2>1. MaxAge[n] \in Nat /\ Start >= MaxAge[n] /\ Start \in Nat /\ Ahead[n] \in Nat BY RlnAssumption
  <2>2. now \in Nat BY DEF TypeOK
  <2>3. QED BY <2>1, <2>2 DEF Clock
<1>3. created + 1 \in Nat BY DEF TypeOK
<1>4. QED BY <1>1, <1>2, <1>3 DEF Proved, Message, EpochNow

----------------------------------------------------------------------------
(* The invariant is inductive. *)

LEMMA InitHolds == Init => IInv
<1> SUFFICES ASSUME Init PROVE IInv OBVIOUS
<1>1. TypeOK BY RlnAssumption DEF Init, TypeOK
<1>2. now >= Start BY RlnAssumption DEF Init
<1>3. WireIsAccepted BY DEF Init, WireIsAccepted
<1>4. LoggedFromWire BY DEF Init, LoggedFromWire
<1>5. Remembered /\ DoubleUseIsCaught /\ HonestIsNotSpam
  BY DEF Init, Remembered, DoubleUseIsCaught, HonestIsNotSpam
<1>6. QED BY <1>1, <1>2, <1>3, <1>4, <1>5 DEF IInv

\* getNonce keeps its counters.
LEMMA NonceTypes ==
  ASSUME TypeOK, NEW n \in Node, getNonce(n)
  PROVE  /\ nextNonce' \in [Node -> Nat] /\ lastNonceTime' \in [Node -> Nat]
         /\ NonceOf(n) \in Nat
<1>1. Clock(n) \in Nat BY ClockIsNat
<1>2. NonceOf(n) \in Nat BY DEF TypeOK, NonceOf
<1>3. QED BY <1>1, <1>2 DEF TypeOK, getNonce

\* The validator keeps its types.
LEMMA ValidatorTypes ==
  ASSUME TypeOK, NEW n \in Node, NEW m \in Message, validator(n, m)
  PROVE  /\ nullifierLog' \in [Node -> SUBSET [epoch : Nat, member : Node, nonce : Nat]]
         /\ judged' \subseteq [node : Node, msg : Message, result : {"Valid", "Invalid", "Spam"}, far : BOOLEAN]
<1>1. Nullifier(m) \in [epoch : Nat, member : Node, nonce : Nat] BY DEF Nullifier, Message
<1>2. Kept(n) \subseteq [epoch : Nat, member : Node, nonce : Nat]
  BY KeptIsNear DEF TypeOK
<1>3. nullifierLog' \in [Node -> SUBSET [epoch : Nat, member : Node, nonce : Nat]]
  BY <1>1, <1>2 DEF TypeOK, validator, updateLog
<1>4. Far(n, m) \in BOOLEAN BY DEF Far
<1>5. QED BY <1>3, <1>4, VerdictType DEF TypeOK, validator

\* Two messages on the wire have different nullifiers, if none was late.
LEMMA WireIsUnique ==
  ASSUME WireIsAccepted, DoubleUseIsCaught, NEW m1 \in wire, NEW m2 \in wire,
         Honest(m1), Nullifier(m1) = Nullifier(m2), m1 # m2
  PROVE  Late(Nullifier(m1))
<1>1. m1.from = m2.from BY DEF Nullifier
<1>2. Honest(m2) BY <1>1 DEF Honest
<1>3. PICK k1 \in judged : k1.node = m1.from /\ k1.msg = m1 /\ k1.result = "Valid" BY DEF WireIsAccepted
<1>4. PICK k2 \in judged : k2.node = m2.from /\ k2.msg = m2 /\ k2.result = "Valid" BY <1>2 DEF WireIsAccepted
<1>5. k1.far \/ k2.far BY <1>1, <1>3, <1>4 DEF DoubleUseIsCaught
<1>6. QED BY <1>1, <1>3, <1>4, <1>5 DEF Late

\* The step that Publish and Arrive have in common: a node judges a message of its
\* own, or one on the wire that it has not judged yet.
LEMMA JudgingKeeps ==
  ASSUME IInv, NEW n \in Node, NEW m \in Message, validator(n, m), now' = now, wire \subseteq wire',
         m.from = n \/ (m \in wire /\ \A j \in judged : ~ (j.node = n /\ j.msg = m))
  PROVE  LoggedFromWire' /\ Remembered' /\ DoubleUseIsCaught' /\ HonestIsNotSpam'
<1> DEFINE r == [node |-> n, msg |-> m, result |-> Verdict(n, m), far |-> Far(n, m)]
<1>0. TypeOK BY DEF IInv
<1>1. judged' = judged \cup {r} BY DEF validator
<1>2. \A k \in Node : EpochNow(k)' = EpochNow(k) BY DEF EpochNow, Clock, calcEpoch
<1>3. Nullifier(m).epoch = m.epoch /\ Nullifier(m).member = m.from BY DEF Nullifier
<1>4. ASSUME NEW j \in judged, j.result = "Valid", ~j.far
      PROVE  /\ j.node \in Node /\ j.msg \in Message
             /\ EpochNow(j.node) + MaxEpochGap > j.msg.epoch
             /\ EpochNow(j.node) < j.msg.epoch + MaxEpochGap => Nullifier(j.msg) \in nullifierLog[j.node]
  BY <1>0, <1>4 DEF IInv, Remembered, TypeOK
<1>5. Remembered'
  <2> SUFFICES ASSUME NEW j \in judged', j.result = "Valid", ~j.far
               PROVE  /\ EpochNow(j.node)' + MaxEpochGap > j.msg.epoch
                      /\ EpochNow(j.node)' < j.msg.epoch + MaxEpochGap => Nullifier(j.msg) \in nullifierLog'[j.node]
    BY DEF Remembered
  <2>1. CASE j \in judged
    <3>1. Nullifier(j.msg).epoch = j.msg.epoch BY DEF Nullifier
    <3>2. QED BY <1>0, <1>2, <1>4, <2>1, <3>1, ValidatorLogs DEF Near
  <2>2. CASE j = r
    <3>1. Near(n, m.epoch) BY <1>0, <2>2, FarIsNotNear
    <3>2. Nullifier(m) \in nullifierLog'[n] BY <1>0, <2>2, ValidatorLogs
    <3>3. QED BY <1>2, <2>2, <3>1, <3>2 DEF Near
  <2>3. QED BY <1>1, <2>1, <2>2
<1>6. ASSUME NEW a \in judged, a.node = n, Nullifier(a.msg) = Nullifier(m), a.result = "Valid", ~a.far,
             Verdict(n, m) = "Valid", ~Far(n, m)
      PROVE  FALSE
  <2>1. Near(n, m.epoch) BY <1>0, <1>6, FarIsNotNear
  <2>2. a.msg.epoch = m.epoch BY <1>6 DEF Nullifier
  <2>3. Nullifier(m) \in nullifierLog[n] BY <1>4, <1>6, <2>1, <2>2 DEF Near
  <2>4. QED BY <1>0, <1>6, <2>1, <2>3, ValidIsNew
<1>7. DoubleUseIsCaught'
  <2> SUFFICES ASSUME NEW a \in judged', NEW b \in judged', a.node = b.node, a.msg # b.msg,
                      Nullifier(a.msg) = Nullifier(b.msg), a.result = "Valid", b.result = "Valid"
               PROVE  a.far \/ b.far
    BY DEF DoubleUseIsCaught
  <2>1. CASE a \in judged /\ b \in judged BY <2>1 DEF IInv, DoubleUseIsCaught
  <2>2. CASE a = r /\ b = r BY <2>2
  <2>3. CASE a \in judged /\ b = r BY <1>6, <2>3
  <2>4. CASE a = r /\ b \in judged BY <1>6, <2>4
  <2>5. QED BY <1>1, <2>1, <2>2, <2>3, <2>4
<1>8. HonestIsNotSpam'
  <2> SUFFICES ASSUME NEW j \in judged', j.result = "Spam", j.msg.from \notin Careless, j.node # j.msg.from
               PROVE  \E k \in judged' : k.node = k.msg.from /\ Nullifier(k.msg) = Nullifier(j.msg) /\ k.far
    BY DEF HonestIsNotSpam
  <2>1. CASE j \in judged BY <1>1, <2>1 DEF IInv, HonestIsNotSpam
  <2>2. CASE j = r
    <3>1. m \in wire /\ Honest(m) /\ m.from # n /\ \A i \in judged : ~ (i.node = n /\ i.msg = m) BY <2>2 DEF Honest
    <3>2. Nullifier(m) \in nullifierLog[n] BY <1>0, <2>2, SpamIsLogged
    <3>3. PICK i \in judged : i.node = n /\ i.msg \in wire /\ Nullifier(i.msg) = Nullifier(m)
      BY <1>3, <3>1, <3>2 DEF IInv, LoggedFromWire
    <3>4. Late(Nullifier(m)) BY <3>1, <3>3, WireIsUnique DEF IInv
    <3>5. QED BY <1>1, <2>2, <3>4 DEF Late
  <2>3. QED BY <1>1, <2>1, <2>2
<1>9. LoggedFromWire'
  <2> SUFFICES ASSUME NEW k \in Node, NEW e \in nullifierLog'[k], e.member # k
               PROVE  \E j \in judged' : j.node = k /\ j.msg \in wire' /\ Nullifier(j.msg) = e
    BY DEF LoggedFromWire
  <2>1. CASE e \in nullifierLog[k] BY <1>1, <2>1 DEF IInv, LoggedFromWire
  <2>2. CASE e \notin nullifierLog[k]
    <3>1. k = n /\ e = Nullifier(m) BY <1>0, <2>2, ValidatorLogs
    <3>2. m \in wire' BY <1>3, <3>1
    <3>3. r \in judged' /\ r.node = n /\ r.msg = m BY <1>1
    <3> HIDE DEF r
    <3>4. QED BY <3>1, <3>2, <3>3
  <2>3. QED BY <2>1, <2>2
<1>10. QED BY <1>5, <1>7, <1>8, <1>9

LEMMA ProveKeeps ==
  ASSUME IInv, NEW n \in Node, NEW age \in 0..MaxAge[n], Prove(n, age)
  PROVE  IInv'
<1> DEFINE m == Proved(n, age, NonceOf(n))
<1>0. TypeOK /\ now >= Start BY DEF IInv
<1>1. /\ getNonce(n) /\ ~LimitReached(n) /\ pending' = pending \cup {m} /\ created' = created + 1
      /\ UNCHANGED <<now, nullifierLog, wire, judged>>
  BY DEF Prove
<1>2. NonceOf(n) \in Nat BY <1>0, <1>1, NonceTypes
<1>3. m \in Message /\ m.nonce = NonceOf(n) BY <1>0, <1>2, ProvedIsMessage
<1> HIDE DEF m
<1>4. TypeOK'
  <2>1. \A w \in pending' \cup wire' : w \in Message /\ w.nonce < NonceLimit
    BY <1>0, <1>1, <1>2, <1>3, RlnAssumption DEF TypeOK, LimitReached
  <2>2. QED BY <1>0, <1>1, <2>1, NonceTypes DEF TypeOK
<1>5. \A k : EpochNow(k)' = EpochNow(k) BY <1>1 DEF EpochNow, Clock, calcEpoch
<1>6. QED BY <1>1, <1>4, <1>5 DEF IInv, WireIsAccepted, LoggedFromWire, Remembered, DoubleUseIsCaught, HonestIsNotSpam

LEMMA ProveFailsKeeps == ASSUME IInv, NEW n \in Node, ProveFails(n) PROVE IInv'
<1>1. getNonce(n) /\ UNCHANGED <<now, nullifierLog, pending, wire, created, judged>> BY DEF ProveFails
<1>2. TypeOK' BY <1>1, NonceTypes DEF IInv, TypeOK
<1>3. \A k : EpochNow(k)' = EpochNow(k) BY <1>1 DEF EpochNow, Clock, calcEpoch
<1>4. QED BY <1>1, <1>2, <1>3 DEF IInv, WireIsAccepted, LoggedFromWire, Remembered, DoubleUseIsCaught, HonestIsNotSpam

LEMMA PublishKeeps == ASSUME IInv, NEW m \in pending, Publish(m) PROVE IInv'
<1>0. TypeOK /\ m \in Message /\ m.from \in Node BY DEF IInv, TypeOK, Message
<1>1. /\ validator(m.from, m) /\ wire' = Published(m.from, m) /\ pending' = pending \ {m}
      /\ UNCHANGED <<now, nonceVars, created>>
  BY DEF Publish
<1>2. wire \subseteq wire' /\ wire' \subseteq wire \cup {m} /\ (m \in wire' => m \in wire \/ Verdict(m.from, m) = "Valid")
  BY <1>1 DEF Published
<1>3. TypeOK'
  <2>1. /\ nullifierLog' \in [Node -> SUBSET [epoch : Nat, member : Node, nonce : Nat]]
        /\ judged' \subseteq [node : Node, msg : Message, result : {"Valid", "Invalid", "Spam"}, far : BOOLEAN]
    BY <1>0, <1>1, ValidatorTypes
  <2>2. \A w \in pending' \cup wire' : w \in Message /\ w.nonce < NonceLimit BY <1>0, <1>1, <1>2 DEF TypeOK
  <2>3. QED BY <1>0, <1>1, <2>1, <2>2 DEF TypeOK, nonceVars
<1>4. LoggedFromWire' /\ Remembered' /\ DoubleUseIsCaught' /\ HonestIsNotSpam'
  BY <1>0, <1>1, <1>2, JudgingKeeps
<1>5. WireIsAccepted'
  <2> DEFINE r == [node |-> m.from, msg |-> m, result |-> Verdict(m.from, m), far |-> Far(m.from, m)]
  <2>1. judged' = judged \cup {r} BY <1>1 DEF validator
  <2>2. r.node = m.from /\ r.msg = m /\ r.result = Verdict(m.from, m) OBVIOUS
  <2> HIDE DEF r
  <2>3. QED BY <1>2, <2>1, <2>2 DEF IInv, WireIsAccepted
<1>6. QED BY <1>1, <1>3, <1>4, <1>5 DEF IInv

LEMMA PublishCarelesslyKeeps ==
  ASSUME IInv, NEW n \in Node, NEW age \in 0..MaxAge[n], NEW nonce \in 0..(NonceLimit - 1), PublishCarelessly(n, age, nonce)
  PROVE  IInv'
<1> DEFINE m == Proved(n, age, nonce)
<1>0. TypeOK /\ now >= Start /\ n \in Careless /\ nonce \in Nat /\ nonce < NonceLimit
  BY RlnAssumption DEF IInv, PublishCarelessly
<1>1. /\ wire' = wire \cup {m} /\ created' = created + 1
      /\ UNCHANGED <<now, nonceVars, nullifierLog, pending, judged>>
  BY DEF PublishCarelessly
<1>2. m \in Message /\ m.from = n /\ m.nonce = nonce BY <1>0, ProvedIsMessage
<1> HIDE DEF m
<1>3. TypeOK'
  <2>1. \A w \in pending' \cup wire' : w \in Message /\ w.nonce < NonceLimit BY <1>0, <1>1, <1>2 DEF TypeOK
  <2>2. QED BY <1>0, <1>1, <2>1 DEF TypeOK, nonceVars
<1>4. \A k : EpochNow(k)' = EpochNow(k) BY <1>1 DEF EpochNow, Clock, calcEpoch
<1>5. ~Honest(m) BY <1>0, <1>2 DEF Honest
<1>6. WireIsAccepted' BY <1>1, <1>5 DEF IInv, WireIsAccepted
<1>7. LoggedFromWire' BY <1>1 DEF IInv, LoggedFromWire
<1>8. QED BY <1>0, <1>1, <1>3, <1>4, <1>6, <1>7 DEF IInv, Remembered, DoubleUseIsCaught, HonestIsNotSpam

LEMMA ArriveKeeps == ASSUME IInv, NEW n \in Node, NEW m \in wire, Arrive(n, m) PROVE IInv'
<1>0. TypeOK /\ m \in Message BY DEF IInv, TypeOK
<1>1. validator(n, m) /\ UNCHANGED <<now, nonceVars, pending, wire, created>> BY DEF Arrive
<1>2. TypeOK'
  <2>1. /\ nullifierLog' \in [Node -> SUBSET [epoch : Nat, member : Node, nonce : Nat]]
        /\ judged' \subseteq [node : Node, msg : Message, result : {"Valid", "Invalid", "Spam"}, far : BOOLEAN]
    BY <1>0, <1>1, ValidatorTypes
  <2>2. QED BY <1>0, <1>1, <2>1 DEF TypeOK, nonceVars
<1>3. LoggedFromWire' /\ Remembered' /\ DoubleUseIsCaught' /\ HonestIsNotSpam'
  <2>1. \A j \in judged : ~ (j.node = n /\ j.msg = m) BY DEF Arrive
  <2>2. QED BY <1>0, <1>1, <2>1, JudgingKeeps
<1>4. WireIsAccepted' BY <1>1 DEF IInv, WireIsAccepted, validator
<1>5. QED BY <1>1, <1>2, <1>3, <1>4 DEF IInv

LEMMA TickKeeps == ASSUME IInv, Tick PROVE IInv'
<1>0. TypeOK /\ now \in Nat /\ now' = now + 1 /\ UNCHANGED <<nonceVars, nullifierLog, pending, wire, created, judged>>
  BY DEF IInv, TypeOK, Tick
<1>1. TypeOK' BY <1>0 DEF TypeOK, nonceVars
<1>2. now' >= Start BY <1>0, RlnAssumption DEF IInv
<1>3. ASSUME NEW k \in Node PROVE EpochNow(k)' \in Nat /\ EpochNow(k) \in Nat /\ EpochNow(k) <= EpochNow(k)'
  <2>1. Clock(k) \in Nat /\ EpochNow(k) \in Nat BY <1>0, ClockIsNat
  <2>2. Clock(k)' = Clock(k) + 1 BY <1>0, RlnAssumption DEF Clock
  <2>3. EpochNow(k)' = calcEpoch(Clock(k) + 1) BY <2>2 DEF EpochNow, calcEpoch
  <2>4. QED BY <2>1, <2>3, EpochIsNat, EpochIsMonotone DEF EpochNow
<1>4. Remembered'
  <2> SUFFICES ASSUME NEW j \in judged, j.result = "Valid", ~j.far
               PROVE  /\ EpochNow(j.node)' + MaxEpochGap > j.msg.epoch
                      /\ EpochNow(j.node)' < j.msg.epoch + MaxEpochGap => Nullifier(j.msg) \in nullifierLog[j.node]
    BY <1>0 DEF Remembered
  <2>1. j.node \in Node /\ j.msg.epoch \in Nat BY <1>0 DEF TypeOK, Message
  <2>2. /\ EpochNow(j.node) + MaxEpochGap > j.msg.epoch
        /\ EpochNow(j.node) < j.msg.epoch + MaxEpochGap => Nullifier(j.msg) \in nullifierLog[j.node]
    BY DEF IInv, Remembered
  <2>3. QED BY <1>3, <2>1, <2>2, GapIsPositive
<1>5. QED BY <1>0, <1>1, <1>2, <1>4
      DEF IInv, WireIsAccepted, LoggedFromWire, DoubleUseIsCaught, HonestIsNotSpam

\* Every reachable state of WakuRlnRelay satisfies the inductive invariant.
THEOREM Invariance == Spec => []IInv
<1>1. IInv /\ [Next]_vars => IInv'
  <2> SUFFICES ASSUME IInv, [Next]_vars PROVE IInv' OBVIOUS
  <2>1. CASE \E n \in Node : \E age \in 0..MaxAge[n] : Prove(n, age) BY <2>1, ProveKeeps
  <2>2. CASE \E n \in Node : ProveFails(n) BY <2>2, ProveFailsKeeps
  <2>8. CASE \E m \in pending : Publish(m) BY <2>8, PublishKeeps
  <2>3. CASE \E n \in Node, nonce \in 0..(NonceLimit - 1) : \E age \in 0..MaxAge[n] : PublishCarelessly(n, age, nonce)
    BY <2>3, PublishCarelesslyKeeps
  <2>4. CASE \E n \in Node, m \in wire : Arrive(n, m) BY <2>4, ArriveKeeps
  <2>5. CASE Tick BY <2>5, TickKeeps
  <2>6. CASE UNCHANGED vars
    BY <2>6 DEF IInv, TypeOK, vars, nonceVars, WireIsAccepted, LoggedFromWire, Remembered,
                DoubleUseIsCaught, HonestIsNotSpam, EpochNow, Clock, calcEpoch
  <2>7. QED BY <2>1, <2>2, <2>3, <2>4, <2>5, <2>6, <2>8 DEF Next
<1>2. QED BY InitHolds, <1>1, PTL DEF Spec

\* The types of the RLN state; the nonce of every published message is below
\* userMessageLimit (getNonce).
THEOREM TypeCorrectness == Spec => []TypeOK
<1>1. IInv => TypeOK BY DEF IInv
<1>2. QED BY <1>1, Invariance, PTL

\* A node accepts at most one of two messages with one nullifier, if both reach it
\* while its clock is less than rlnMaxEpochGap epochs away (hasDuplicate, clearNullifierLog).
THEOREM SpamIsCaught == Spec => []DoubleUseIsCaught
<1>1. IInv => DoubleUseIsCaught BY DEF IInv
<1>2. QED BY <1>1, Invariance, PTL

\* A node that draws its nonces from its NonceManager and lets its own validator judge
\* first is never found to be a spammer by another, unless it was late.
THEOREM HonestAreSafe == Spec => []HonestIsNotSpam
<1>1. IInv => HonestIsNotSpam BY DEF IInv
<1>2. QED BY <1>1, Invariance, PTL

----------------------------------------------------------------------------
(* The rate limit. *)

\* No message was judged whose nonce is at or above the limit.
JudgedInLimit == \A j \in judged : j.msg.nonce < NonceLimit

LEMMA LimitKept == IInv /\ JudgedInLimit /\ [Next]_vars => JudgedInLimit'
<1> SUFFICES ASSUME IInv, JudgedInLimit, [Next]_vars PROVE JudgedInLimit' OBVIOUS
<1>1. \A m \in pending \cup wire : m.nonce < NonceLimit BY DEF IInv, TypeOK
<1>2. ASSUME NEW n, NEW m \in pending \cup wire, validator(n, m) PROVE JudgedInLimit'
  BY <1>1, <1>2 DEF validator, JudgedInLimit
<1>3. CASE judged' = judged BY <1>3 DEF JudgedInLimit
<1>4. QED BY <1>2, <1>3 DEF Next, Prove, ProveFails, Publish, PublishCarelessly, Arrive, Tick, vars

\* What a node accepted in time of one member and epoch differs in its nonces, and
\* there are userMessageLimit of these.
LEMMA AcceptedInLimit ==
  ASSUME IInv, JudgedInLimit, NEW j \in judged
  PROVE  LET accepted == { k \in judged : /\ k.node = j.node /\ k.result = "Valid" /\ ~k.far
                                          /\ k.msg.from = j.msg.from /\ k.msg.epoch = j.msg.epoch }
         IN Cardinality({ k.msg : k \in accepted }) <= NonceLimit
<1> DEFINE accepted == { k \in judged : /\ k.node = j.node /\ k.result = "Valid" /\ ~k.far
                                        /\ k.msg.from = j.msg.from /\ k.msg.epoch = j.msg.epoch }
           M == { k.msg : k \in accepted }
           nonces == 0..(NonceLimit - 1)
           f == [m \in M |-> m.nonce]
<1>1. \A m \in M : m.nonce \in nonces
  <2> SUFFICES ASSUME NEW k \in accepted PROVE k.msg.nonce \in nonces OBVIOUS
  <2>1. k.msg.nonce \in Nat /\ k.msg.nonce < NonceLimit BY DEF JudgedInLimit, IInv, TypeOK, Message
  <2>2. QED BY <2>1, RlnAssumption
<1>2. \A x, y \in M : x.nonce = y.nonce => x = y
  <2> SUFFICES ASSUME NEW k \in accepted, NEW l \in accepted, k.msg.nonce = l.msg.nonce PROVE k.msg = l.msg
    OBVIOUS
  <2>1. Nullifier(k.msg) = Nullifier(l.msg) BY DEF Nullifier
  <2>2. QED BY <2>1 DEF IInv, DoubleUseIsCaught
<1>3. IsFiniteSet(nonces) /\ Cardinality(nonces) = NonceLimit
  <2>1. 0 \in Int /\ NonceLimit - 1 \in Int /\ NonceLimit \in Nat BY RlnAssumption
  <2>2. QED BY <2>1, FS_Interval
<1> HIDE DEF M, nonces
<1>4. f \in Injection(M, nonces) BY <1>1, <1>2 DEF Injection, IsInjective
<1> HIDE DEF f
<1>5. Cardinality(M) <= NonceLimit BY <1>3, <1>4, FS_Injection
<1>6. QED BY <1>5 DEF M

\* No member gets more than userMessageLimit messages of an epoch accepted, while the
\* node's clock is less than rlnMaxEpochGap epochs away from it.
THEOREM RateIsLimited == Spec => []RateLimitHolds
<1>1. Init => JudgedInLimit BY DEF Init, JudgedInLimit
<1>2. IInv /\ JudgedInLimit => RateLimitHolds BY AcceptedInLimit DEF RateLimitHolds
<1>3. QED BY <1>1, <1>2, LimitKept, Invariance, PTL DEF Spec

----------------------------------------------------------------------------
(* The size of the log. *)

\* All epochs of a log but one, the last accepted, were near when it was cleared last.
LogWindow ==
  \A n \in Node : \E c, x \in Nat : \A e \in nullifierLog[n] :
    e.epoch = x \/ (c < e.epoch + MaxEpochGap /\ e.epoch < c + MaxEpochGap)

LEMMA ValidatorKeepsWindow ==
  ASSUME TypeOK, LogWindow, NEW n \in Node, NEW m \in Message, validator(n, m)
  PROVE  LogWindow'
<1> SUFFICES ASSUME NEW k \in Node
             PROVE  \E c, x \in Nat : \A e \in nullifierLog'[k] :
                      e.epoch = x \/ (c < e.epoch + MaxEpochGap /\ e.epoch < c + MaxEpochGap)
  BY DEF LogWindow
<1>1. CASE k # n BY <1>1, ValidatorLogs DEF LogWindow
<1>2. CASE k = n
  <2>1. EpochNow(n) \in Nat /\ m.epoch \in Nat /\ MaxEpochGap \in Nat BY ClockIsNat, GapIsPositive DEF Message
  <2>2. nullifierLog'[n] \subseteq Kept(n) \cup {Nullifier(m)} BY DEF validator, updateLog, TypeOK
  <2>3. ASSUME NEW e \in Kept(n)
        PROVE  EpochNow(n) < e.epoch + MaxEpochGap /\ e.epoch < EpochNow(n) + MaxEpochGap
    <3>1. e.epoch \in Nat BY KeptIsNear DEF TypeOK
    <3>2. ~ (EpochNow(n) + MaxEpochGap <= e.epoch \/ e.epoch <= EpochNow(n) - MaxEpochGap) BY DEF Kept, EpochNow
    <3>3. QED BY <2>1, <3>1, <3>2
  <2>4. Nullifier(m).epoch = m.epoch BY DEF Nullifier
  <2>5. QED BY <1>2, <2>1, <2>2, <2>3, <2>4
<1>3. QED BY <1>1, <1>2

LEMMA WindowBounds == ASSUME TypeOK, LogWindow PROVE LogIsBounded
<1> SUFFICES ASSUME NEW n \in Node
             PROVE  Cardinality({ e.epoch : e \in nullifierLog[n] }) <= 2 * MaxEpochGap
  BY DEF LogIsBounded
<1> DEFINE S == { e.epoch : e \in nullifierLog[n] }
<1>1. PICK c \in Nat, x \in Nat : \A e \in nullifierLog[n] :
        e.epoch = x \/ (c < e.epoch + MaxEpochGap /\ e.epoch < c + MaxEpochGap)
  BY DEF LogWindow
<1> DEFINE a == c - MaxEpochGap + 1
           b == c + MaxEpochGap - 1
<1>2. MaxEpochGap \in Nat /\ MaxEpochGap >= 1 BY GapIsPositive
<1>3. a \in Int /\ b \in Int /\ a <= b /\ b - a + 1 = 2 * MaxEpochGap - 1 BY <1>2
<1>4. S \subseteq (a..b) \cup {x}
  <2> SUFFICES ASSUME NEW e \in nullifierLog[n] PROVE e.epoch \in (a..b) \cup {x} OBVIOUS
  <2>1. e.epoch \in Nat BY DEF TypeOK
  <2>2. QED BY <1>1, <1>2, <2>1
<1> HIDE DEF S, a, b
<1>5. IsFiniteSet(a..b) /\ Cardinality(a..b) = 2 * MaxEpochGap - 1 BY <1>3, FS_Interval
<1>6. /\ IsFiniteSet((a..b) \cup {x})
      /\ Cardinality((a..b) \cup {x}) = Cardinality(a..b) \/ Cardinality((a..b) \cup {x}) = Cardinality(a..b) + 1
  BY <1>5, FS_AddElement
<1>7. Cardinality((a..b) \cup {x}) <= 2 * MaxEpochGap BY <1>2, <1>5, <1>6
<1>8. IsFiniteSet(S) /\ Cardinality(S) <= Cardinality((a..b) \cup {x}) BY <1>4, <1>6, FS_Subset
<1>9. Cardinality(S) \in Nat /\ Cardinality((a..b) \cup {x}) \in Nat BY <1>6, <1>8, FS_CardinalityType
<1>10. Cardinality(S) <= 2 * MaxEpochGap BY <1>2, <1>7, <1>8, <1>9
<1>11. QED BY <1>10 DEF S

\* clearNullifierLog, called before every message, keeps the log of a node to at
\* most 2 * rlnMaxEpochGap epochs.
THEOREM LogStaysBounded == Spec => []LogIsBounded
<1>1. Init => LogWindow
  <2>1. 0 \in Nat OBVIOUS
  <2>2. QED BY <2>1 DEF Init, LogWindow
<1>2. IInv /\ LogWindow /\ [Next]_vars => LogWindow'
  <2> SUFFICES ASSUME IInv, LogWindow, [Next]_vars PROVE LogWindow' OBVIOUS
  <2>0. TypeOK /\ \A m \in pending \cup wire : m \in Message /\ m.from \in Node BY DEF IInv, TypeOK, Message
  <2>1. ASSUME NEW m \in pending, Publish(m) PROVE LogWindow'
    BY <2>0, <2>1, ValidatorKeepsWindow DEF Publish
  <2>2. ASSUME NEW n \in Node, NEW m \in wire, Arrive(n, m) PROVE LogWindow'
    BY <2>0, <2>2, ValidatorKeepsWindow DEF Arrive
  <2>3. CASE nullifierLog' = nullifierLog BY <2>3 DEF LogWindow
  <2>4. QED BY <2>1, <2>2, <2>3 DEF Next, Prove, ProveFails, PublishCarelessly, Tick, vars
<1>3. IInv /\ LogWindow => LogIsBounded BY WindowBounds DEF IInv
<1>4. QED BY <1>1, <1>2, <1>3, Invariance, PTL DEF Spec

----------------------------------------------------------------------------
(* How often a nonce comes. A node's counter starts again at lastNonceTime.  *)
(* A message keeps its nonce from coming again until the counter has started *)
(* again in its epoch or later; of two messages with one nullifier this has  *)
(* happened before the second, so that only a later epoch has the nonce.     *)

OwnJudgements == { j \in judged : j.node = j.msg.from }

\* The messages for which a NonceManager was asked.
Drawn == pending \cup { j.msg : j \in OwnJudgements }

\* Each message is new when it is made, and judged once by its own node.
JudgedOnce ==
  /\ \A m \in Drawn : m.id <= created
  /\ \A j \in OwnJudgements : j.msg \notin pending
  /\ \A j, k \in OwnJudgements : j.msg = k.msg => j = k

NoncesMoveOn ==
  /\ \A n \in Node : lastNonceTime[n] <= Clock(n)
  /\ \A a \in Drawn : /\ a.epoch <= EpochNow(a.from)
                      /\ calcEpoch(lastNonceTime[a.from]) >= a.epoch \/ nextNonce[a.from] > a.nonce

SecondIsLast ==
  \A a, b \in Drawn : a # b /\ Nullifier(a) = Nullifier(b) =>
    /\ calcEpoch(lastNonceTime[a.from]) >= a.epoch
    /\ nextNonce[a.from] > a.nonce \/ calcEpoch(lastNonceTime[a.from]) > a.epoch

NoThird ==
  \A a, b, c \in Drawn :
    Nullifier(a) = Nullifier(b) /\ Nullifier(b) = Nullifier(c) => a = b \/ b = c \/ a = c

NonceInv == JudgedOnce /\ NoncesMoveOn /\ SecondIsLast /\ NoThird

LEMMA DrawnIsMessage ==
  ASSUME TypeOK
  PROVE  \A m \in Drawn : /\ m \in Message /\ m.from \in Node /\ m.epoch \in Nat
                         /\ m.nonce \in Nat /\ m.id \in Nat
<1>1. Drawn \subseteq Message BY DEF TypeOK, Drawn, OwnJudgements
<1>2. QED BY <1>1 DEF Message

\* Seconds that are a whole epoch apart are in different epochs.
LEMMA EpochsApart == \A s, t \in Nat : t - s >= EpochSize => calcEpoch(t) >= calcEpoch(s) + 1
<1> SUFFICES ASSUME NEW s \in Nat, NEW t \in Nat, t - s >= EpochSize
             PROVE  t \div EpochSize >= (s \div EpochSize) + 1
  BY DEF calcEpoch
<1>1. EpochSize \in Nat /\ EpochSize > 0 BY RlnAssumption
<1>2. (s + EpochSize) \div EpochSize = (s \div EpochSize) + 1 BY <1>1
<1>3. (s + EpochSize) \div EpochSize <= t \div EpochSize BY <1>1
<1>4. QED BY <1>1, <1>2, <1>3

LEMMA StartFacts ==
  ASSUME TypeOK, NoncesMoveOn, NEW n \in Node
  PROVE  /\ lastNonceTime[n] \in Nat /\ nextNonce[n] \in Nat
         /\ calcEpoch(lastNonceTime[n]) \in Nat /\ EpochNow(n) \in Nat
         /\ calcEpoch(lastNonceTime[n]) <= EpochNow(n)
         /\ Fresh(n) => calcEpoch(lastNonceTime[n]) + 1 <= EpochNow(n)
<1>1. lastNonceTime[n] \in Nat /\ nextNonce[n] \in Nat BY DEF TypeOK
<1>2. Clock(n) \in Nat /\ lastNonceTime[n] <= Clock(n) BY ClockIsNat DEF NoncesMoveOn
<1>3. calcEpoch(lastNonceTime[n]) \in Nat /\ EpochNow(n) \in Nat /\ calcEpoch(lastNonceTime[n]) <= EpochNow(n)
  BY <1>1, <1>2, EpochIsNat, EpochIsMonotone DEF EpochNow
<1>4. Fresh(n) => calcEpoch(lastNonceTime[n]) + 1 <= EpochNow(n)
  BY <1>1, <1>2, EpochsApart DEF Fresh, EpochNow
<1>5. QED BY <1>1, <1>3, <1>4

LEMMA GetNonceFacts ==
  ASSUME TypeOK, NoncesMoveOn, NEW n \in Node, getNonce(n), now' = now
  PROVE  /\ \A k \in Node \ {n} : nextNonce'[k] = nextNonce[k] /\ lastNonceTime'[k] = lastNonceTime[k]
         /\ nextNonce'[n] = NonceOf(n) + 1 /\ NonceOf(n) \in Nat
         /\ Fresh(n) => NonceOf(n) = 0 /\ calcEpoch(lastNonceTime'[n]) = EpochNow(n)
         /\ ~Fresh(n) => NonceOf(n) = nextNonce[n] /\ calcEpoch(lastNonceTime'[n]) = calcEpoch(lastNonceTime[n])
         /\ \A k \in Node : lastNonceTime'[k] <= Clock(k)
<1>1. /\ nextNonce' = [nextNonce EXCEPT ![n] = NonceOf(n) + 1]
      /\ lastNonceTime' = [lastNonceTime EXCEPT ![n] = IF Fresh(n) THEN Clock(n) ELSE lastNonceTime[n]]
      /\ nextNonce \in [Node -> Nat] /\ lastNonceTime \in [Node -> Nat]
  BY DEF getNonce, TypeOK
<1>2. NonceOf(n) \in Nat BY NonceTypes
<1>3. Fresh(n) => lastNonceTime'[n] = Clock(n) BY <1>1
<1>4. ~Fresh(n) => lastNonceTime'[n] = lastNonceTime[n] BY <1>1
<1>6. \A k \in Node \ {n} : nextNonce'[k] = nextNonce[k] /\ lastNonceTime'[k] = lastNonceTime[k]
  BY <1>1
<1>7. \A k \in Node : lastNonceTime'[k] <= Clock(k)
  <2>1. \A k \in Node : Clock(k) \in Nat /\ lastNonceTime[k] <= Clock(k) BY ClockIsNat DEF NoncesMoveOn
  <2>2. QED BY <1>3, <1>4, <1>6, <2>1
<1>8. nextNonce'[n] = NonceOf(n) + 1 BY <1>1
<1>9. QED BY <1>2, <1>3, <1>4, <1>6, <1>7, <1>8 DEF NonceOf, EpochNow

\* getNonce keeps what was drawn before in its place.
LEMMA GetNonceKeeps ==
  ASSUME TypeOK, NonceInv, NEW n \in Node, getNonce(n), now' = now, NEW a \in Drawn
  PROVE  /\ a.epoch <= EpochNow(a.from) /\ a.from \in Node
         /\ calcEpoch(lastNonceTime'[a.from]) >= a.epoch \/ nextNonce'[a.from] > a.nonce
         /\ \A b \in Drawn : a # b /\ Nullifier(a) = Nullifier(b) =>
              /\ calcEpoch(lastNonceTime'[a.from]) >= a.epoch
              /\ nextNonce'[a.from] > a.nonce \/ calcEpoch(lastNonceTime'[a.from]) > a.epoch
<1>1. a.from \in Node /\ a.epoch \in Nat /\ a.nonce \in Nat BY DrawnIsMessage
<1>2. EpochNow(a.from)' = EpochNow(a.from) BY DEF EpochNow, Clock, calcEpoch
<1>3. a.epoch <= EpochNow(a.from) /\ (calcEpoch(lastNonceTime[a.from]) >= a.epoch \/ nextNonce[a.from] > a.nonce)
  BY DEF NonceInv, NoncesMoveOn
<1>4. CASE a.from # n
  <2>1. nextNonce'[a.from] = nextNonce[a.from] /\ calcEpoch(lastNonceTime'[a.from]) = calcEpoch(lastNonceTime[a.from])
    BY <1>1, <1>4, GetNonceFacts DEF NonceInv, calcEpoch
  <2>2. ASSUME NEW b \in Drawn, a # b, Nullifier(a) = Nullifier(b)
        PROVE  /\ calcEpoch(lastNonceTime[a.from]) >= a.epoch
               /\ nextNonce[a.from] > a.nonce \/ calcEpoch(lastNonceTime[a.from]) > a.epoch
    BY <2>2 DEF NonceInv, SecondIsLast
  <2>3. QED BY ONLY <1>1, <1>3, <2>1, <2>2
<1>5. CASE a.from = n
  <2>1. /\ calcEpoch(lastNonceTime[n]) \in Nat /\ EpochNow(n) \in Nat /\ nextNonce[n] \in Nat
        /\ Fresh(n) => calcEpoch(lastNonceTime[n]) + 1 <= EpochNow(n)
    BY StartFacts DEF NonceInv
  <2>2. /\ nextNonce'[n] = NonceOf(n) + 1
        /\ Fresh(n) => calcEpoch(lastNonceTime'[n]) = EpochNow(n)
        /\ ~Fresh(n) => NonceOf(n) = nextNonce[n] /\ calcEpoch(lastNonceTime'[n]) = calcEpoch(lastNonceTime[n])
    BY GetNonceFacts DEF NonceInv
  <2>3. \A b \in Drawn : a # b /\ Nullifier(a) = Nullifier(b) =>
          /\ calcEpoch(lastNonceTime[n]) >= a.epoch
          /\ nextNonce[n] > a.nonce \/ calcEpoch(lastNonceTime[n]) > a.epoch
    BY <1>5 DEF NonceInv, SecondIsLast
  <2>3a. a.epoch <= EpochNow(n) /\ (calcEpoch(lastNonceTime[n]) >= a.epoch \/ nextNonce[n] > a.nonce)
    BY <1>3, <1>5
  <2>4. calcEpoch(lastNonceTime'[n]) >= a.epoch \/ nextNonce'[n] > a.nonce
    <3>1. CASE Fresh(n)
      <4>1. calcEpoch(lastNonceTime'[n]) = EpochNow(n) BY <2>2, <3>1
      <4>2. QED BY <1>1, <2>3a, <2>1, <4>1
    <3>2. CASE ~Fresh(n)
      <4>1. nextNonce'[n] = nextNonce[n] + 1 /\ calcEpoch(lastNonceTime'[n]) = calcEpoch(lastNonceTime[n])
        BY <2>2, <3>2
      <4>2. QED BY <1>1, <2>3a, <2>1, <4>1
    <3>3. QED BY <3>1, <3>2
  <2>5. ASSUME NEW b \in Drawn, a # b, Nullifier(a) = Nullifier(b)
        PROVE  /\ calcEpoch(lastNonceTime'[n]) >= a.epoch
               /\ nextNonce'[n] > a.nonce \/ calcEpoch(lastNonceTime'[n]) > a.epoch
    <3>1. /\ calcEpoch(lastNonceTime[n]) >= a.epoch
          /\ nextNonce[n] > a.nonce \/ calcEpoch(lastNonceTime[n]) > a.epoch
      BY <2>3, <2>5
    <3>2. CASE Fresh(n)
      <4>1. calcEpoch(lastNonceTime'[n]) = EpochNow(n) BY <2>2, <3>2
      <4>2. QED BY <1>1, <2>1, <3>1, <3>2, <4>1
    <3>3. CASE ~Fresh(n)
      <4>1. nextNonce'[n] = nextNonce[n] + 1 /\ calcEpoch(lastNonceTime'[n]) = calcEpoch(lastNonceTime[n])
        BY <2>2, <3>3
      <4>2. QED BY <1>1, <2>1, <3>1, <4>1
    <3>4. QED BY <3>2, <3>3
  <2>6. QED BY <1>2, <1>3, <1>5, <2>4, <2>5
<1>6. QED BY <1>4, <1>5

\* If a message gets the nullifier of another, the counter has started again in
\* its epoch, and no third one can get it.
LEMMA NextNonceFacts ==
  ASSUME TypeOK, NonceInv, NEW n \in Node, getNonce(n), now' = now, NEW a \in Drawn,
         a.from = n, a.epoch = EpochNow(n), a.nonce = NonceOf(n)
  PROVE  /\ calcEpoch(lastNonceTime'[n]) >= a.epoch
         /\ \A b \in Drawn : a # b => Nullifier(a) # Nullifier(b)
<1>1. a.epoch \in Nat /\ a.nonce \in Nat BY DrawnIsMessage
<1>2. /\ calcEpoch(lastNonceTime[n]) \in Nat /\ EpochNow(n) \in Nat /\ nextNonce[n] \in Nat
      /\ calcEpoch(lastNonceTime[n]) <= EpochNow(n)
      /\ Fresh(n) => calcEpoch(lastNonceTime[n]) + 1 <= EpochNow(n)
  BY StartFacts DEF NonceInv
<1>3. /\ Fresh(n) => calcEpoch(lastNonceTime'[n]) = EpochNow(n)
      /\ ~Fresh(n) => NonceOf(n) = nextNonce[n] /\ calcEpoch(lastNonceTime'[n]) = calcEpoch(lastNonceTime[n])
  BY GetNonceFacts DEF NonceInv
<1>4. calcEpoch(lastNonceTime'[n]) >= a.epoch
  <2>1. calcEpoch(lastNonceTime[n]) >= a.epoch \/ nextNonce[n] > a.nonce BY DEF NonceInv, NoncesMoveOn
  <2>2. QED BY <1>1, <1>2, <1>3, <2>1
<1>5. ASSUME NEW b \in Drawn, a # b, Nullifier(a) = Nullifier(b) PROVE FALSE
  <2>1. calcEpoch(lastNonceTime[n]) >= a.epoch /\ (nextNonce[n] > a.nonce \/ calcEpoch(lastNonceTime[n]) > a.epoch)
    BY <1>5 DEF NonceInv, SecondIsLast
  <2>2. QED BY <1>1, <1>2, <1>3, <2>1
<1>6. QED BY <1>4, <1>5

LEMMA ProveKeepsNonces ==
  ASSUME TypeOK, now >= Start, NonceInv, NEW n \in Node, NEW age \in 0..MaxAge[n], Prove(n, age)
  PROVE  NonceInv'
<1> DEFINE m == Proved(n, age, NonceOf(n))
<1>1. /\ getNonce(n) /\ pending' = pending \cup {m} /\ created' = created + 1
      /\ now' = now /\ judged' = judged /\ created \in Nat
  BY DEF Prove, TypeOK
<1>2. /\ m \in Message /\ m.from = n /\ m.epoch = EpochNow(n) /\ m.nonce = NonceOf(n)
      /\ m.id = created + 1
  <2>1. NonceOf(n) \in Nat BY <1>1, NonceTypes
  <2>2. QED BY <2>1, ProvedIsMessage DEF Proved
<1> HIDE DEF m
<1>3. Drawn' = Drawn \cup {m} /\ OwnJudgements' = OwnJudgements
  BY <1>1 DEF Drawn, OwnJudgements
<1>4. m \notin Drawn
  BY <1>1, <1>2 DEF NonceInv, JudgedOnce
<1>5. JudgedOnce'
  <2>1. \A d \in Drawn' : d.id <= created'
    <3>1. \A d \in Drawn : d.id \in Nat /\ d.id <= created BY DrawnIsMessage DEF NonceInv, JudgedOnce
    <3>2. QED BY <1>1, <1>2, <1>3, <3>1
  <2>2. \A j \in OwnJudgements : j.msg \in Drawn /\ j.msg \notin pending
    BY DEF Drawn, NonceInv, JudgedOnce
  <2>3. QED BY <1>1, <1>3, <1>4, <2>1, <2>2 DEF NonceInv, JudgedOnce
<1>6. /\ \A k \in Node : lastNonceTime'[k] <= Clock(k)'
      /\ (\A k : EpochNow(k)' = EpochNow(k)) /\ nextNonce'[n] = m.nonce + 1 /\ m.nonce \in Nat
  <2>1. \A k : Clock(k)' = Clock(k) BY <1>1 DEF Clock
  <2>2. \A k : EpochNow(k)' = EpochNow(k) BY <2>1 DEF EpochNow, calcEpoch
  <2>3. QED BY <1>1, <1>2, <2>1, <2>2, GetNonceFacts DEF NonceInv
<1>7. NoncesMoveOn'
  <2>1. ASSUME NEW a \in Drawn'
        PROVE  /\ a.epoch <= EpochNow(a.from)'
               /\ calcEpoch(lastNonceTime'[a.from]) >= a.epoch \/ nextNonce'[a.from] > a.nonce
    <3>1. CASE a \in Drawn BY <1>1, <1>6, <3>1, GetNonceKeeps
    <3>2. CASE a = m
      <4>1. EpochNow(n) \in Nat BY ClockIsNat
      <4>2. QED BY <1>2, <1>6, <3>2, <4>1
    <3>3. QED BY <1>3, <3>1, <3>2
  <2>2. QED BY <1>6, <2>1 DEF NoncesMoveOn, calcEpoch
\* What the new message's namesake, if there is one, has to do with it.
<1>8. ASSUME NEW a \in Drawn, Nullifier(a) = Nullifier(m)
      PROVE  /\ a.from = n /\ a.epoch = m.epoch /\ a.nonce = m.nonce
             /\ calcEpoch(lastNonceTime'[n]) >= a.epoch /\ nextNonce'[n] > a.nonce
             /\ \A b \in Drawn : a # b => Nullifier(a) # Nullifier(b)
  <2>1. a.from = n /\ a.epoch = m.epoch /\ a.nonce = m.nonce BY <1>2, <1>8 DEF Nullifier
  <2>2. QED BY <1>1, <1>2, <1>6, <2>1, NextNonceFacts
<1>9. SecondIsLast'
  <2>1. ASSUME NEW a \in Drawn', NEW b \in Drawn', a # b, Nullifier(a) = Nullifier(b)
        PROVE  /\ calcEpoch(lastNonceTime'[a.from]) >= a.epoch
               /\ nextNonce'[a.from] > a.nonce \/ calcEpoch(lastNonceTime'[a.from]) > a.epoch
    <3>1. CASE a \in Drawn /\ b \in Drawn BY <1>1, <2>1, <3>1, GetNonceKeeps
    <3>2. CASE a \in Drawn /\ b = m BY <1>8, <2>1, <3>2
    <3>3. CASE a = m /\ b \in Drawn
      <4>1. /\ b.from = n /\ b.epoch = m.epoch /\ b.nonce = m.nonce
            /\ calcEpoch(lastNonceTime'[n]) >= b.epoch /\ nextNonce'[n] > b.nonce
        BY <1>8, <2>1, <3>3
      <4>2. QED BY <1>2, <3>3, <4>1
    <3>4. QED BY <1>3, <2>1, <3>1, <3>2, <3>3
  <2>2. QED BY <2>1 DEF SecondIsLast, Nullifier, calcEpoch
<1>10. NoThird'
  <2>1. ASSUME NEW a \in Drawn', NEW b \in Drawn', NEW c \in Drawn',
               Nullifier(a) = Nullifier(b), Nullifier(b) = Nullifier(c), a # b, b # c, a # c
        PROVE  FALSE
    <3>1. CASE a \in Drawn /\ b \in Drawn /\ c \in Drawn BY <2>1, <3>1 DEF NonceInv, NoThird
    <3>2. CASE a = m BY <1>3, <1>8, <2>1, <3>2
    <3>3. CASE b = m BY <1>3, <1>8, <2>1, <3>3
    <3>4. CASE c = m BY <1>3, <1>8, <2>1, <3>4
    <3>5. QED BY <1>3, <3>1, <3>2, <3>3, <3>4
  <2>2. QED BY <2>1 DEF NoThird, Nullifier
<1>11. QED BY <1>5, <1>7, <1>9, <1>10 DEF NonceInv

\* A step that makes no message, and after which each clock shows the same time or a later one.
LEMMA QuietKeepsNonces ==
  ASSUME TypeOK, NonceInv, Drawn' = Drawn, JudgedOnce',
         \/ UNCHANGED <<nonceVars, now>>
         \/ \E n \in Node : getNonce(n) /\ now' = now
         \/ Tick
  PROVE  NonceInv'
<1>1. NoThird' BY DEF NonceInv, NoThird, Nullifier
<1>2. CASE UNCHANGED <<nonceVars, now>>
  <2>1. \A k : Clock(k)' = Clock(k) /\ EpochNow(k)' = EpochNow(k) /\ calcEpoch(lastNonceTime'[k]) = calcEpoch(lastNonceTime[k])
    BY <1>2 DEF Clock, EpochNow, calcEpoch, nonceVars
  <2>2. QED BY <1>1, <1>2, <2>1 DEF NonceInv, NoncesMoveOn, SecondIsLast, Nullifier, nonceVars
<1>3. CASE \E n \in Node : getNonce(n) /\ now' = now
  <2>1. PICK n \in Node : getNonce(n) /\ now' = now BY <1>3
  <2>0. \A k : EpochNow(k)' = EpochNow(k)
    BY <2>1 DEF EpochNow, Clock, calcEpoch
  <2>2. \A k \in Node : lastNonceTime'[k] <= Clock(k)'
    BY <2>1, GetNonceFacts DEF NonceInv, Clock
  <2>3. \A a \in Drawn : /\ a.epoch <= EpochNow(a.from)'
                         /\ calcEpoch(lastNonceTime'[a.from]) >= a.epoch \/ nextNonce'[a.from] > a.nonce
    BY <2>1, <2>0, GetNonceKeeps
  <2>4. \A a, b \in Drawn : a # b /\ Nullifier(a) = Nullifier(b) =>
          /\ calcEpoch(lastNonceTime'[a.from]) >= a.epoch
          /\ nextNonce'[a.from] > a.nonce \/ calcEpoch(lastNonceTime'[a.from]) > a.epoch
    BY <2>1, GetNonceKeeps
  <2>5. NoncesMoveOn' /\ SecondIsLast'
    BY <2>2, <2>3, <2>4 DEF NoncesMoveOn, SecondIsLast, Nullifier, calcEpoch
  <2>6. QED BY <1>1, <2>5 DEF NonceInv
<1>4. CASE Tick
  <2>1. now' = now + 1 /\ now \in Nat /\ UNCHANGED nonceVars BY <1>4 DEF Tick, TypeOK
  <2>2. ASSUME NEW k \in Node
        PROVE  /\ lastNonceTime[k] <= Clock(k)' /\ calcEpoch(lastNonceTime'[k]) = calcEpoch(lastNonceTime[k])
               /\ EpochNow(k) \in Nat /\ EpochNow(k)' \in Nat /\ EpochNow(k) <= EpochNow(k)'
    <3>1. Clock(k) \in Nat /\ lastNonceTime[k] \in Nat /\ lastNonceTime[k] <= Clock(k)
      BY ClockIsNat DEF NonceInv, NoncesMoveOn, TypeOK
    <3>2. Clock(k)' = Clock(k) + 1 BY <2>1, RlnAssumption DEF Clock
    <3>3. EpochNow(k)' = calcEpoch(Clock(k) + 1) BY <3>2 DEF EpochNow, calcEpoch
    <3>4. calcEpoch(lastNonceTime'[k]) = calcEpoch(lastNonceTime[k]) BY <2>1 DEF calcEpoch, nonceVars
    <3>5. QED BY <3>1, <3>2, <3>3, <3>4, EpochIsNat, EpochIsMonotone DEF EpochNow
  <2>3. \A a \in Drawn : a.from \in Node /\ a.epoch \in Nat /\ a.epoch <= EpochNow(a.from)
    BY DrawnIsMessage DEF NonceInv, NoncesMoveOn
  <2>4. NoncesMoveOn'
    BY <2>1, <2>2, <2>3 DEF NonceInv, NoncesMoveOn, nonceVars
  <2>5. SecondIsLast'
    BY <2>1, <2>2, <2>3 DEF NonceInv, SecondIsLast, Nullifier, nonceVars
  <2>6. QED BY <1>1, <2>4, <2>5 DEF NonceInv
<1>5. QED BY <1>2, <1>3, <1>4

\* A node judges a message of its own: none of the nonces drawn changes.
LEMMA PublishKeepsNonces ==
  ASSUME TypeOK, NonceInv, NEW m \in pending, Publish(m)
  PROVE  NonceInv'
<1> DEFINE r == [node |-> m.from, msg |-> m, result |-> Verdict(m.from, m), far |-> Far(m.from, m)]
<1>1. /\ judged' = judged \cup {r} /\ pending' = pending \ {m} /\ created' = created
      /\ UNCHANGED <<nonceVars, now>>
  BY DEF Publish, validator
<1>2. r.node = m.from /\ r.msg = m OBVIOUS
<1> HIDE DEF r
<1>3. OwnJudgements' = OwnJudgements \cup {r} BY <1>1, <1>2 DEF OwnJudgements
<1>4. Drawn' = Drawn BY <1>1, <1>2, <1>3 DEF Drawn
<1>5. \A j \in OwnJudgements : j.msg # m BY DEF NonceInv, JudgedOnce
<1>6. JudgedOnce' BY <1>1, <1>2, <1>3, <1>4, <1>5 DEF NonceInv, JudgedOnce
<1>7. QED BY <1>1, <1>4, <1>6, QuietKeepsNonces

\* A message of another node arrives.
LEMMA ArriveKeepsNonces ==
  ASSUME TypeOK, NonceInv, NEW n \in Node, NEW m \in wire, Arrive(n, m)
  PROVE  NonceInv'
<1> DEFINE r == [node |-> n, msg |-> m, result |-> Verdict(n, m), far |-> Far(n, m)]
<1>1. /\ judged' = judged \cup {r} /\ pending' = pending /\ created' = created
      /\ UNCHANGED <<nonceVars, now>> /\ m.from # n
  BY DEF Arrive, validator
<1>2. r.node = n /\ r.msg = m OBVIOUS
<1> HIDE DEF r
<1>3. OwnJudgements' = OwnJudgements BY <1>1, <1>2 DEF OwnJudgements
<1>4. Drawn' = Drawn BY <1>1, <1>3 DEF Drawn
<1>5. JudgedOnce' BY <1>1, <1>3, <1>4 DEF NonceInv, JudgedOnce
<1>6. QED BY <1>1, <1>4, <1>5, QuietKeepsNonces

\* The steps after which nothing more is drawn or judged by its own node.
LEMMA OthersKeepNonces ==
  ASSUME TypeOK, NonceInv,
         \/ \E n \in Node : ProveFails(n)
         \/ \E n \in Node, nonce \in 0..(NonceLimit - 1) : \E age \in 0..MaxAge[n] : PublishCarelessly(n, age, nonce)
         \/ Tick
         \/ UNCHANGED vars
  PROVE  NonceInv'
<1>1. /\ pending' = pending /\ judged' = judged
      /\ created' = created \/ created' = created + 1
  BY DEF ProveFails, PublishCarelessly, Tick, vars
<1>2. OwnJudgements' = OwnJudgements /\ Drawn' = Drawn BY <1>1 DEF OwnJudgements, Drawn
<1>3. \A m \in Drawn : m.id <= created'
  <2>1. \A m \in Drawn : m.id \in Nat /\ m.id <= created BY DrawnIsMessage DEF NonceInv, JudgedOnce
  <2>2. created \in Nat BY DEF TypeOK
  <2>3. QED BY <1>1, <2>1, <2>2
<1>4. JudgedOnce' BY <1>1, <1>2, <1>3 DEF NonceInv, JudgedOnce
<1>5. \/ UNCHANGED <<nonceVars, now>>
      \/ \E n \in Node : getNonce(n) /\ now' = now
      \/ Tick
  BY DEF ProveFails, PublishCarelessly, vars
<1>6. QED BY <1>2, <1>4, <1>5, QuietKeepsNonces

LEMMA NonceStep == IInv /\ NonceInv /\ [Next]_vars => NonceInv'
<1> SUFFICES ASSUME IInv, NonceInv, [Next]_vars PROVE NonceInv' OBVIOUS
<1>0. TypeOK /\ now >= Start BY DEF IInv
<1>1. ASSUME NEW n \in Node, NEW age \in 0..MaxAge[n], Prove(n, age) PROVE NonceInv'
  BY <1>0, <1>1, ProveKeepsNonces
<1>2. ASSUME NEW m \in pending, Publish(m) PROVE NonceInv' BY <1>0, <1>2, PublishKeepsNonces
<1>3. ASSUME NEW n \in Node, NEW m \in wire, Arrive(n, m) PROVE NonceInv' BY <1>0, <1>3, ArriveKeepsNonces
<1>4. CASE \/ \E n \in Node : ProveFails(n)
           \/ \E n \in Node, nonce \in 0..(NonceLimit - 1) : \E age \in 0..MaxAge[n] : PublishCarelessly(n, age, nonce)
           \/ Tick
           \/ UNCHANGED vars
  BY <1>0, <1>4, OthersKeepNonces
<1>5. QED BY <1>1, <1>2, <1>3, <1>4 DEF Next

LEMMA NonceInit == Init => NonceInv
<1> SUFFICES ASSUME Init PROVE NonceInv OBVIOUS
<1>1. OwnJudgements = {} /\ Drawn = {} BY DEF Init, OwnJudgements, Drawn
<1>2. \A n \in Node : lastNonceTime[n] = 0 /\ Clock(n) \in Nat BY RlnAssumption DEF Init, Clock
<1>3. QED BY <1>1, <1>2 DEF NonceInv, JudgedOnce, NoncesMoveOn, SecondIsLast, NoThird

\* A set without three different members has at most two.
LEMMA TwoAtMost ==
  ASSUME NEW S, \A x, y, z \in S : x = y \/ y = z \/ x = z
  PROVE  Cardinality(S) <= 2
<1>1. CASE S = {} BY <1>1, FS_EmptySet
<1>2. CASE S # {}
  <2>1. PICK x \in S : TRUE BY <1>2
  <2>2. PICK y \in S : y # x \/ S = {x} BY <2>1
  <2>3. S = {x} \cup {y} BY <2>1, <2>2
  <2>4. IsFiniteSet({x}) /\ Cardinality({x}) = 1 BY FS_Singleton
  <2>5. Cardinality({x} \cup {y}) = IF y \in {x} THEN Cardinality({x}) ELSE Cardinality({x}) + 1
    BY <2>4, FS_AddElement
  <2>6. QED BY <2>3, <2>4, <2>5
<1>3. QED BY <1>1, <1>2

\* A nonce drawn from the NonceManager comes at most twice within an epoch,
\* although getNonce's window and calcEpoch's slots are not aligned.
THEOREM NonceNotThrice == Spec => []NonceAtMostTwice
<1>1. NonceInv => NonceAtMostTwice
  <2> SUFFICES ASSUME NonceInv, NEW j \in OwnJudgements
               PROVE  Cardinality({ k \in OwnJudgements : Nullifier(k.msg) = Nullifier(j.msg) }) <= 2
    BY DEF NonceAtMostTwice, OwnJudgements
  <2> DEFINE S == { k \in OwnJudgements : Nullifier(k.msg) = Nullifier(j.msg) }
  <2>1. ASSUME NEW x \in S, NEW y \in S, NEW z \in S PROVE x = y \/ y = z \/ x = z
    <3>1. x.msg \in Drawn /\ y.msg \in Drawn /\ z.msg \in Drawn BY DEF Drawn
    <3>2. x.msg = y.msg \/ y.msg = z.msg \/ x.msg = z.msg BY <3>1 DEF NonceInv, NoThird
    <3>3. QED BY <3>2 DEF NonceInv, JudgedOnce
  <2> HIDE DEF S
  <2>2. Cardinality(S) <= 2 BY <2>1, TwoAtMost
  <2>3. QED BY <2>2 DEF S
<1>2. QED BY <1>1, NonceInit, NonceStep, Invariance, PTL DEF Spec
=============================================================================
