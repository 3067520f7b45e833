-------------------------- MODULE WakuFilterProofs ---------------------------
(***************************************************************************)
(* Proofs about the filter service for any finite sets of peers and        *)
(* criteria, any limits, and a clock that may pass deadlines in the middle *)
(* of cleanUp.                                                             *)
(***************************************************************************)
EXTENDS WakuFilter, FiniteSetTheorems, TLAPS

Tables == TablesTypeOK /\ CountCovers

\* A peer that counts on a subscription is in the peer store, so that
\* maintainSubscriptions does not remove it.
Listed == \A p \in Peer, c \in Criterion : belief[p][c] = "yes" => p \in peerStore

FInv == TypeOK /\ CountCovers /\ PromiseKept /\ NothingUnwanted /\ Listed

LEMMA CriteriaFinite ==
  ASSUME NEW p
  PROVE  /\ IsFiniteSet(CriteriaOf(p)) /\ Cardinality(CriteriaOf(p)) \in Nat
         /\ IsFiniteSet(CriteriaOf(p)') /\ Cardinality(CriteriaOf(p)') \in Nat
<1>1. CriteriaOf(p) \in SUBSET Criterion /\ CriteriaOf(p)' \in SUBSET Criterion
  BY DEF CriteriaOf
<1>2. IsFiniteSet(CriteriaOf(p)) /\ IsFiniteSet(CriteriaOf(p)')
  BY <1>1, FilterAssumption, FS_Subset
<1>3. QED BY <1>2, FS_CardinalityType

\* addSubscription keeps the two tables consistent.
LEMMA AddKeeps ==
  ASSUME Tables, NEW p \in Peer, NEW criteria \in SUBSET Criterion, criteria # {},
         addSubscription(p, criteria)
  PROVE  /\ Tables'
         /\ \A q \in Peer : CriteriaOf(q)' = IF q = p THEN CriteriaOf(q) \cup criteria
                                             ELSE CriteriaOf(q)
         /\ peersSubscribed' = peersSubscribed \cup {p}
         /\ stale' = stale \ {p}
<1> DEFINE A == CriteriaOf(p)
           before == IF p \in peersSubscribed THEN criteriaCount[p] ELSE 0
<1>1. \A q \in Peer : CriteriaOf(q)' = IF q = p THEN CriteriaOf(q) \cup criteria
                                       ELSE CriteriaOf(q)
  BY DEF CriteriaOf, addSubscription, Tables, TablesTypeOK
<1>2. /\ peersSubscribed' = peersSubscribed \cup {p} /\ stale' = stale \ {p}
      /\ criteriaCount' = [criteriaCount EXCEPT ![p] = before + Cardinality(criteria \ A)]
  BY DEF addSubscription
<1>3. IsFiniteSet(criteria) /\ IsFiniteSet(A) /\ IsFiniteSet(criteria \ A)
  BY FilterAssumption, FS_Subset, CriteriaFinite
<1>4. Cardinality(A) \in Nat /\ Cardinality(criteria \ A) \in Nat /\ before \in Nat
  BY <1>3, FS_CardinalityType DEF Tables, TablesTypeOK
<1>5. Cardinality(A) <= before
  BY <1>4, FS_EmptySet DEF Tables, CountCovers
<1>6. Cardinality(A \cup criteria) = Cardinality(A) + Cardinality(criteria \ A)
  <2>1. A \cup criteria = A \cup (criteria \ A) /\ A \cap (criteria \ A) = {}
    OBVIOUS
  <2>2. QED BY <1>3, <1>4, <2>1, FS_Union, FS_EmptySet
<1>7. TablesTypeOK'
  <2>1. subscriptions' \in [Criterion -> SUBSET Peer]
    BY DEF addSubscription, Tables, TablesTypeOK
  <2>2. QED BY <1>2, <1>4, <2>1 DEF Tables, TablesTypeOK
<1>8. CountCovers'
  <2>1. ASSUME NEW q \in Peer
        PROVE  /\ CriteriaOf(q)' # {} => q \in peersSubscribed'
               /\ Cardinality(CriteriaOf(q)') <= criteriaCount'[q]
               /\ q \notin peersSubscribed' => criteriaCount'[q] = 0
    <3>1. CASE q = p
      BY <1>1, <1>2, <1>4, <1>5, <1>6, <3>1 DEF Tables, TablesTypeOK
    <3>2. CASE q # p
      BY <1>1, <1>2, <3>2 DEF Tables, TablesTypeOK, CountCovers
    <3>3. QED BY <3>1, <3>2
  <2>2. QED BY <2>1 DEF CountCovers
<1>9. QED BY <1>1, <1>2, <1>7, <1>8 DEF Tables

\* removeSubscription keeps the tables consistent, never takes a count below
\* zero, and drops the peer's entry only with its last criterion.
LEMMA RemoveKeeps ==
  ASSUME Tables, NEW p \in peersSubscribed, NEW processed \in SUBSET Criterion,
         RemoveProcessed(p, processed)
  PROVE  /\ Tables'
         /\ \A q \in Peer : CriteriaOf(q)' = IF q = p THEN CriteriaOf(q) \ processed
                                             ELSE CriteriaOf(q)
         /\ peersSubscribed' \subseteq peersSubscribed
         /\ peersSubscribed \ {p} \subseteq peersSubscribed'
         /\ stale' = stale \ {p}
<1> DEFINE A == CriteriaOf(p)
           hit == processed \cap A
           left == criteriaCount[p] - Cardinality(hit)
           gone == hit # {} /\ left = 0
<1>0. p \in Peer
  BY DEF Tables, TablesTypeOK
<1>1. \A q \in Peer : CriteriaOf(q)' = IF q = p THEN CriteriaOf(q) \ processed
                                       ELSE CriteriaOf(q)
  BY DEF CriteriaOf, RemoveProcessed, Tables, TablesTypeOK
<1>2. /\ peersSubscribed' = IF gone THEN peersSubscribed \ {p} ELSE peersSubscribed
      /\ criteriaCount' = [criteriaCount EXCEPT ![p] = left]
      /\ stale' = stale \ {p}
  BY DEF RemoveProcessed
<1>3. IsFiniteSet(A) /\ IsFiniteSet(hit) /\ IsFiniteSet(A \ processed)
  BY CriteriaFinite, FS_Subset
<1>4. /\ Cardinality(A) \in Nat /\ Cardinality(hit) \in Nat
      /\ Cardinality(A \ processed) \in Nat /\ criteriaCount[p] \in Nat
  BY <1>0, <1>3, FS_CardinalityType DEF Tables, TablesTypeOK
<1>5. Cardinality(A) = Cardinality(hit) + Cardinality(A \ processed)
  <2>1. A = hit \cup (A \ processed) /\ hit \cap (A \ processed) = {}
    OBVIOUS
  <2>2. Cardinality(hit \cup (A \ processed))
          = Cardinality(hit) + Cardinality(A \ processed) - Cardinality(hit \cap (A \ processed))
    BY <1>3, FS_Union
  <2>3. Cardinality(hit \cap (A \ processed)) = 0
    BY <2>1, FS_EmptySet
  <2>4. Cardinality(A) = Cardinality(hit \cup (A \ processed))
    BY <2>1
  <2>5. QED BY <1>4, <2>2, <2>3, <2>4
<1>6. left \in Nat /\ Cardinality(A \ processed) <= left
  BY <1>0, <1>4, <1>5 DEF Tables, CountCovers
<1>7. gone => A \ processed = {}
  BY <1>3, <1>4, <1>6, FS_EmptySet
<1> HIDE DEF left, hit
<1>8. TablesTypeOK'
  <2>1. subscriptions' \in [Criterion -> SUBSET Peer]
    BY DEF RemoveProcessed, Tables, TablesTypeOK
  <2>2. QED BY <1>0, <1>2, <1>6, <2>1 DEF Tables, TablesTypeOK
<1>9. CountCovers'
  <2>1. ASSUME NEW q \in Peer
        PROVE  /\ CriteriaOf(q)' # {} => q \in peersSubscribed'
               /\ Cardinality(CriteriaOf(q)') <= criteriaCount'[q]
               /\ q \notin peersSubscribed' => criteriaCount'[q] = 0
    <3>1. CASE q = p
      <4>1. CriteriaOf(q)' = A \ processed /\ criteriaCount'[q] = left
        BY <1>1, <1>2, <3>1 DEF Tables, TablesTypeOK
      <4>2. QED BY <1>2, <1>6, <1>7, <3>1, <4>1
    <3>2. CASE q # p
      BY <1>1, <1>2, <3>2 DEF Tables, TablesTypeOK, CountCovers
    <3>3. QED BY <3>1, <3>2
  <2>2. QED BY <2>1 DEF CountCovers
<1>10. QED BY <1>1, <1>2, <1>8, <1>9 DEF Tables

\* cleanUp keeps the tables consistent even if deadlines pass while it runs:
\* a late peer may lose criteria its entry still counts, never the other way
\* round.
LEMMA CleanKeeps ==
  ASSUME Tables, NEW removed \in SUBSET Peer, NEW late, cleanUp(removed, late)
  PROVE  /\ Tables'
         /\ \A q \in Peer : CriteriaOf(q)' \subseteq CriteriaOf(q)
         /\ \A q \in Peer \ (removed \cup stale \cup late) : CriteriaOf(q)' = CriteriaOf(q)
                                              \/ q \notin peersSubscribed
         /\ \A q \in removed : CriteriaOf(q)' = {}
         /\ peersSubscribed' = peersSubscribed \ (removed \cup stale)
         /\ stale' = late
<1> DEFINE kept == peersSubscribed \ (removed \cup stale)
<1>1. late \in SUBSET kept
  BY FilterAssumption DEF cleanUp, Late
<1>2. PICK dropped \in [late -> SUBSET Criterion] : Cleaned(removed, late, dropped)
  BY DEF cleanUp
<1>3. /\ peersSubscribed' = kept /\ stale' = late
      /\ criteriaCount' = [p \in Peer |-> IF p \in kept THEN criteriaCount[p] ELSE 0]
      /\ subscriptions' = [c \in Criterion |->
           {p \in subscriptions[c] : p \in kept /\ (p \in late => c \notin dropped[p])}]
  BY <1>2 DEF Cleaned
<1>4. TablesTypeOK'
  BY <1>1, <1>3 DEF Tables, TablesTypeOK
<1>5. \A q \in Peer : CriteriaOf(q)' = {c \in CriteriaOf(q) :
                                          q \in kept /\ (q \in late => c \notin dropped[q])}
  BY <1>3 DEF CriteriaOf
<1>6. CountCovers'
  <2>1. ASSUME NEW q \in Peer
        PROVE  /\ CriteriaOf(q)' # {} => q \in peersSubscribed'
               /\ Cardinality(CriteriaOf(q)') <= criteriaCount'[q]
               /\ q \notin peersSubscribed' => criteriaCount'[q] = 0
    <3>1. CASE q \in kept
      <4>1. Cardinality(CriteriaOf(q)') <= Cardinality(CriteriaOf(q))
        <5>1. CriteriaOf(q)' \in SUBSET CriteriaOf(q) BY <1>5
        <5>2. QED BY <5>1, CriteriaFinite, FS_Subset
      <4>2. Cardinality(CriteriaOf(q)) <= criteriaCount[q] /\ criteriaCount[q] \in Nat
        BY DEF Tables, CountCovers, TablesTypeOK
      <4>3. QED BY <1>3, <3>1, <4>1, <4>2, CriteriaFinite
    <3>2. CASE q \notin kept
      <4>1. CriteriaOf(q)' = {} BY <1>5, <3>2
      <4>2. Cardinality(CriteriaOf(q)') = 0 BY <4>1, FS_EmptySet
      <4>3. QED BY <1>3, <3>2, <4>1, <4>2
    <3>3. QED BY <3>1, <3>2
  <2>2. QED BY <2>1 DEF CountCovers
<1>7. \A q \in Peer \ (removed \cup stale \cup late) : CriteriaOf(q)' = CriteriaOf(q)
                                                      \/ q \notin peersSubscribed
  BY <1>5
<1>8. \A q \in Peer : CriteriaOf(q)' \subseteq CriteriaOf(q)
  BY <1>5
<1>9. \A q \in removed : CriteriaOf(q)' = {}
  BY <1>5
<1>10. QED BY <1>3, <1>4, <1>6, <1>7, <1>8, <1>9 DEF Tables

\* The properties in terms of the criteria of a peer.
LEMMA Restated ==
  ASSUME TypeOK
  PROVE  /\ PromiseKept <=> \A p \in Peer, c \in Criterion : belief[p][c] = "yes" =>
                              c \in CriteriaOf(p) /\ p \in peersSubscribed \ stale
         /\ NothingUnwanted <=> \A p \in Peer, c \in Criterion :
                                  c \in CriteriaOf(p) => belief[p][c] # "no"
  BY DEF PromiseKept, NothingUnwanted, CriteriaOf, findSubscribedPeers, isSubscribed,
         TypeOK, TablesTypeOK

LEMMA RestatedPrimed ==
  ASSUME TypeOK'
  PROVE  /\ PromiseKept' <=> \A p \in Peer, c \in Criterion : belief'[p][c] = "yes" =>
                              c \in CriteriaOf(p)' /\ p \in peersSubscribed' \ stale'
         /\ NothingUnwanted' <=> \A p \in Peer, c \in Criterion :
                                  c \in CriteriaOf(p)' => belief'[p][c] # "no"
  BY DEF PromiseKept, NothingUnwanted, CriteriaOf, findSubscribedPeers, isSubscribed,
         TypeOK, TablesTypeOK

LEMMA BelievesFacts ==
  ASSUME TypeOK, NEW p \in Peer, NEW S, NEW From, NEW v \in All
  PROVE  /\ Believes(p, S, From, v) \in [Peer -> [Criterion -> All]]
         /\ \A q \in Peer, c \in Criterion :
              Believes(p, S, From, v)[q][c] =
                IF q = p /\ c \in S /\ belief[q][c] \in From THEN v ELSE belief[q][c]
  BY DEF TypeOK, Believes

LEMMA UnsureFacts ==
  ASSUME TypeOK, NEW peers
  PROVE  /\ Unsure(peers) \in [Peer -> [Criterion -> All]]
         /\ \A q \in Peer, c \in Criterion :
              Unsure(peers)[q][c] =
                IF q \in peers /\ belief[q][c] = "yes" THEN "maybe" ELSE belief[q][c]
  BY DEF TypeOK, Unsure, All

\* A peer with a criterion has an entry, so what is left of its criteria keeps
\* its entry.
LEMMA EntryOf ==
  ASSUME CountCovers
  PROVE  \A p \in Peer, c \in Criterion : c \in CriteriaOf(p) => p \in peersSubscribed
  BY DEF CountCovers

LEMMA EntryOfPrimed ==
  ASSUME CountCovers'
  PROVE  \A p \in Peer, c \in Criterion : c \in CriteriaOf(p)' => p \in peersSubscribed'
  BY DEF CountCovers

LEMMA SubscribeKeeps ==
  ASSUME FInv, NEW p \in Peer, NEW criteria \in Request, Subscribe(p, criteria)
  PROVE  FInv'
<1>1. /\ TypeOK /\ Tables /\ criteria \in SUBSET Criterion /\ criteria # {}
      /\ addSubscription(p, criteria)
  BY DEF FInv, TypeOK, Tables, Request, Subscribe
<1> DEFINE v == IF p \in peerStore THEN "yes" ELSE "maybe"
<1>2. /\ belief' = Believes(p, criteria, All, v) /\ v \in All /\ v # "no"
      /\ UNCHANGED <<running, messageCache, inFlight, peerStore>>
  BY DEF Subscribe, All
<1>a. v = "yes" => p \in peerStore
  OBVIOUS
<1> HIDE DEF v
<1>3. /\ Tables'
      /\ \A q \in Peer : CriteriaOf(q)' = IF q = p THEN CriteriaOf(q) \cup criteria
                                          ELSE CriteriaOf(q)
      /\ peersSubscribed' = peersSubscribed \cup {p}
      /\ stale' = stale \ {p}
  BY <1>1, AddKeeps
<1>4. /\ belief' \in [Peer -> [Criterion -> All]]
      /\ \A q \in Peer, c \in Criterion : belief'[q][c] =
           IF q = p /\ c \in criteria /\ belief[q][c] \in All THEN v ELSE belief[q][c]
  BY <1>1, <1>2, BelievesFacts
<1>5. TypeOK'
  BY <1>1, <1>2, <1>3, <1>4 DEF TypeOK, Tables
<1>6. PromiseKept' /\ NothingUnwanted'
  <2>1. \A q \in Peer, c \in Criterion : belief[q][c] \in All
    BY <1>1 DEF TypeOK
  <2>2. \A q \in Peer, c \in Criterion : belief'[q][c] = "yes" =>
                              c \in CriteriaOf(q)' /\ q \in peersSubscribed' \ stale'
    BY <1>1, <1>3, <1>4, <2>1, Restated DEF FInv
  <2>3. \A q \in Peer, c \in Criterion : c \in CriteriaOf(q)' => belief'[q][c] # "no"
    BY <1>1, <1>2, <1>3, <1>4, <2>1, Restated DEF FInv
  <2>4. QED BY <1>5, <2>2, <2>3, RestatedPrimed
<1>7. Listed'
  BY <1>2, <1>4, <1>a DEF FInv, Listed
<1>8. QED BY <1>3, <1>5, <1>6, <1>7 DEF FInv, Tables

\* The loop of removeSubscription, whether it ends with OK or with an error.
LEMMA RemovalKeeps ==
  ASSUME FInv, NEW p \in peersSubscribed, NEW criteria \in SUBSET Criterion,
         NEW processed \in SUBSET criteria, RemoveProcessed(p, processed),
         UNCHANGED <<running, messageCache, inFlight, peerStore>>,
         \/ belief' = Believes(p, criteria, All, "no") /\ processed = criteria
         \/ belief' = Believes(p, criteria, {"yes"}, "maybe")
  PROVE  FInv'
<1>1. TypeOK /\ Tables /\ p \in Peer /\ processed \in SUBSET Criterion
  BY DEF FInv, TypeOK, Tables, TablesTypeOK
<1>2. "no" \in All /\ "maybe" \in All
  BY DEF All
<1>3. /\ Tables'
      /\ \A q \in Peer : CriteriaOf(q)' = IF q = p THEN CriteriaOf(q) \ processed
                                          ELSE CriteriaOf(q)
      /\ peersSubscribed \ {p} \subseteq peersSubscribed'
      /\ stale' = stale \ {p}
  BY <1>1, RemoveKeeps
<1>4. /\ belief' \in [Peer -> [Criterion -> All]]
      /\ \A q \in Peer, c \in Criterion :
           /\ q # p \/ c \notin criteria => belief'[q][c] = belief[q][c]
           /\ q = p /\ c \in criteria =>
                /\ belief'[q][c] # "yes"
                /\ belief'[q][c] = "no" => belief[q][c] = "no" \/ processed = criteria
  <2>1. CASE belief' = Believes(p, criteria, All, "no") /\ processed = criteria
    <3>1. \A q \in Peer, c \in Criterion : belief[q][c] \in All
      BY <1>1 DEF TypeOK
    <3>2. /\ Believes(p, criteria, All, "no") \in [Peer -> [Criterion -> All]]
          /\ \A q \in Peer, c \in Criterion :
               Believes(p, criteria, All, "no")[q][c] =
                 IF q = p /\ c \in criteria /\ belief[q][c] \in All THEN "no" ELSE belief[q][c]
      BY <1>1, <1>2, BelievesFacts
    <3>3. QED BY <2>1, <3>1, <3>2
  <2>2. CASE belief' = Believes(p, criteria, {"yes"}, "maybe")
    <3>1. /\ Believes(p, criteria, {"yes"}, "maybe") \in [Peer -> [Criterion -> All]]
          /\ \A q \in Peer, c \in Criterion :
               Believes(p, criteria, {"yes"}, "maybe")[q][c] =
                 IF q = p /\ c \in criteria /\ belief[q][c] \in {"yes"}
                 THEN "maybe" ELSE belief[q][c]
      BY <1>1, <1>2, BelievesFacts
    <3>2. QED BY <2>2, <3>1
  <2>3. QED BY <2>1, <2>2
<1>5. TypeOK'
  BY <1>1, <1>3, <1>4 DEF TypeOK, Tables
<1>6. PromiseKept' /\ NothingUnwanted'
  <2>1. \A q \in Peer, c \in Criterion : belief'[q][c] = "yes" =>
                              c \in CriteriaOf(q)' /\ q \in peersSubscribed' \ stale'
    <3>1. ASSUME NEW q \in Peer, NEW c \in Criterion, belief'[q][c] = "yes"
          PROVE  c \in CriteriaOf(q)' /\ q \in peersSubscribed' \ stale'
      <4>1. belief[q][c] = "yes" /\ (q # p \/ c \notin criteria)
        BY <1>4, <3>1
      <4>2. c \in CriteriaOf(q) /\ q \in peersSubscribed \ stale
        BY <1>1, <4>1, Restated DEF FInv
      <4>3. c \in CriteriaOf(q)'
        BY <1>3, <4>1, <4>2
      <4>4. q \in peersSubscribed'
        BY <1>3, <4>3, EntryOfPrimed DEF Tables
      <4>5. QED BY <1>3, <4>2, <4>3, <4>4
    <3>2. QED BY <3>1
  <2>2. \A q \in Peer, c \in Criterion : c \in CriteriaOf(q)' => belief'[q][c] # "no"
    <3>1. ASSUME NEW q \in Peer, NEW c \in Criterion, c \in CriteriaOf(q)'
          PROVE  belief'[q][c] # "no"
      <4>1. c \in CriteriaOf(q) /\ (q = p => c \notin processed)
        BY <1>3, <3>1
      <4>2. belief[q][c] # "no"
        BY <1>1, <4>1, Restated DEF FInv
      <4>3. QED BY <1>4, <4>1, <4>2
    <3>2. QED BY <3>1
  <2>3. QED BY <1>5, <2>1, <2>2, RestatedPrimed
<1>7. Listed'
  BY <1>4 DEF FInv, Listed
<1>8. QED BY <1>3, <1>5, <1>6, <1>7 DEF FInv, Tables

\* A clean-up, of a peer that unsubscribes or in the maintenance loop.
LEMMA CleaningKeeps ==
  ASSUME FInv, NEW removed \in SUBSET peersSubscribed, NEW late, cleanUp(removed, late),
         running' \in BOOLEAN, UNCHANGED <<messageCache, inFlight, peerStore>>,
         belief' \in [Peer -> [Criterion -> All]],
         \A q \in Peer, c \in Criterion :
           /\ belief'[q][c] = "yes" => belief[q][c] = "yes" /\ q \notin removed \cup late
           /\ belief'[q][c] = "no" => belief[q][c] = "no" \/ q \in removed
  PROVE  FInv'
<1>1. TypeOK /\ Tables /\ removed \in SUBSET Peer
  BY DEF FInv, TypeOK, Tables, TablesTypeOK
<1>2. /\ Tables'
      /\ \A q \in Peer : CriteriaOf(q)' \subseteq CriteriaOf(q)
      /\ \A q \in Peer \ (removed \cup stale \cup late) : CriteriaOf(q)' = CriteriaOf(q)
                                           \/ q \notin peersSubscribed
      /\ \A q \in removed : CriteriaOf(q)' = {}
      /\ peersSubscribed' = peersSubscribed \ (removed \cup stale)
      /\ stale' = late
  BY <1>1, CleanKeeps
<1>3. TypeOK'
  BY <1>1, <1>2 DEF TypeOK, Tables
<1>4. \A q \in Peer, c \in Criterion : belief'[q][c] = "yes" =>
                            c \in CriteriaOf(q)' /\ q \in peersSubscribed' \ stale'
  <2>1. ASSUME NEW q \in Peer, NEW c \in Criterion, belief'[q][c] = "yes"
        PROVE  c \in CriteriaOf(q)' /\ q \in peersSubscribed' \ stale'
    <3>1. c \in CriteriaOf(q) /\ q \in peersSubscribed \ stale
      BY <1>1, <2>1, Restated DEF FInv
    <3>2. QED BY <1>2, <2>1, <3>1
  <2>2. QED BY <2>1
<1>5. \A q \in Peer, c \in Criterion : c \in CriteriaOf(q)' => belief'[q][c] # "no"
  BY <1>1, <1>2, Restated DEF FInv
<1>6. Listed'
  BY DEF FInv, Listed
<1>7. QED BY <1>2, <1>3, <1>4, <1>5, <1>6, RestatedPrimed DEF FInv, Tables

LEMMA FilterInit == Init => FInv
<1> SUFFICES ASSUME Init PROVE FInv OBVIOUS
<1>1. \A p \in Peer : CriteriaOf(p) = {}
  BY DEF Init, TablesInit, CriteriaOf
<1>2. TypeOK
  BY DEF Init, TablesInit, TypeOK, TablesTypeOK, All
<1>3. CountCovers
  BY <1>1, FS_EmptySet DEF Init, TablesInit, CountCovers
<1>4. PromiseKept /\ NothingUnwanted
  BY <1>1, <1>2, Restated DEF Init
<1>5. Listed
  BY DEF Init, Listed
<1>6. QED BY <1>2, <1>3, <1>4, <1>5 DEF FInv

LEMMA FilterNext == FInv /\ [Next]_vars => FInv'
<1> SUFFICES ASSUME FInv, [Next]_vars PROVE FInv' OBVIOUS
<1>0. TypeOK /\ Tables
  BY DEF FInv, TypeOK, Tables
<1>1. ASSUME NEW p \in Peer, NEW criteria \in Request, Subscribe(p, criteria) PROVE FInv'
  BY <1>1, SubscribeKeeps
<1>2. ASSUME NEW p \in Peer, NEW criteria \in Request,
             Unsubscribe(p, criteria) \/ UnsubscribeFails(p, criteria)
      PROVE  FInv'
  <2>1. criteria \in SUBSET Criterion /\ p \in peersSubscribed
    BY <1>2 DEF Request, Unsubscribe, UnsubscribeFails, removeSubscription,
                removeSubscriptionFails
  <2>2. PICK processed \in SUBSET criteria :
          /\ RemoveProcessed(p, processed)
          /\ \/ belief' = Believes(p, criteria, All, "no") /\ processed = criteria
             \/ belief' = Believes(p, criteria, {"yes"}, "maybe")
    BY <1>2 DEF Unsubscribe, UnsubscribeFails, removeSubscription, removeSubscriptionFails
  <2>3. UNCHANGED <<running, messageCache, inFlight, peerStore>>
    BY <1>2 DEF Unsubscribe, UnsubscribeFails
  <2>4. QED BY <2>1, <2>2, <2>3, RemovalKeeps
<1>3. ASSUME NEW p \in Peer, UnsubscribeAll(p) PROVE FInv'
  <2>1. PICK late \in Late({p}) :
          /\ cleanUp({p}, late)
          /\ belief' = [Unsure(late) EXCEPT ![p] = [c \in Criterion |-> "no"]]
    BY <1>3 DEF UnsubscribeAll
  <2>2. /\ {p} \in SUBSET peersSubscribed
        /\ running' \in BOOLEAN /\ UNCHANGED <<messageCache, inFlight, peerStore>>
    BY <1>0, <1>3 DEF UnsubscribeAll, isSubscribed, TypeOK
  <2>3. /\ Unsure(late) \in [Peer -> [Criterion -> All]]
        /\ \A q \in Peer, c \in Criterion :
             Unsure(late)[q][c] =
               IF q \in late /\ belief[q][c] = "yes" THEN "maybe" ELSE belief[q][c]
    BY <1>0, UnsureFacts
  <2>4. [c \in Criterion |-> "no"] \in [Criterion -> All]
    BY DEF All
  <2>5. /\ belief' \in [Peer -> [Criterion -> All]]
        /\ \A q \in Peer, c \in Criterion :
             belief'[q][c] = IF q = p THEN "no" ELSE Unsure(late)[q][c]
    BY <2>1, <2>3, <2>4
  <2>6. \A q \in Peer, c \in Criterion :
          /\ belief'[q][c] = "yes" => belief[q][c] = "yes" /\ q \notin {p} \cup late
          /\ belief'[q][c] = "no" => belief[q][c] = "no" \/ q \in {p}
    BY <2>3, <2>5
  <2>7. QED BY <2>1, <2>2, <2>5, <2>6, CleaningKeeps
<1>4. ASSUME NEW p \in Peer, Ping(p) PROVE FInv'
  <2>1. TypeOK' /\ \A q \in Peer : CriteriaOf(q)' = CriteriaOf(q)
    BY <1>0, <1>4 DEF Ping, refreshSubscription, TypeOK, TablesTypeOK, CriteriaOf
  <2>2. CountCovers'
    BY <1>4, <2>1 DEF Ping, FInv, CountCovers
  <2>3. PromiseKept' /\ NothingUnwanted'
    BY <1>0, <1>4, <2>1, Restated, RestatedPrimed DEF Ping, refreshSubscription, FInv
  <2>4. Listed'
    BY <1>4 DEF Ping, FInv, Listed
  <2>5. QED BY <2>1, <2>2, <2>3, <2>4 DEF FInv
<1>5. ASSUME NEW p \in Peer, NotFound(p) PROVE FInv'
  <2>1. "gone" \in All BY DEF All
  <2>2. /\ belief' \in [Peer -> [Criterion -> All]]
        /\ \A q \in Peer, c \in Criterion : belief'[q][c] =
             IF q = p /\ c \in Criterion /\ belief[q][c] \in {"yes", "maybe"}
             THEN "gone" ELSE belief[q][c]
    BY <1>0, <1>5, <2>1, BelievesFacts DEF NotFound
  <2>3. TypeOK' /\ CountCovers' /\ \A q \in Peer : CriteriaOf(q)' = CriteriaOf(q)
    BY <1>0, <1>5, <2>2 DEF NotFound, tableVars, TypeOK, TablesTypeOK, CriteriaOf, Tables,
                            CountCovers
  <2>4. PromiseKept' /\ NothingUnwanted'
    BY <1>0, <1>5, <2>2, <2>3, Restated, RestatedPrimed DEF NotFound, tableVars, FInv
  <2>5. Listed'
    BY <1>5, <2>2 DEF NotFound, FInv, Listed
  <2>6. QED BY <2>3, <2>4, <2>5 DEF FInv
<1>6. ASSUME maintainSubscriptions, running' \in BOOLEAN,
             UNCHANGED <<messageCache, inFlight, peerStore>>
      PROVE  FInv'
  <2> DEFINE removed == peersSubscribed \ peerStore
  <2>1. PICK late \in Late(removed) : cleanUp(removed, late) /\ belief' = Unsure(late)
    BY <1>6 DEF maintainSubscriptions
  <2>2. /\ belief' \in [Peer -> [Criterion -> All]]
        /\ \A q \in Peer, c \in Criterion :
             belief'[q][c] = IF q \in late /\ belief[q][c] = "yes"
                             THEN "maybe" ELSE belief[q][c]
    BY <1>0, <2>1, UnsureFacts
  <2>3. \A q \in Peer, c \in Criterion :
          /\ belief'[q][c] = "yes" => belief[q][c] = "yes" /\ q \notin removed \cup late
          /\ belief'[q][c] = "no" => belief[q][c] = "no" \/ q \in removed
    BY <2>2 DEF FInv, Listed
  <2>4. cleanUp(removed, late) /\ removed \in SUBSET peersSubscribed
    BY <2>1
  <2> HIDE DEF removed
  <2>5. QED BY <1>6, <2>2, <2>3, <2>4, CleaningKeeps
<1>7. ASSUME NEW p \in Peer, Lapse(p) PROVE FInv'
  <2>1. /\ belief' \in [Peer -> [Criterion -> All]]
        /\ \A q \in Peer, c \in Criterion :
             belief'[q][c] = IF q \in {p} /\ belief[q][c] = "yes" THEN "maybe" ELSE belief[q][c]
    BY <1>0, <1>7, UnsureFacts DEF Lapse
  <2>2. TypeOK' /\ CountCovers' /\ \A q \in Peer : CriteriaOf(q)' = CriteriaOf(q)
    BY <1>0, <1>7, <2>1 DEF Lapse, isSubscribed, TypeOK, TablesTypeOK, CriteriaOf, Tables,
                            CountCovers
  <2>3. PromiseKept' /\ NothingUnwanted'
    BY <1>0, <1>7, <2>1, <2>2, Restated, RestatedPrimed, ZenonT(40) DEF Lapse, FInv
  <2>4. Listed'
    BY <1>7, <2>1 DEF Lapse, FInv, Listed
  <2>5. QED BY <2>2, <2>3, <2>4 DEF FInv
<1>8. ASSUME UNCHANGED <<tableVars, belief>>, running' \in BOOLEAN,
             messageCache' \subseteq Message, inFlight' \subseteq Peer \X Message,
             peerStore \subseteq peerStore', peerStore' \subseteq Peer
      PROVE  FInv'
  <2>1. TypeOK' /\ CountCovers' /\ PromiseKept' /\ NothingUnwanted' /\ Listed'
    BY <1>0, <1>8 DEF tableVars, TypeOK, TablesTypeOK, FInv, CountCovers, CriteriaOf, Listed,
                      PromiseKept, NothingUnwanted, findSubscribedPeers, isSubscribed
  <2>2. QED BY <2>1 DEF FInv
<1>9. ASSUME NEW m \in Message, handleMessage(m) \/ CacheExpires(m) PROVE FInv'
  <2>1. findSubscribedPeers(CriterionOf[m]) \subseteq Peer
    BY <1>0, RequestAssumption DEF findSubscribedPeers, TypeOK, TablesTypeOK
  <2>2. QED BY <1>0, <1>8, <1>9, <2>1 DEF handleMessage, CacheExpires, TypeOK
<1>10. ASSUME NEW p \in Peer, NEW m \in Message, PushEnds(p, m) PROVE FInv'
  BY <1>0, <1>8, <1>10 DEF PushEnds, TypeOK
<1>11. ASSUME Stop \/ UNCHANGED vars PROVE FInv'
  BY <1>0, <1>8, <1>11 DEF Stop, vars, TypeOK
<1>12. ASSUME Start \/ Maintain PROVE FInv'
  BY <1>0, <1>6, <1>12 DEF Start, Maintain, TypeOK
<1>13. ASSUME NEW p \in Peer, PeerIdentified(p) PROVE FInv'
  BY <1>0, <1>8, <1>13 DEF PeerIdentified, TypeOK
<1>14. ASSUME NEW p \in Peer, PeerForgotten(p) PROVE FInv'
  <2>1. /\ belief' \in [Peer -> [Criterion -> All]]
        /\ \A q \in Peer, c \in Criterion :
             belief'[q][c] = IF q \in {p} /\ belief[q][c] = "yes" THEN "maybe" ELSE belief[q][c]
    BY <1>0, <1>14, UnsureFacts DEF PeerForgotten
  <2>2. TypeOK' /\ CountCovers' /\ \A q \in Peer : CriteriaOf(q)' = CriteriaOf(q)
    BY <1>0, <1>14, <2>1 DEF PeerForgotten, tableVars, TypeOK, TablesTypeOK, CriteriaOf, Tables,
                             CountCovers
  <2>3. PromiseKept' /\ NothingUnwanted'
    BY <1>0, <1>14, <2>1, <2>2, Restated, RestatedPrimed DEF PeerForgotten, tableVars, FInv
  <2>4. Listed'
    BY <1>14, <2>1 DEF PeerForgotten, FInv, Listed
  <2>5. QED BY <2>2, <2>3, <2>4 DEF FInv
<1>15. QED
  BY <1>1, <1>2, <1>3, <1>4, <1>5, <1>7, <1>9, <1>10, <1>11, <1>12, <1>13, <1>14 DEF Next

LEMMA AlwaysFInv == Spec => []FInv
  BY FilterInit, FilterNext, PTL DEF Spec

\* The types of the filter service's state, a count that is a natural number
\* included: criteriaCount never wraps around.
THEOREM FilterTypeCorrect == Spec => []TypeOK
  BY AlwaysFInv, PTL DEF FInv

\* The peers' table counts at least what the criteria's table holds.
THEOREM TablesConsistent == Spec => []CountCovers
  BY AlwaysFInv, PTL DEF FInv

\* An accepted subscription of a peer in the peer store is served until the
\* peer lapses, leaves the peer store or ends it: maintainSubscriptions and the
\* clean-ups of others take it from no other peer.
THEOREM PromisesAreKept == Spec => []PromiseKept
  BY AlwaysFInv, PTL DEF FInv

\* Nothing is kept for a peer that did not ask or has unsubscribed.
THEOREM NoUnwantedSubscription == Spec => []NothingUnwanted
  BY AlwaysFInv, PTL DEF FInv

\* The first copy of a message is pushed to all peers that can count on it.
THEOREM FirstCopyIsPushed == Spec => FirstCopyReachesAll
<1>1. ASSUME FInv, [Next]_vars, NEW m \in Message, m \notin messageCache, m \in messageCache',
             NEW p \in Peer, belief[p][CriterionOf[m]] = "yes"
      PROVE  <<p, m>> \in inFlight'
  <2>1. p \in findSubscribedPeers(CriterionOf[m])
    BY <1>1, RequestAssumption DEF FInv, PromiseKept
  <2>2. handleMessage(m)
    BY <1>1 DEF Next, vars, Subscribe, Unsubscribe, UnsubscribeFails, UnsubscribeAll, Ping,
                NotFound, Lapse, PeerIdentified, PeerForgotten, Start, Stop, Maintain, handleMessage, CacheExpires, PushEnds
  <2>3. QED BY <2>1, <2>2 DEF handleMessage
<1>2. FInv /\ [Next]_vars =>
        [\A m \in Message : (m \notin messageCache /\ m \in messageCache') =>
           \A p \in Peer : belief[p][CriterionOf[m]] = "yes" => <<p, m>> \in inFlight']_vars
  BY <1>1
<1>3. QED BY <1>2, AlwaysFInv, PTL DEF Spec, FirstCopyReachesAll

\* A new peer's first request is the only one that is not compared with
\* maxCriteriaPerPeer.
CountsWithinLimit ==
  \A p \in Peer : \/ criteriaCount[p] <= MaxCriteriaPerPeer
                  \/ criteriaCount[p] <= MaxContentTopicsPerRequest

\* The limits, as an inductive invariant: the count is within the limit, and
\* by CountCovers so are the criteria.
LEMMA LimitNext ==
  ASSUME FInv, PeersWithinLimit, CountsWithinLimit, [Next]_vars
  PROVE  PeersWithinLimit' /\ CountsWithinLimit'
<1> USE FilterAssumption, RequestAssumption
<1>0. TypeOK /\ Tables /\ TablesTypeOK
  BY DEF FInv, TypeOK, Tables
<1>1. IsFiniteSet(peersSubscribed) /\ Cardinality(peersSubscribed) \in Nat
  <2>1. peersSubscribed \in SUBSET Peer BY <1>0 DEF TablesTypeOK
  <2>2. QED BY <2>1, FS_Subset, FS_CardinalityType
<1>2. peersSubscribed' \subseteq peersSubscribed => PeersWithinLimit'
  <2>1. ASSUME peersSubscribed' \in SUBSET peersSubscribed PROVE PeersWithinLimit'
    <3>1. /\ IsFiniteSet(peersSubscribed')
          /\ Cardinality(peersSubscribed') <= Cardinality(peersSubscribed)
      BY <1>1, <2>1, FS_Subset
    <3>2. Cardinality(peersSubscribed') \in Nat
      BY <3>1, FS_CardinalityType
    <3>3. QED BY <1>1, <3>1, <3>2 DEF PeersWithinLimit
  <2>2. QED BY <2>1
<1>3. ASSUME NEW p \in Peer, NEW criteria \in Request, Subscribe(p, criteria)
      PROVE  PeersWithinLimit' /\ CountsWithinLimit'
  <2> DEFINE new == criteria \ CriteriaOf(p)
             before == IF p \in peersSubscribed THEN criteriaCount[p] ELSE 0
  <2>1. /\ criteria \in SUBSET Criterion /\ Cardinality(criteria) <= MaxContentTopicsPerRequest
        /\ addSubscription(p, criteria)
    BY <1>3 DEF Request, Subscribe
  <2>2. /\ ~AddRefused(p, criteria)
        /\ peersSubscribed' = peersSubscribed \cup {p}
        /\ criteriaCount' = [criteriaCount EXCEPT ![p] = before + Cardinality(new)]
    BY <2>1 DEF addSubscription
  <2>3. IsFiniteSet(criteria) /\ new \in SUBSET criteria
    BY <2>1, FS_Subset
  <2>4. /\ Cardinality(criteria) \in Nat /\ Cardinality(new) \in Nat
        /\ Cardinality(new) <= Cardinality(criteria)
    BY <2>3, FS_Subset, FS_CardinalityType
  <2> HIDE DEF new
  <2>5. PeersWithinLimit'
    <3>1. Cardinality(peersSubscribed \cup {p}) =
            IF p \in peersSubscribed THEN Cardinality(peersSubscribed)
                                     ELSE Cardinality(peersSubscribed) + 1
      BY <1>1, FS_AddElement
    <3>2. QED BY <1>1, <2>2, <3>1 DEF PeersWithinLimit, AddRefused
  <2>6. criteriaCount'[p] = before + Cardinality(new)
    BY <1>0, <2>2 DEF TablesTypeOK
  <2>7. \/ before + Cardinality(new) <= MaxCriteriaPerPeer
        \/ before + Cardinality(new) <= MaxContentTopicsPerRequest
    <3>1. criteriaCount[p] \in Nat BY <1>0 DEF TablesTypeOK
    <3>2. CASE p \in peersSubscribed
      BY <2>2, <2>4, <3>1, <3>2 DEF AddRefused
    <3>3. CASE p \notin peersSubscribed
      BY <2>1, <2>4, <3>3
    <3>4. QED BY <3>2, <3>3
  <2>8. CountsWithinLimit'
    BY <1>0, <2>2, <2>6, <2>7 DEF CountsWithinLimit, TablesTypeOK
  <2>9. QED BY <2>5, <2>8
<1>4. ASSUME NEW p \in Peer, NEW processed \in SUBSET Criterion, RemoveProcessed(p, processed)
      PROVE  PeersWithinLimit' /\ CountsWithinLimit'
  <2> DEFINE hit == processed \cap CriteriaOf(p)
  <2>1. Cardinality(hit) \in Nat
    <3>1. IsFiniteSet(hit) BY CriteriaFinite, FS_Subset
    <3>2. QED BY <3>1, FS_CardinalityType
  <2>2. /\ criteriaCount' = [criteriaCount EXCEPT ![p] = criteriaCount[p] - Cardinality(hit)]
        /\ peersSubscribed' \subseteq peersSubscribed
    BY <1>4 DEF RemoveProcessed
  <2> HIDE DEF hit
  <2>3. CountsWithinLimit'
    BY <1>0, <2>1, <2>2 DEF CountsWithinLimit, TablesTypeOK
  <2>4. QED BY <1>2, <2>2, <2>3
<1>5. ASSUME NEW removed, NEW late, cleanUp(removed, late)
      PROVE  PeersWithinLimit' /\ CountsWithinLimit'
  <2>1. /\ peersSubscribed' = peersSubscribed \ (removed \cup stale)
        /\ criteriaCount' = [p \in Peer |-> IF p \in peersSubscribed \ (removed \cup stale)
                                            THEN criteriaCount[p] ELSE 0]
    BY <1>5 DEF cleanUp, Cleaned
  <2>2. CountsWithinLimit'
    BY <2>1 DEF CountsWithinLimit
  <2>3. QED BY <1>2, <2>1, <2>2
<1>6. ASSUME UNCHANGED <<peersSubscribed, criteriaCount>>
      PROVE  PeersWithinLimit' /\ CountsWithinLimit'
  BY <1>6 DEF PeersWithinLimit, CountsWithinLimit
<1>7. ASSUME NEW p \in Peer, NEW criteria \in Request,
             Unsubscribe(p, criteria) \/ UnsubscribeFails(p, criteria)
      PROVE  PeersWithinLimit' /\ CountsWithinLimit'
  <2>1. PICK processed \in SUBSET criteria : RemoveProcessed(p, processed)
    BY <1>7 DEF Unsubscribe, UnsubscribeFails, removeSubscription, removeSubscriptionFails
  <2>2. processed \in SUBSET Criterion
    BY DEF Request
  <2>3. QED BY <1>4, <2>1, <2>2
<1>8. ASSUME NEW p \in Peer, UnsubscribeAll(p) PROVE PeersWithinLimit' /\ CountsWithinLimit'
  BY <1>5, <1>8 DEF UnsubscribeAll
<1>9. ASSUME Start \/ Maintain PROVE PeersWithinLimit' /\ CountsWithinLimit'
  BY <1>5, <1>9 DEF Start, Maintain, maintainSubscriptions
<1>10. ASSUME NEW p \in Peer, \/ Ping(p) \/ NotFound(p) \/ Lapse(p)
                             \/ PeerIdentified(p) \/ PeerForgotten(p)
       PROVE  PeersWithinLimit' /\ CountsWithinLimit'
  BY <1>6, <1>10 DEF Ping, NotFound, Lapse, PeerIdentified, PeerForgotten, tableVars
<1>11. ASSUME NEW m \in Message, handleMessage(m) \/ CacheExpires(m)
       PROVE  PeersWithinLimit' /\ CountsWithinLimit'
  BY <1>6, <1>11 DEF handleMessage, CacheExpires, tableVars
<1>12. ASSUME NEW p \in Peer, NEW m \in Message, PushEnds(p, m)
       PROVE  PeersWithinLimit' /\ CountsWithinLimit'
  BY <1>6, <1>12 DEF PushEnds, tableVars
<1>13. ASSUME Stop \/ UNCHANGED vars PROVE PeersWithinLimit' /\ CountsWithinLimit'
  BY <1>6, <1>13 DEF Stop, vars, tableVars
<1>14. QED
  BY <1>3, <1>7, <1>8, <1>9, <1>10, <1>11, <1>12, <1>13 DEF Next

\* Whatever the two limits are configured to, the service has no more peers
\* than maxPeers, and no peer more criteria than the larger of
\* maxCriteriaPerPeer and what one request may name: addSubscription compares
\* every request but a new peer's first one with the limit.
THEOREM LimitsHold == Spec => [](PeersWithinLimit /\ CriteriaWithinLimit)
<1>1. Init => PeersWithinLimit /\ CountsWithinLimit
  BY FilterAssumption, FS_EmptySet DEF Init, TablesInit, PeersWithinLimit, CountsWithinLimit
<1>2. FInv /\ PeersWithinLimit /\ CountsWithinLimit /\ [Next]_vars
        => PeersWithinLimit' /\ CountsWithinLimit'
  BY LimitNext
<1>3. FInv /\ CountsWithinLimit => CriteriaWithinLimit
  <2>1. ASSUME FInv, CountsWithinLimit, NEW p \in Peer
        PROVE  \/ Cardinality(CriteriaOf(p)) <= MaxCriteriaPerPeer
               \/ Cardinality(CriteriaOf(p)) <= MaxContentTopicsPerRequest
    <3>1. criteriaCount[p] \in Nat /\ Cardinality(CriteriaOf(p)) <= criteriaCount[p]
      BY <2>1 DEF FInv, TypeOK, TablesTypeOK, CountCovers
    <3>2. QED BY <2>1, <3>1, CriteriaFinite, FilterAssumption, RequestAssumption DEF CountsWithinLimit
  <2>2. QED BY <2>1 DEF CriteriaWithinLimit
<1>4. QED BY <1>1, <1>2, <1>3, AlwaysFInv, PTL DEF Spec

\* The limit on peers alone (isSubscribed, findSubscribedPeers, addSubscription's
\* SubscriptionLimits error).
THEOREM PeersLimitHolds == Spec => []PeersWithinLimit
<1>1. Spec => [](PeersWithinLimit /\ CriteriaWithinLimit) BY LimitsHold
<1>2. QED BY <1>1, PTL

\* The steps that keep every count exact if no deadline passes during cleanUp.
LEMMA ExactNext ==
  ASSUME ClockMoves = FALSE, FInv, CountIsExact, [Next]_vars
  PROVE  CountIsExact'
<1>0. TypeOK /\ Tables /\ TablesTypeOK
  BY DEF FInv, TypeOK, Tables
<1>1. ASSUME NEW p \in Peer, NEW criteria \in Request, Subscribe(p, criteria)
      PROVE  CountIsExact'
  <2> DEFINE new == criteria \ CriteriaOf(p)
             before == IF p \in peersSubscribed THEN criteriaCount[p] ELSE 0
  <2>1. criteria \in SUBSET Criterion /\ criteria # {} /\ addSubscription(p, criteria)
    BY <1>1 DEF Request, Subscribe
  <2>2. /\ \A q \in Peer : CriteriaOf(q)' = IF q = p THEN CriteriaOf(q) \cup criteria
                                            ELSE CriteriaOf(q)
        /\ criteriaCount' = [criteriaCount EXCEPT ![p] = before + Cardinality(new)]
    BY <1>0, <2>1, AddKeeps DEF addSubscription
  <2>3. before = Cardinality(CriteriaOf(p))
    BY DEF CountIsExact, CountCovers, FInv
  <2>4. Cardinality(CriteriaOf(p) \cup criteria) = Cardinality(CriteriaOf(p)) + Cardinality(new)
    <3>1. IsFiniteSet(new) /\ IsFiniteSet(CriteriaOf(p))
      BY <2>1, FilterAssumption, FS_Subset, CriteriaFinite
    <3>2. CriteriaOf(p) \cup criteria = CriteriaOf(p) \cup new /\ CriteriaOf(p) \cap new = {}
      OBVIOUS
    <3>3. Cardinality(CriteriaOf(p)) \in Nat /\ Cardinality(new) \in Nat
      BY <3>1, FS_CardinalityType
    <3> HIDE DEF new
    <3>4. QED BY <3>1, <3>2, <3>3, FS_Union, FS_EmptySet
  <2> HIDE DEF new, before
  <2>5. QED BY <1>0, <2>2, <2>3, <2>4 DEF CountIsExact, TablesTypeOK
<1>2. ASSUME NEW p \in peersSubscribed, NEW processed \in SUBSET Criterion,
             RemoveProcessed(p, processed)
      PROVE  CountIsExact'
  <2> DEFINE hit == processed \cap CriteriaOf(p)
             rest == CriteriaOf(p) \ processed
  <2>1. /\ \A q \in Peer : CriteriaOf(q)' = IF q = p THEN rest ELSE CriteriaOf(q)
        /\ criteriaCount' = [criteriaCount EXCEPT ![p] = criteriaCount[p] - Cardinality(hit)]
    <3>1. \A q \in Peer : CriteriaOf(q)' = IF q = p THEN rest ELSE CriteriaOf(q)
      BY <1>0, <1>2, RemoveKeeps
    <3>2. QED BY <1>2, <3>1 DEF RemoveProcessed
  <2>2. IsFiniteSet(hit) /\ IsFiniteSet(rest)
    BY CriteriaFinite, FS_Subset
  <2>3. Cardinality(hit) \in Nat /\ Cardinality(rest) \in Nat
    BY <2>2, FS_CardinalityType
  <2>4. CriteriaOf(p) = hit \cup rest /\ hit \cap rest = {}
    OBVIOUS
  <2> HIDE DEF hit, rest
  <2>5. Cardinality(CriteriaOf(p)) = Cardinality(hit) + Cardinality(rest)
    <3>1. Cardinality(hit \cup rest)
            = Cardinality(hit) + Cardinality(rest) - Cardinality(hit \cap rest)
      BY <2>2, FS_Union
    <3>2. Cardinality(hit \cap rest) = 0
      BY <2>4, FS_EmptySet
    <3>3. Cardinality(CriteriaOf(p)) = Cardinality(hit \cup rest)
      BY <2>4
    <3>4. QED BY <2>3, <3>1, <3>2, <3>3
  <2>6. QED BY <1>0, <2>1, <2>3, <2>5 DEF CountIsExact, TablesTypeOK
<1>3. ASSUME NEW removed, NEW late, cleanUp(removed, late)
      PROVE  CountIsExact'
  <2> DEFINE kept == peersSubscribed \ (removed \cup stale)
  <2>1. late = {}
    BY <1>3 DEF cleanUp, Late
  <2>2. PICK dropped : Cleaned(removed, late, dropped)
    BY <1>3 DEF cleanUp
  <2>3. \A q \in Peer : CriteriaOf(q)' = IF q \in kept THEN CriteriaOf(q) ELSE {}
    BY <1>0, <2>1, <2>2 DEF Cleaned, CriteriaOf
  <2>4. criteriaCount' = [p \in Peer |-> IF p \in kept THEN criteriaCount[p] ELSE 0]
    BY <2>2 DEF Cleaned
  <2>5. QED BY <2>3, <2>4, FS_EmptySet DEF CountIsExact
<1>4. ASSUME UNCHANGED <<subscriptions, criteriaCount>> PROVE CountIsExact'
  BY <1>4 DEF CountIsExact, CriteriaOf
<1>5. ASSUME NEW p \in Peer, NEW criteria \in Request,
             Unsubscribe(p, criteria) \/ UnsubscribeFails(p, criteria)
      PROVE  CountIsExact'
  <2>1. p \in peersSubscribed
    BY <1>5 DEF Unsubscribe, UnsubscribeFails, removeSubscription, removeSubscriptionFails
  <2>2. PICK processed \in SUBSET criteria : RemoveProcessed(p, processed)
    BY <1>5 DEF Unsubscribe, UnsubscribeFails, removeSubscription, removeSubscriptionFails
  <2>3. processed \in SUBSET Criterion
    BY DEF Request
  <2>4. QED BY <1>2, <2>1, <2>2, <2>3
<1>6. ASSUME NEW p \in Peer, UnsubscribeAll(p) PROVE CountIsExact'
  BY <1>3, <1>6 DEF UnsubscribeAll
<1>7. ASSUME Start \/ Maintain PROVE CountIsExact'
  BY <1>3, <1>7 DEF Start, Maintain, maintainSubscriptions
<1>8. ASSUME NEW p \in Peer, \/ Ping(p) \/ NotFound(p) \/ Lapse(p)
                            \/ PeerIdentified(p) \/ PeerForgotten(p)
      PROVE  CountIsExact'
  BY <1>4, <1>8 DEF Ping, refreshSubscription, NotFound, Lapse, PeerIdentified, PeerForgotten,
                    tableVars
<1>9. ASSUME NEW m \in Message, handleMessage(m) \/ CacheExpires(m) PROVE CountIsExact'
  BY <1>4, <1>9 DEF handleMessage, CacheExpires, tableVars
<1>10. ASSUME NEW p \in Peer, NEW m \in Message, PushEnds(p, m) PROVE CountIsExact'
  BY <1>4, <1>10 DEF PushEnds, tableVars
<1>11. ASSUME Stop \/ UNCHANGED vars PROVE CountIsExact'
  BY <1>4, <1>11 DEF Stop, vars, tableVars
<1>12. QED
  BY <1>1, <1>5, <1>6, <1>7, <1>8, <1>9, <1>10, <1>11 DEF Next

\* As long as no deadline passes between cleanUp's two reads of the clock, the
\* criteriaCount of every peer is the number of criteria it is subscribed to,
\* so that addSubscription compares the true number with its limit.
THEOREM CountStaysExact ==
  ASSUME ClockMoves = FALSE
  PROVE  Spec => []CountIsExact
<1>1. Init => CountIsExact
  <2>1. ASSUME Init PROVE \A p \in Peer : CriteriaOf(p) = {} /\ criteriaCount[p] = 0
    BY <2>1 DEF Init, TablesInit, CriteriaOf
  <2>2. QED BY <2>1, FS_EmptySet DEF CountIsExact
<1>2. FInv /\ CountIsExact /\ [Next]_vars => CountIsExact'
  BY ExactNext
<1>3. QED BY <1>1, <1>2, AlwaysFInv, PTL DEF Spec
==============================================================================
