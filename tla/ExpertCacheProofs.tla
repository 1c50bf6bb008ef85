------------------------- MODULE ExpertCacheProofs --------------------------
(***************************************************************************)
(* Proofs about the two expert caches, for every number of layers, experts *)
(* and slots.  In the cache of GLM-5.2 the labels of the slots stay        *)
(* honest, with_expert implements ExpertStore and the account of resident  *)
(* bytes is exact; the streamed cache of Gemma leaks no pin and keeps the  *)
(* most recent experts.                                                    *)
(***************************************************************************)
EXTENDS MCExpertCaches, FiniteSetTheorems, SequenceTheorems, WellFoundedInduction, TLAPS

\* What a call relies on between its steps.
CallTypes ==
    /\ tag \in [Layers -> [Slots -> Experts \cup {NoExpert}]]
    /\ value \in [Layers -> [Slots -> Experts \cup {NoExpert}]]
    /\ layer \in Layers
    /\ at \in Slots
    /\ pc \in {"idle", "acquire", "acquired"}
    /\ want \in Experts \cup {NoExpert}

CallInProgress ==
    /\ pc = "idle" <=> want = NoExpert
    /\ pc = "acquired" => tag[layer][at] = want

Inv ==
    /\ CallTypes
    /\ CallInProgress
    /\ LabelsHonest

\* The cache starts empty.
LEMMA InvInit == Init => Inv
<1> SUFFICES ASSUME Init PROVE Inv
  OBVIOUS
<1>1. 0 \in Slots
  BY SlotAssumption DEF Slots
<1>2. CallTypes
  BY <1>1 DEF Init, CallTypes
<1>3. CallInProgress /\ LabelsHonest
  BY DEF Init, CallInProgress, LabelsHonest
<1>4. QED
  BY <1>2, <1>3 DEF Inv

\* A miss replaces one slot, label and weights together, by an expert its layer lacks.
LEMMA LoadKeepsInv == ASSUME Inv, Load PROVE Inv'
<1>1. PICK s \in Slots :
         /\ Miss(s)
         /\ tag' = [tag EXCEPT ![layer][s] = want]
         /\ value' = [value EXCEPT ![layer][s] = want]
         /\ Acquired(s)
  BY DEF Load
<1>2. /\ want' = want /\ layer' = layer /\ at' = s /\ pc' = "acquired" /\ pc = "acquire"
      /\ \A t \in Slots : tag[layer][t] # want
  BY <1>1 DEF Load, Acquired, Miss
<1>3. CallTypes /\ CallInProgress /\ LabelsHonest
  BY DEF Inv
<1>4. want \in Experts /\ layer \in Layers
  BY <1>2, <1>3 DEF CallTypes, CallInProgress
<1>5. /\ tag'[layer][s] = want /\ value'[layer][s] = want
      /\ \A t \in Slots : t # s => /\ tag'[layer][t] = tag[layer][t]
                                   /\ value'[layer][t] = value[layer][t]
      /\ \A l \in Layers : l # layer => tag'[l] = tag[l] /\ value'[l] = value[l]
  BY <1>1, <1>3, <1>4 DEF CallTypes
<1>6. CallTypes'
  BY <1>1, <1>2, <1>3, <1>4 DEF CallTypes
<1>7. CallInProgress'
  BY <1>2, <1>4, <1>5, SlotAssumption DEF CallInProgress
<1>8. LabelsHonest'
  <2> SUFFICES ASSUME NEW l \in Layers, NEW a \in Slots, NEW b \in Slots
               PROVE  /\ value'[l][a] = tag'[l][a]
                      /\ tag'[l][a] = tag'[l][b] /\ tag'[l][a] # NoExpert => a = b
    BY DEF LabelsHonest
  <2>1. CASE l # layer
    BY <1>3, <1>5, <2>1 DEF LabelsHonest
  <2>2. CASE l = layer
    BY <1>2, <1>3, <1>5, <2>2 DEF LabelsHonest
  <2>3. QED
    BY <2>1, <2>2
<1>9. QED
  BY <1>6, <1>7, <1>8 DEF Inv

\* Every step keeps the invariant: only a completed load changes a slot.
LEMMA InvStep == Inv /\ [Next]_vars => Inv'
<1> SUFFICES ASSUME Inv, [Next]_vars PROVE Inv'
  OBVIOUS
<1>1. CASE Call
  <2>1. \/ pc' = "idle" /\ want' = NoExpert
        \/ pc' = "acquire" /\ want' \in Experts
    BY <1>1 DEF Call, Abort
  <2>2. layer' \in Layers /\ UNCHANGED <<tag, value, at>>
    BY <1>1 DEF Call, slotVars
  <2>3. QED
    BY <2>1, <2>2, SlotAssumption DEF Inv, CallTypes, CallInProgress, LabelsHonest
<1>2. CASE Hit
  <2>1. PICK s \in Slots : tag[layer][s] = want /\ at' = s /\ pc' = "acquired"
    BY <1>2 DEF Hit, Acquired
  <2>2. UNCHANGED <<tag, value, layer, want>> /\ pc = "acquire"
    BY <1>2 DEF Hit
  <2>3. QED
    BY <2>1, <2>2 DEF Inv, CallTypes, CallInProgress, LabelsHonest
<1>3. CASE Load
  BY <1>3, LoadKeepsInv
<1>4. CASE LoadFails \/ Use
  <2>1. pc' = "idle" /\ want' = NoExpert /\ UNCHANGED <<tag, value, layer, at>>
    BY <1>4 DEF LoadFails, Use, Abort, slotVars
  <2>2. QED
    BY <2>1 DEF Inv, CallTypes, CallInProgress, LabelsHonest
<1>5. CASE UNCHANGED vars
  BY <1>5 DEF vars, slotVars, Inv, CallTypes, CallInProgress, LabelsHonest
<1>6. QED
  BY <1>1, <1>2, <1>3, <1>4, <1>5 DEF Next

\* The invariant holds in every reachable state of the GLM expert cache.
THEOREM Invariance == Spec => []Inv
BY InvInit, InvStep, PTL DEF Spec

\* A slot always holds the expert its label names, and no layer holds an expert twice.
THEOREM LabelsStayHonest == Spec => []LabelsHonest
<1>1. Inv => LabelsHonest
  BY DEF Inv
<1>2. QED
  BY <1>1, Invariance, PTL

\* A call fails or serves exactly the expert that was requested.
THEOREM ImplementsStore == Spec => ServesRequested
<1>1. Init => Store!Init
  BY DEF Init, Store!Init
<1>2. Inv /\ [Next]_vars => [Store!Ask \/ Store!Fail \/ Store!Serve]_(Store!svars)
  <2> SUFFICES ASSUME Inv, [Next]_vars
               PROVE  \/ Store!Ask \/ Store!Fail \/ Store!Serve
                      \/ UNCHANGED Store!svars
    OBVIOUS
  <2>1. CASE Call
    BY <2>1 DEF Call, Abort, Inv, CallInProgress, Store!Ask, Store!Fail
  <2>2. CASE Hit \/ Load
    BY <2>2 DEF Hit, Load, Store!svars
  <2>3. CASE LoadFails
    BY <2>3 DEF LoadFails, Abort, Store!Fail
  <2>4. CASE Use
    <3>1. /\ value[layer][at] = want /\ want # NoExpert
      BY <2>4 DEF Use, Inv, CallTypes, CallInProgress, LabelsHonest
    <3>2. QED
      BY <2>4, <3>1 DEF Use, Store!Serve, Store!Fail
  <2>5. CASE UNCHANGED vars
    BY <2>5 DEF vars, Store!svars
  <2>6. QED
    BY <2>1, <2>2, <2>3, <2>4, <2>5 DEF Next
<1>3. QED
  BY <1>1, <1>2, Invariance, PTL DEF Spec, ServesRequested, Store!Spec-----------------------------------------------------------------------------
(***************************************************************************)
(* The streamed cache.  Which slot is the victim is decided on last_used,  *)
(* so the invariant ties the stamps to the order of acquisitions.          *)
(***************************************************************************)
StreamedTypes ==
    /\ sTag \in [Slots -> Experts \cup {NoExpert}]
    /\ sLast \in [Slots -> Nat]
    /\ sPinned \in [Slots -> BOOLEAN]
    /\ sClock \in Nat
    /\ sPc \in {"idle", "acquire", "acquired", "use"}
    /\ sAt \in Slots
    /\ sCalls \in Seq(Experts)
    /\ sPc \in {"acquire", "acquired"} => sWant \in Experts

\* Streamed!AcquiredAfter, of given acquisitions.
After(calls, e, f) ==
    \E i \in 1..Len(calls) : calls[i] = e /\ \A k \in i..Len(calls) : calls[k] # f

Held == {s \in Slots : sTag[s] # NoExpert}

\* No expert is held twice, and no two slots were last used at one time.
Distinct ==
    \A s, t \in Held : sTag[s] = sTag[t] \/ sLast[s] = sLast[t] => s = t

\* No stamp is ahead of the clock, and a later stamp means a later acquisition.
StampsFollowCalls ==
    /\ \A s \in Held : sLast[s] <= sClock
    /\ \A s, t \in Held : sLast[s] < sLast[t] => After(sCalls, sTag[t], sTag[s])

StreamedInv ==
    /\ StreamedTypes
    /\ PinsReleased
    /\ Distinct
    /\ StampsFollowCalls
    /\ ResidentsMostRecent
-----------------------------------------------------------------------------
\* A set of natural numbers has a minimum.
LEMMA HasMinimum ==
    ASSUME NEW S \in SUBSET Nat, S # {}
    PROVE  \E m \in S : \A x \in S : m <= x
<1>1. \A x, y \in Nat : x < y => <<x, y>> \in OpToRel(<, Nat)
  BY DEF OpToRel
<1>2. PICK m \in S : \A x \in S : ~ (<<x, m>> \in OpToRel(<, Nat))
  BY NatLessThanWellFounded, WFMin
<1>3. \A x \in S : ~ (x < m)
  BY <1>1, <1>2
<1>4. QED
  BY <1>3

\* Among any slots there is one that comes first: the oldest, of these the lowest.
LEMMA FirstSlot ==
    ASSUME NEW F \in SUBSET Slots, F # {}, sLast \in [Slots -> Nat]
    PROVE  \E s \in F : \A t \in F : sLast[s] < sLast[t] \/ (sLast[s] = sLast[t] /\ s <= t)
<1>1. Slots \in SUBSET Nat
  BY SlotAssumption DEF Slots
<1> DEFINE L == {sLast[s] : s \in F}
<1>2. L \in SUBSET Nat /\ L # {}
  OBVIOUS
<1>3. PICK m \in L : \A x \in L : m <= x
  BY <1>2, HasMinimum
<1> DEFINE I == {s \in F : sLast[s] = m}
<1>4. I \in SUBSET Nat /\ I # {}
  BY <1>1
<1>5. PICK s \in I : \A x \in I : s <= x
  BY <1>4, HasMinimum
<1>6. \A t \in F : m <= sLast[t] /\ m \in Nat /\ sLast[t] \in Nat
  BY <1>2, <1>3
<1>7. \A t \in F : sLast[s] < sLast[t] \/ (sLast[s] = sLast[t] /\ s <= t)
  BY <1>5, <1>6
<1>8. QED
  BY <1>5, <1>7

\* min_by_key finds a slot; it is empty, or the least recently used of them all.
LEMMA VictimFirst ==
    ASSUME StreamedTypes, NEW v, v = Streamed!VictimOf(sTag, sLast, Slots)
    PROVE  /\ v \in Slots
           /\ sTag[v] # NoExpert =>
                 \A t \in Slots : sTag[t] # NoExpert /\ sLast[v] <= sLast[t]
<1>1. sLast \in [Slots -> Nat]
  BY DEF StreamedTypes
<1>2. \E s \in Slots : \A t \in Slots : Streamed!Precedes(sTag, sLast, s, t)
  <2>1. CASE \E s \in Slots : sTag[s] = NoExpert
    <3> DEFINE F == {s \in Slots : sTag[s] = NoExpert}
    <3>1. PICK s \in F : \A t \in F : sLast[s] < sLast[t] \/ (sLast[s] = sLast[t] /\ s <= t)
      BY <1>1, <2>1, FirstSlot
    <3>2. QED
      BY <3>1 DEF Streamed!Precedes
  <2>2. CASE \A s \in Slots : sTag[s] # NoExpert
    <3>1. Slots # {}
      BY DEF StreamedTypes
    <3>2. PICK s \in Slots : \A t \in Slots : sLast[s] < sLast[t] \/ (sLast[s] = sLast[t] /\ s <= t)
      BY <1>1, <3>1, FirstSlot
    <3>3. QED
      BY <2>2, <3>2 DEF Streamed!Precedes
  <2>3. QED
    BY <2>1, <2>2
<1>3. v \in Slots /\ \A t \in Slots : Streamed!Precedes(sTag, sLast, v, t)
  BY <1>2 DEF Streamed!VictimOf
<1>4. ASSUME sTag[v] # NoExpert, NEW t \in Slots
      PROVE  sTag[t] # NoExpert /\ sLast[v] <= sLast[t]
  <2>1. /\ sTag[t] # NoExpert
        /\ sLast[v] < sLast[t] \/ sLast[v] = sLast[t]
    BY <1>3, <1>4 DEF Streamed!Precedes
  <2>2. sLast[v] \in Nat /\ sLast[t] \in Nat
    BY <1>1, <1>3
  <2>3. QED
    BY <2>1, <2>2
<1>5. QED
  BY <1>3, <1>4

\* An acquisition of another expert does not change which of two was acquired later.
LEMMA StillAfter ==
    ASSUME NEW calls \in Seq(Experts), NEW w \in Experts, NEW e, NEW f,
           f # w, After(calls, e, f)
    PROVE  After(Append(calls, w), e, f)
<1> DEFINE more == Append(calls, w)
<1>1. PICK i \in 1..Len(calls) : calls[i] = e /\ \A k \in i..Len(calls) : calls[k] # f
  BY DEF After
<1>2. /\ Len(more) = Len(calls) + 1 /\ more[Len(calls) + 1] = w
      /\ \A k \in 1..Len(calls) : more[k] = calls[k]
      /\ Len(calls) \in Nat
  OBVIOUS
<1> HIDE DEF more
<1>3. i \in 1..Len(more) /\ more[i] = e
  BY <1>1, <1>2
<1>4. ASSUME NEW k \in i..Len(more) PROVE more[k] # f
  <2>1. k = Len(calls) + 1 \/ (k \in i..Len(calls) /\ k \in 1..Len(calls))
    BY <1>2
  <2>2. QED
    BY <1>1, <1>2, <2>1
<1>5. After(more, e, f)
  BY <1>3, <1>4 DEF After
<1>6. QED
  BY <1>5 DEF more

\* The expert acquired last was acquired after every other.
LEMMA JustAcquired ==
    ASSUME NEW calls \in Seq(Experts), NEW w \in Experts, NEW f, f # w
    PROVE  After(Append(calls, w), w, f)
<1> DEFINE more == Append(calls, w)
<1>1. Len(more) = Len(calls) + 1 /\ more[Len(calls) + 1] = w /\ Len(calls) \in Nat
  OBVIOUS
<1> HIDE DEF more
<1>2. Len(more) \in 1..Len(more) /\ more[Len(more)] = w
  BY <1>1
<1>3. \A k \in Len(more)..Len(more) : more[k] # f
  BY <1>1
<1>4. After(more, w, f)
  BY <1>2, <1>3 DEF After
<1>5. QED
  BY <1>4 DEF more

\* What is resident and what is not, in these terms.
LEMMA Residents ==
    ASSUME NEW s \in Held, NEW e \in Experts, \A t \in Slots : sTag[t] # e,
           ResidentsMostRecent
    PROVE  After(sCalls, sTag[s], e)
BY DEF ResidentsMostRecent, Streamed!ResidentsMostRecent, Streamed!AcquiredAfter, After,
       Held, Streamed!Occupied, Streamed!Slots, Slots

\* A slot is acquired, with what it held or with another expert.  The stamps follow, if no
\* other slot holds the expert and what is evicted was acquired before all that stays.
LEMMA AcquireKeepsInv ==
    ASSUME StreamedInv, sPc = "acquire", NEW v \in Slots,
           sTag' = [sTag EXCEPT ![v] = sWant],
           sLast' = [sLast EXCEPT ![v] = sClock + 1],
           sClock' = sClock + 1, sAt' = v, sPc' = "acquired",
           sCalls' = Append(sCalls, sWant), UNCHANGED <<sPinned, sWant>>,
           \A t \in Held \ {v} : sTag[t] # sWant,
           sTag[v] \in Experts /\ sTag[v] # sWant =>
               \A t \in Held \ {v} : After(sCalls, sTag[t], sTag[v])
    PROVE  StreamedInv'
<1>1. /\ StreamedTypes /\ Distinct /\ StampsFollowCalls /\ PinsReleased /\ ResidentsMostRecent
      /\ sWant \in Experts /\ sWant # NoExpert /\ sCalls \in Seq(Experts) /\ sClock \in Nat
  BY SlotAssumption DEF StreamedInv, StreamedTypes
<1>2. StreamedTypes'
  BY <1>1 DEF StreamedTypes
<1>3. PinsReleased'
  BY <1>1 DEF PinsReleased, Streamed!PinsReleased
<1>4. /\ sTag'[v] = sWant /\ sLast'[v] = sClock + 1
      /\ \A t \in Slots \ {v} : sTag'[t] = sTag[t] /\ sLast'[t] = sLast[t]
      /\ Held' = Held \cup {v}
  BY <1>1 DEF Held, StreamedTypes
<1>5. \A t \in Held' \ {v} : /\ t \in Held /\ t \in Slots /\ sTag'[t] = sTag[t] /\ sTag[t] # sWant
                            /\ sLast'[t] = sLast[t]
                            /\ sLast'[t] <= sClock /\ sLast'[t] \in Nat
  BY <1>1, <1>4 DEF StampsFollowCalls, Held, StreamedTypes
<1>6. Distinct'
  <2> SUFFICES ASSUME NEW s \in Held', NEW t \in Held',
                      sTag'[s] = sTag'[t] \/ sLast'[s] = sLast'[t]
               PROVE  s = t
    BY DEF Distinct
  <2>1. CASE s = v /\ t = v
    BY <2>1
  <2>2. CASE s = v /\ t # v
    BY <1>1, <1>4, <1>5, <2>2
  <2>3. CASE s # v /\ t = v
    BY <1>1, <1>4, <1>5, <2>3
  <2>4. CASE s # v /\ t # v
    BY <1>1, <1>5, <2>4 DEF Distinct
  <2>5. QED
    BY <2>1, <2>2, <2>3, <2>4
<1>7. StampsFollowCalls'
  <2>1. \A s \in Held' : sLast'[s] <= sClock'
    BY <1>1, <1>4, <1>5
  <2>2. ASSUME NEW s \in Held', NEW t \in Held', sLast'[s] < sLast'[t]
        PROVE  After(sCalls', sTag'[t], sTag'[s])
    <3>1. s # v
      BY <1>1, <1>4, <1>5, <2>2
    <3>2. sTag'[s] = sTag[s] /\ sTag[s] # sWant /\ s \in Held
      BY <1>5, <3>1
    <3>3. CASE t = v
      BY <1>1, <1>4, <3>2, <3>3, JustAcquired
    <3>4. CASE t # v
      <4>1. t \in Held /\ sTag'[t] = sTag[t] /\ sLast[s] < sLast[t]
        BY <1>5, <2>2, <3>1, <3>4
      <4>2. After(sCalls, sTag[t], sTag[s])
        BY <1>1, <3>2, <4>1 DEF StampsFollowCalls
      <4>3. QED
        BY <1>1, <3>2, <4>1, <4>2, StillAfter
    <3>5. QED
      BY <3>3, <3>4
  <2>3. QED
    BY <2>1, <2>2 DEF StampsFollowCalls
<1>8. ASSUME NEW s \in Held', NEW e \in Experts, \A t \in Slots : sTag'[t] # e
      PROVE  After(sCalls', sTag'[s], e)
  <2>1. e # sWant
    BY <1>4, <1>8
  <2>2. CASE s = v
    BY <1>1, <1>4, <2>1, <2>2, JustAcquired
  <2>3. CASE s # v
    <3>1. s \in Held \ {v} /\ sTag'[s] = sTag[s]
      BY <1>5, <2>3
    <3>2. After(sCalls, sTag[s], e)
      <4>1. CASE sTag[v] = e
        BY <2>1, <3>1, <4>1
      <4>2. CASE sTag[v] # e
        <5>1. \A t \in Slots : sTag[t] # e
          BY <1>4, <1>8, <4>2
        <5>2. QED
          BY <1>1, <3>1, <5>1, Residents
      <4>3. QED
        BY <4>1, <4>2
    <3>3. QED
      BY <1>1, <2>1, <3>1, <3>2, StillAfter
  <2>4. QED
    BY <2>2, <2>3
<1>9. ResidentsMostRecent'
  BY <1>8
  DEF ResidentsMostRecent, Streamed!ResidentsMostRecent, Streamed!AcquiredAfter, After,
      Held, Streamed!Occupied, Streamed!Slots, Slots
<1>10. QED
  BY <1>2, <1>3, <1>6, <1>7, <1>9 DEF StreamedInv

\* A new cache.
LEMMA StreamedInit == Streamed!Init => StreamedInv
<1> SUFFICES ASSUME Streamed!Init PROVE StreamedInv
  OBVIOUS
<1>1. 0 \in Slots /\ Streamed!Slots = Slots
  BY SlotAssumption DEF Slots, Streamed!Slots
<1>2. StreamedTypes
  BY <1>1 DEF Streamed!Init, StreamedTypes
<1>3. Held = {} /\ Streamed!Occupied(sTag) = {}
  BY <1>1 DEF Streamed!Init, Held, Streamed!Occupied
<1>4. PinsReleased
  BY <1>1 DEF Streamed!Init, PinsReleased, Streamed!PinsReleased
<1>5. QED
  BY <1>2, <1>3, <1>4
  DEF StreamedInv, Distinct, StampsFollowCalls, ResidentsMostRecent, Streamed!ResidentsMostRecent

\* Steps that leave the labels and stamps alone.
LEMMA LabelsStay ==
    ASSUME StreamedInv, UNCHANGED <<sTag, sLast, sCalls>>, sClock' \in {sClock, sClock + 1},
           StreamedTypes', PinsReleased'
    PROVE  StreamedInv'
<1>1. Held' = Held
  BY DEF Held
<1>2. Distinct'
  BY <1>1 DEF StreamedInv, Distinct
<1>3. \A s \in Held : sLast[s] <= sClock /\ sLast[s] \in Nat /\ sClock \in Nat
  BY DEF StreamedInv, StreamedTypes, StampsFollowCalls, Held
<1>4. \A s \in Held : sLast[s] <= sClock'
  BY <1>3
<1>5. StampsFollowCalls'
  BY <1>1, <1>4 DEF StreamedInv, StampsFollowCalls
<1>6. ResidentsMostRecent'
  BY DEF StreamedInv, ResidentsMostRecent, Streamed!ResidentsMostRecent, Streamed!AcquiredAfter,
         Streamed!Occupied
<1>7. QED
  BY <1>2, <1>5, <1>6 DEF StreamedInv

\* Every step of the streamed cache keeps the invariant.
LEMMA StreamedStep ==
    StreamedInv /\ [Streamed!Next]_streamedVars => StreamedInv'
<1> SUFFICES ASSUME StreamedInv, [Streamed!Next]_streamedVars PROVE StreamedInv'
  OBVIOUS
<1>1. StreamedTypes /\ PinsReleased /\ Distinct /\ StampsFollowCalls
  BY DEF StreamedInv
<1>2. Streamed!Slots = Slots
  BY DEF Slots, Streamed!Slots
<1>3. sPc = "acquire" => \A s \in Slots : ~ sPinned[s]
  BY <1>1, <1>2 DEF PinsReleased, Streamed!PinsReleased
<1>4. CASE Streamed!Call
  <2>1. /\ UNCHANGED <<sTag, sLast, sPinned, sClock, sAt, sCalls>> /\ sPc = "idle"
        /\ \/ sPc' = "idle"
           \/ sPc' = "acquire" /\ sWant' \in Experts
    BY <1>4 DEF Streamed!Call, Streamed!Abort, Streamed!slotVars
  <2>2. StreamedTypes'
    BY <1>1, <2>1 DEF StreamedTypes
  <2>3. PinsReleased'
    BY <1>1, <2>1 DEF PinsReleased, Streamed!PinsReleased
  <2>4. QED
    BY <2>1, <2>2, <2>3, LabelsStay
<1>5. CASE Streamed!Hit
  <2>1. PICK v \in Slots : sTag[v] = sWant /\ Streamed!Acquired(v)
    BY <1>2, <1>5 DEF Streamed!Hit
  <2>2. sPc = "acquire" /\ UNCHANGED <<sTag, sPinned, sWant>>
    BY <1>5 DEF Streamed!Hit
  <2>3. sTag' = [sTag EXCEPT ![v] = sWant]
    BY <1>1, <2>1, <2>2 DEF StreamedTypes
  <2>4. v \in Held /\ \A t \in Held \ {v} : sTag[t] # sWant
    BY <1>1, <2>1, <2>2, SlotAssumption DEF StreamedTypes, Distinct, Held
  <2>5. QED
    BY <2>1, <2>2, <2>3, <2>4, AcquireKeepsInv DEF Streamed!Acquired
<1>6. CASE Streamed!Load
  <2>1. PICK v \in Slots : /\ Streamed!Miss(v) /\ sTag' = [sTag EXCEPT ![v] = sWant]
                           /\ Streamed!Acquired(v)
    BY <1>2, <1>6 DEF Streamed!Load
  <2>2. /\ sPc = "acquire" /\ UNCHANGED <<sPinned, sWant>>
        /\ \A t \in Slots : sTag[t] # sWant
        /\ v = Streamed!VictimOf(sTag, sLast, Streamed!Unpinned)
    BY <1>2, <1>6, <2>1 DEF Streamed!Load, Streamed!Miss
  <2>3. Streamed!Unpinned = Slots
    BY <1>2, <1>3, <2>2 DEF Streamed!Unpinned
  <2>4. sTag[v] # NoExpert => \A t \in Slots : sTag[t] # NoExpert /\ sLast[v] <= sLast[t]
    BY <1>1, <2>2, <2>3, VictimFirst
  <2>5. ASSUME sTag[v] \in Experts, NEW t \in Held \ {v}
        PROVE  After(sCalls, sTag[t], sTag[v])
    <3>1. v \in Held /\ t \in Held /\ t # v
      BY <2>1, <2>5, SlotAssumption DEF Held
    <3>2. sLast[v] <= sLast[t] /\ sLast[v] \in Nat /\ sLast[t] \in Nat
      BY <1>1, <2>4, <3>1 DEF Held, StreamedTypes
    <3>3. sLast[v] # sLast[t]
      BY <1>1, <3>1 DEF Distinct
    <3>4. sLast[v] < sLast[t]
      BY <3>2, <3>3
    <3>5. QED
      BY <1>1, <3>1, <3>4 DEF StampsFollowCalls
  <2>6. \A t \in Held \ {v} : sTag[t] # sWant
    BY <2>2 DEF Held
  <2>7. QED
    BY <2>1, <2>2, <2>5, <2>6, AcquireKeepsInv DEF Streamed!Acquired
<1>7. CASE Streamed!LoadFails
  <2>1. /\ sPc = "acquire" /\ sPc' = "idle" /\ sClock' = sClock + 1
        /\ UNCHANGED <<sTag, sLast, sPinned, sAt, sCalls>>
    BY <1>7 DEF Streamed!LoadFails, Streamed!Miss, Streamed!Abort
  <2>2. StreamedTypes'
    BY <1>1, <2>1 DEF StreamedTypes
  <2>3. PinsReleased'
    BY <1>1, <2>1 DEF PinsReleased, Streamed!PinsReleased
  <2>4. QED
    BY <2>1, <2>2, <2>3, LabelsStay
<1>8. CASE Streamed!Pin
  <2>1. /\ sPc = "acquired" /\ UNCHANGED <<sTag, sLast, sClock, sAt, sCalls>>
        /\ \/ sPc' = "idle" /\ sPinned' = sPinned
           \/ sPc' = "use" /\ sPinned' = [sPinned EXCEPT ![sAt] = TRUE]
    BY <1>8 DEF Streamed!Pin, Streamed!Abort, Streamed!slotVars
  <2>2. StreamedTypes'
    BY <1>1, <2>1 DEF StreamedTypes
  <2>3. PinsReleased'
    BY <1>1, <1>2, <2>1 DEF PinsReleased, Streamed!PinsReleased, StreamedTypes
  <2>4. QED
    BY <2>1, <2>2, <2>3, LabelsStay
<1>9. CASE Streamed!Use
  <2>1. /\ sPc = "use" /\ sPc' = "idle" /\ sPinned' = [sPinned EXCEPT ![sAt] = FALSE]
        /\ UNCHANGED <<sTag, sLast, sClock, sAt, sCalls>>
    BY <1>9 DEF Streamed!Use, Streamed!slotVars
  <2>2. StreamedTypes'
    BY <1>1, <2>1 DEF StreamedTypes
  <2>3. PinsReleased'
    BY <1>1, <1>2, <2>1 DEF PinsReleased, Streamed!PinsReleased, StreamedTypes
  <2>4. QED
    BY <2>1, <2>2, <2>3, LabelsStay
<1>10. CASE UNCHANGED streamedVars
  <2>1. UNCHANGED <<sTag, sLast, sPinned, sClock, sPc, sWant, sAt, sCalls>>
    BY <1>10 DEF streamedVars
  <2>2. StreamedTypes'
    BY <1>1, <2>1 DEF StreamedTypes
  <2>3. PinsReleased'
    BY <1>1, <2>1 DEF PinsReleased, Streamed!PinsReleased
  <2>4. QED
    BY <2>1, <2>2, <2>3, LabelsStay
<1>11. QED
  BY <1>4, <1>5, <1>6, <1>7, <1>8, <1>9, <1>10 DEF Streamed!Next

\* The invariant holds in every reachable state of the streamed cache.
THEOREM StreamedInvariance == EitherSpec => []StreamedInv
<1>1. EitherInit => StreamedInv
  BY StreamedInit DEF EitherInit
<1>2. StreamedInv /\ [GlmStep \/ GemmaStep]_<<architecture, vars, streamedVars>> => StreamedInv'
  BY StreamedStep DEF GlmStep, GemmaStep
<1>3. QED
  BY <1>1, <1>2, PTL DEF EitherSpec

\* No error path leaks a pin, so a miss always finds a slot.
THEOREM PinsAreReleased == EitherSpec => []PinsReleased
<1>1. StreamedInv => PinsReleased
  BY DEF StreamedInv
<1>2. QED
  BY <1>1, StreamedInvariance, PTL

\* What a layer holds was acquired after whatever it does not hold, although failed loads
\* advance the clock and tear the slot they were to fill.
THEOREM StreamedIsLru == EitherSpec => []ResidentsMostRecent
<1>1. StreamedInv => ResidentsMostRecent
  BY DEF StreamedInv
<1>2. QED
  BY <1>1, StreamedInvariance, PTL

-----------------------------------------------------------------------------
(***************************************************************************)
(* The account of resident bytes.  The sum over the slots is a fold over   *)
(* the subsets of the places, so what a replaced slot changes of it is     *)
(* shown by induction on their cardinality.                                *)
(***************************************************************************)
\* Induction over numbers, for a set that says what is to be shown of each.
LEMMA SetInduction ==
    ASSUME NEW S, 0 \in S, \A n \in Nat : n \in S => n + 1 \in S
    PROVE  Nat \subseteq S
<1> SUFFICES ASSUME Nat \ S # {} PROVE FALSE
  OBVIOUS
<1>1. PICK m \in Nat \ S : \A n \in Nat \ S : m <= n
  BY HasMinimum
<1>2. m # 0 /\ m - 1 \in Nat /\ m - 1 \in S
  BY <1>1
<1>3. QED
  BY <1>1, <1>2

Places == Layers \X Slots
Any(s) == CHOOSE place \in s : TRUE

Follows(g, sum) ==
    sum = [s \in SUBSET Places |-> IF s = {} THEN 0 ELSE g[Any(s)] + sum[s \ {Any(s)}]]

\* Every slot of every layer is one of finitely many places.
LEMMA FinitePlaces ==
    /\ IsFiniteSet(Places) /\ Cardinality(Places) \in Nat
    /\ \A s \in SUBSET Places :
          /\ Cardinality(s) \in Nat /\ Cardinality(s) <= Cardinality(Places)
          /\ Cardinality(s) = 0 <=> s = {}
          /\ s # {} => /\ Any(s) \in s /\ s \ {Any(s)} \in SUBSET Places
                       /\ Cardinality(s \ {Any(s)}) = Cardinality(s) - 1
<1>1. IsFiniteSet(Slots)
  BY FS_Interval, SlotAssumption DEF Slots
<1>2. IsFiniteSet(Places)
  BY <1>1, FS_Product, GlmCacheAssumption DEF Places
<1>3. Cardinality(Places) \in Nat
  BY <1>2, FS_CardinalityType
<1>4. ASSUME NEW s \in SUBSET Places
      PROVE  /\ IsFiniteSet(s) /\ Cardinality(s) \in Nat
             /\ Cardinality(s) <= Cardinality(Places) /\ (Cardinality(s) = 0 <=> s = {})
  BY <1>2, FS_Subset, FS_CardinalityType, FS_EmptySet
<1>5. ASSUME NEW s \in SUBSET Places, s # {}
      PROVE  /\ Any(s) \in s /\ s \ {Any(s)} \in SUBSET Places
             /\ Cardinality(s \ {Any(s)}) = Cardinality(s) - 1
  <2>1. Any(s) \in s
    BY <1>5 DEF Any
  <2>2. QED
    BY <1>4, <2>1, FS_RemoveElement
<1>6. QED
  BY <1>2, <1>3, <1>4, <1>5

\* There is a fold of the weights of the places.
LEMMA SumExists ==
    ASSUME NEW g \in [Places -> Nat]
    PROVE  \E sum \in [SUBSET Places -> Nat] : Follows(g, sum)
<1> DEFINE Upto(n) == {s \in SUBSET Places : Cardinality(s) <= n}
           Sums(n) == {sum \in [Upto(n) -> Nat] :
                         \A s \in Upto(n) :
                            sum[s] = IF s = {} THEN 0 ELSE g[Any(s)] + sum[s \ {Any(s)}]}
           K == {n \in Nat : Sums(n) # {}}
<1>1. 0 \in K
  <2>1. ASSUME NEW s \in Upto(0) PROVE s = {}
    <3>1. s \in SUBSET Places /\ Cardinality(s) <= 0
      OBVIOUS
    <3>2. Cardinality(s) \in Nat /\ (Cardinality(s) = 0 => s = {})
      BY <3>1, FinitePlaces
    <3> HIDE DEF Upto
    <3>3. QED
      BY <3>1, <3>2
  <2>2. [s \in Upto(0) |-> 0] \in Sums(0)
    BY <2>1
  <2>3. QED
    BY <2>2
<1>2. ASSUME NEW n \in Nat, n \in K PROVE n + 1 \in K
  <2>1. PICK sum : sum \in Sums(n)
    BY <1>2
  <2> DEFINE next == [s \in Upto(n + 1) |->
                        IF s = {} THEN 0 ELSE g[Any(s)] + sum[s \ {Any(s)}]]
  <2>2. ASSUME NEW s \in Upto(n + 1), s # {}
        PROVE  s \ {Any(s)} \in Upto(n) /\ g[Any(s)] \in Nat
    BY <2>2, FinitePlaces
  <2>3. \A s \in Upto(n) : next[s] = sum[s] /\ s \in Upto(n + 1)
    <3>1. SUFFICES ASSUME NEW s \in Upto(n) PROVE next[s] = sum[s] /\ s \in Upto(n + 1)
      OBVIOUS
    <3>2. s \in Upto(n + 1)
      <4>1. Cardinality(s) \in Nat
        BY FinitePlaces
      <4>2. QED
        BY <4>1
    <3>3. QED
      BY <2>1, <3>2
  <2>4. next \in [Upto(n + 1) -> Nat]
    BY <2>1, <2>2
  <2>5. next \in Sums(n + 1)
    BY <2>2, <2>3, <2>4
  <2> HIDE DEF Sums, next
  <2>6. QED
    BY <2>5
<1>3. Nat \subseteq K
  <2> HIDE DEF K
  <2>1. QED
    BY <1>1, <1>2, SetInduction
<1>4. PICK sum : sum \in Sums(Cardinality(Places))
  <2>1. Cardinality(Places) \in K
    BY <1>3, FinitePlaces
  <2> HIDE DEF Sums
  <2>2. QED
    BY <2>1
<1>5. Upto(Cardinality(Places)) = SUBSET Places
  BY FinitePlaces
<1>6. sum \in [SUBSET Places -> Nat] /\ Follows(g, sum)
  BY <1>4, <1>5 DEF Follows
<1>7. QED
  BY <1>6

IsWeights(g) == g \in [Places -> Nat]
IsSum(g, sum) == sum \in [SUBSET Places -> Nat] /\ Follows(g, sum)
SameElsewhere(g, h, p) == \A q \in Places : q # p => g[q] = h[q]

\* Of two folds whose weights differ at one place, one has the difference more where the
\* place is in the set.
LEMMA SumChanges ==
    ASSUME NEW g, NEW h, IsWeights(g), IsWeights(h), NEW p \in Places, SameElsewhere(g, h, p),
           NEW a, IsSum(g, a), NEW b, Follows(h, b)
    PROVE  b[Places] = a[Places] - g[p] + h[p]
<1> USE DEF IsWeights, IsSum, SameElsewhere
<1> DEFINE more(s) == IF p \in s THEN h[p] - g[p] ELSE 0
           K == {n \in Nat : \A s \in SUBSET Places :
                               Cardinality(s) = n => b[s] = a[s] + more(s)}
<1>1. 0 \in K
  <2>1. \A s \in SUBSET Places : Cardinality(s) = 0 => s = {}
    BY FinitePlaces
  <2>2. {} \in SUBSET Places /\ b[{}] = 0 /\ a[{}] = 0 /\ more({}) = 0
    BY DEF Follows
  <2>3. ASSUME NEW s \in SUBSET Places, Cardinality(s) = 0 PROVE b[s] = a[s] + more(s)
    <3>1. s = {} /\ b[{}] = a[{}] + more({})
      BY <2>1, <2>2, <2>3
    <3> HIDE DEF more
    <3>2. QED
      BY <3>1
  <2> HIDE DEF more
  <2>4. QED
    BY <2>3
<1>2. ASSUME NEW n \in Nat, n \in K PROVE n + 1 \in K
  <2> SUFFICES ASSUME NEW s \in SUBSET Places, Cardinality(s) = n + 1
               PROVE  b[s] = a[s] + more(s)
    OBVIOUS
  <2> DEFINE x == Any(s)  t == s \ {Any(s)}
  <2>1. s # {} /\ x \in s /\ t \in SUBSET Places /\ Cardinality(t) = n
    BY FinitePlaces
  <2>2. b[s] = h[x] + b[t] /\ a[s] = g[x] + a[t]
    BY <2>1 DEF Follows
  <2>3. b[t] = a[t] + more(t)
    BY <1>2, <2>1
  <2>4. more(s) = more(t) + (h[x] - g[x])
    <3>1. CASE x = p
      BY <2>1, <3>1
    <3>2. CASE x # p
      BY <2>1, <3>2
    <3>3. QED
      BY <3>1, <3>2
  <2>5. a[t] \in Nat /\ g[x] \in Nat /\ h[x] \in Nat /\ more(t) \in Int
    BY <2>1
  <2> HIDE DEF x, t, more
  <2>6. QED
    BY <2>2, <2>3, <2>4, <2>5
<1>3. Nat \subseteq K
  <2> HIDE DEF K
  <2>1. QED
    BY <1>1, <1>2, SetInduction
<1>4. b[Places] = a[Places] + more(Places)
  BY <1>3, FinitePlaces
<1>5. QED
  BY <1>4

Tables == [Layers -> [Slots -> Experts \cup {NoExpert}]]
Total(held) == MapThenSumSet(LAMBDA ls : Bytes(held[ls[1]][ls[2]]), Layers \X Slots)
Weights(held) == [p \in Places |-> Bytes(held[p[1]][p[2]])]

\* The total is such a fold.
LEMMA TotalFolds ==
    ASSUME NEW held \in Tables
    PROVE  /\ Weights(held) \in [Places -> Nat]
           /\ \E sum : Follows(Weights(held), sum) /\ Total(held) = sum[Places]
<1> DEFINE g == Weights(held)
           body(f) == [s \in SUBSET Places |->
                         IF s = {} THEN 0
                         ELSE Bytes(held[Any(s)[1]][Any(s)[2]]) + f[s \ {Any(s)}]]
           iter == CHOOSE f : f = body(f)
<1>1. g \in [Places -> Nat]
  BY GlmCacheAssumption DEF Weights, Places, Tables, Bytes
<1>2. \A f : body(f) = [s \in SUBSET Places |-> IF s = {} THEN 0 ELSE g[Any(s)] + f[s \ {Any(s)}]]
  BY FinitePlaces DEF Weights
<1>3. iter = body(iter)
  <2>1. PICK sum : Follows(g, sum)
    BY <1>1, SumExists
  <2>2. sum = body(sum)
    BY <1>2, <2>1 DEF Follows
  <2> HIDE DEF body
  <2>3. QED
    BY <2>2
<1>4. Total(held) = iter[Places]
  BY DEF Total, MapThenSumSet, MapThenFoldSet, Places, Any
<1> HIDE DEF iter, body, g
<1>5. Follows(g, iter)
  BY <1>2, <1>3 DEF Follows
<1>6. QED
  BY <1>1, <1>4, <1>5 DEF g

\* Putting an expert into a slot changes the total by what it weighs and what it replaces.
LEMMA TotalChanges ==
    ASSUME NEW held \in Tables, NEW l \in Layers, NEW s \in Slots, NEW e \in Experts
    PROVE  /\ Total(held) \in Nat
           /\ Total([held EXCEPT ![l][s] = e]) = (Total(held) - Bytes(held[l][s])) + Size[e]
<1> DEFINE after == [held EXCEPT ![l][s] = e]
           p == <<l, s>>   g == Weights(held)   h == Weights(after)
<1>1. after \in Tables /\ p \in Places
  BY DEF Tables, Places
<1>2. g[p] = Bytes(held[l][s]) /\ h[p] = Size[e]
  <2>1. after[l][s] = e
    BY DEF Tables
  <2>2. Bytes(e) = Size[e]
    BY SlotAssumption DEF Bytes
  <2> HIDE DEF after
  <2>3. QED
    BY <1>1, <2>1, <2>2 DEF Weights
<1>3. ASSUME NEW q \in Places, q # p PROVE g[q] = h[q]
  <2>1. q[1] \in Layers /\ q[2] \in Slots /\ q = <<q[1], q[2]>>
    BY DEF Places
  <2>2. held[q[1]][q[2]] = after[q[1]][q[2]]
    BY <1>3, <2>1 DEF Tables
  <2> HIDE DEF after
  <2>3. QED
    BY <2>2 DEF Weights
<1> HIDE DEF after
<1>4. PICK a : Follows(g, a) /\ Total(held) = a[Places] /\ g \in [Places -> Nat]
  BY TotalFolds
<1>5. PICK b : Follows(h, b) /\ Total(after) = b[Places] /\ h \in [Places -> Nat]
  BY <1>1, TotalFolds
<1> HIDE DEF g, h, p
<1>6. PICK sum \in [SUBSET Places -> Nat] : Follows(g, sum)
  BY <1>4, SumExists
<1>7. IsWeights(g) /\ IsWeights(h) /\ IsSum(g, sum) /\ SameElsewhere(g, h, p) /\ SameElsewhere(g, g, p)
  BY <1>3, <1>4, <1>5, <1>6 DEF IsWeights, IsSum, SameElsewhere
<1>8. a[Places] = sum[Places] /\ sum[Places] \in Nat
  <2>2. a[Places] = sum[Places] - g[p] + g[p]
    BY <1>1, <1>4, <1>7, SumChanges
  <2>3. sum[Places] \in Nat /\ g[p] \in Nat
    BY <1>1, <1>4
  <2>4. QED
    BY <2>2, <2>3
<1>9. b[Places] = sum[Places] - g[p] + h[p]
  BY <1>1, <1>5, <1>7, SumChanges
<1>10. QED
  BY <1>2, <1>4, <1>5, <1>8, <1>9 DEF after

\* An empty cache holds nothing.
LEMMA TotalOfNothing ==
    ASSUME NEW held \in Tables, \A l \in Layers, s \in Slots : held[l][s] = NoExpert
    PROVE  Total(held) = 0
<1> DEFINE g == Weights(held)
<1>1. g \in [Places -> Nat] /\ \A p \in Places : g[p] = 0
  <2>1. \A p \in Places : g[p] = 0
    BY DEF Weights, Places, Bytes
  <2>2. QED
    BY <2>1, TotalFolds
<1>2. PICK sum : Follows(g, sum) /\ Total(held) = sum[Places]
  BY TotalFolds
<1> HIDE DEF g
<1> DEFINE K == {n \in Nat : \A s \in SUBSET Places : Cardinality(s) = n => sum[s] = 0}
<1>3. 0 \in K
  <2>1. \A s \in SUBSET Places : Cardinality(s) = 0 => s = {}
    BY FinitePlaces
  <2>2. {} \in SUBSET Places /\ sum[{}] = 0
    BY <1>2 DEF Follows
  <2>3. ASSUME NEW s \in SUBSET Places, Cardinality(s) = 0 PROVE sum[s] = 0
    BY <2>1, <2>2, <2>3
  <2>4. QED
    BY <2>3
<1>4. ASSUME NEW n \in Nat, n \in K PROVE n + 1 \in K
  <2> SUFFICES ASSUME NEW s \in SUBSET Places, Cardinality(s) = n + 1 PROVE sum[s] = 0
    OBVIOUS
  <2> DEFINE x == Any(s)  t == s \ {Any(s)}
  <2>1. s # {} /\ x \in s /\ t \in SUBSET Places /\ Cardinality(t) = n
    BY FinitePlaces
  <2>2. sum[s] = g[x] + sum[t]
    BY <1>2, <2>1 DEF Follows
  <2>3. sum[t] = 0 /\ g[x] = 0
    BY <1>1, <1>4, <2>1
  <2> HIDE DEF x, t
  <2>4. QED
    BY <2>2, <2>3
<1>5. Nat \subseteq K
  <2> HIDE DEF K
  <2>1. QED
    BY <1>3, <1>4, SetInduction
<1>6. QED
  BY <1>2, <1>5, FinitePlaces

\* What the run checks, of this step and of the next.
LEMMA ExactIs ==
    /\ ResidentBytesExact <=> resident = Total(value)
    /\ ResidentBytesExact' <=> resident' = Total(value')
<1>1. ResidentBytesExact <=> resident = Total(value)
  BY DEF ResidentBytesExact, Total
<1>2. ResidentBytesExact' <=> resident' = Total(value)'
  BY DEF ResidentBytesExact, Total
<1>3. QED
  BY <1>1, <1>2

\* The account and the table agree.
Accounting == Inv /\ ResidentBytesExact

LEMMA AccountingStep == Accounting /\ [Next]_vars => Accounting'
<1> SUFFICES ASSUME Accounting, [Next]_vars PROVE Accounting'
  OBVIOUS
<1>1. Inv /\ Inv' /\ resident = Total(value) /\ value \in Tables
  BY InvStep DEF Accounting, ResidentBytesExact, Total, Inv, CallTypes, Tables
<1>2. CASE Load
  <2>1. PICK s \in Slots :
           /\ Miss(s)
           /\ resident' = (resident - Bytes(value[layer][s])) + Size[want]
           /\ value' = [value EXCEPT ![layer][s] = want]
    BY <1>2 DEF Load
  <2>2. layer \in Layers /\ want \in Experts
    BY <1>1, <2>1 DEF Miss, Inv, CallTypes, CallInProgress
  <2>3. Total(value') = (Total(value) - Bytes(value[layer][s])) + Size[want]
    BY <1>1, <2>1, <2>2, TotalChanges
  <2>4. resident' = Total(value')
    BY <1>1, <2>1, <2>3
  <2>5. QED
    BY <1>1, <2>4, ExactIs DEF Accounting
<1>3. CASE ~ Load
  <2>1. resident' = resident /\ value' = value
    BY <1>3 DEF Next, Call, Hit, LoadFails, Use, vars, slotVars
  <2>2. resident' = Total(value')
    BY <1>1, <2>1
  <2>3. QED
    BY <1>1, <2>2, ExactIs DEF Accounting
<1>4. QED
  BY <1>2, <1>3

\* The account of the GLM-5.2 cache, kept by adding and subtracting, is at any time what the
\* slots of all layers hold: no failed or cancelled load and no eviction leaves it off.
THEOREM AccountIsExact == Spec => []ResidentBytesExact
<1>1. Init => Accounting
  <2> SUFFICES ASSUME Init PROVE Accounting
    OBVIOUS
  <2>1. Inv
    BY InvInit
  <2>2. /\ value \in Tables /\ resident = 0
        /\ \A l \in Layers, s \in Slots : value[l][s] = NoExpert
    BY DEF Init, Tables
  <2>3. QED
    BY <2>1, <2>2, TotalOfNothing DEF Accounting, ResidentBytesExact, Total
<1>2. Accounting => ResidentBytesExact
  BY DEF Accounting
<1>3. QED
  BY <1>1, <1>2, AccountingStep, PTL DEF Spec
=============================================================================
