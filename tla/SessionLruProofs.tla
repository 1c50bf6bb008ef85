-------------------------- MODULE SessionLruProofs --------------------------
(***************************************************************************)
(* What the operators of SessionLru do to a pool, for every set of session *)
(* names and every limit.  Used by the proofs about SessionPool and about  *)
(* the scheduler.                                                          *)
(***************************************************************************)
EXTENDS SessionLru, FiniteSetTheorems, TLAPS

\* The resident sessions of a pool can be counted.
LEMMA ResidentFinite ==
    ASSUME NEW pool
    PROVE  IsFiniteSet(Resident(pool)) /\ Cardinality(Resident(pool)) \in Nat
<1>1. Resident(pool) \in SUBSET SessionIds
  BY DEF Resident
<1>2. IsFiniteSet(Resident(pool))
  BY <1>1, SessionLruAssumption, FS_Subset
<1>3. QED
  BY <1>2, FS_CardinalityType

\* An evicted pool differs from the full one in the session it lost, which is the oldest.
LEMMA EvictionShape ==
    ASSUME NEW pool \in Pools, NEW left \in AfterEviction(pool)
    PROVE  /\ left \in Pools
           /\ \/ left = pool /\ ~Full(pool)
              \/ \E v \in Oldest(pool) :
                    /\ left = [pool EXCEPT ![v] = 0]
                    /\ Resident(left) = Resident(pool) \ {v}
<1>1. CASE Full(pool)
  <2>1. PICK v \in Oldest(pool) : left = [pool EXCEPT ![v] = 0]
    BY <1>1 DEF AfterEviction
  <2>2. v \in SessionIds
    BY DEF Oldest, Resident
  <2>3. Resident(left) = Resident(pool) \ {v}
    BY <2>1, <2>2 DEF Resident, Pools
  <2>4. QED
    BY <2>1, <2>2, <2>3 DEF Pools
<1>2. CASE ~Full(pool)
  BY <1>2 DEF AfterEviction
<1>3. QED
  BY <1>1, <1>2

\* Making room leaves place for one session, as long as the limit was kept before.
LEMMA EvictionMakesRoom ==
    ASSUME NEW pool \in Pools, Cardinality(Resident(pool)) <= MaxSess,
           NEW left \in AfterEviction(pool)
    PROVE  Cardinality(Resident(left)) < MaxSess
<1>1. Cardinality(Resident(pool)) \in Nat /\ IsFiniteSet(Resident(pool)) /\ MaxSess \in Nat \ {0}
  BY ResidentFinite, SessionLruAssumption
<1>2. CASE left = pool /\ ~Full(pool)
  BY <1>1, <1>2 DEF Full
<1>3. CASE \E v \in Oldest(pool) : Resident(left) = Resident(pool) \ {v}
  <2>1. PICK v \in Oldest(pool) : Resident(left) = Resident(pool) \ {v}
    BY <1>3
  <2>2. v \in Resident(pool)
    BY DEF Oldest
  <2>3. Cardinality(Resident(left)) = Cardinality(Resident(pool)) - 1
    BY <1>1, <2>1, <2>2, FS_RemoveElement
  <2>4. QED
    BY <1>1, <2>3
<1>4. QED
  BY <1>2, <1>3, EvictionShape

\* Touch makes its session resident and changes nothing else.
LEMMA TouchResident ==
    ASSUME NEW pool \in Pools, NEW s \in SessionIds, NEW now \in Nat \ {0}
    PROVE  /\ Touch(pool, s, now) \in Pools
           /\ Resident(Touch(pool, s, now)) = Resident(pool) \cup {s}
BY DEF Touch, Pools, Resident

\* Serving a session keeps the limit: a resident one costs nothing, a new one takes the
\* room that eviction made.
LEMMA TouchBounded ==
    ASSUME NEW pool \in Pools, NEW s \in SessionIds, NEW now \in Nat \ {0},
           \/ s \in Resident(pool) /\ Cardinality(Resident(pool)) <= MaxSess
           \/ Cardinality(Resident(pool)) < MaxSess
    PROVE  Cardinality(Resident(Touch(pool, s, now))) <= MaxSess
<1>1. Cardinality(Resident(pool)) \in Nat /\ IsFiniteSet(Resident(pool)) /\ MaxSess \in Nat \ {0}
  BY ResidentFinite, SessionLruAssumption
<1>2. Cardinality(Resident(pool) \cup {s}) =
        IF s \in Resident(pool) THEN Cardinality(Resident(pool))
                                ELSE Cardinality(Resident(pool)) + 1
  BY <1>1, FS_AddElement
<1>3. Cardinality(Resident(pool) \cup {s}) <= MaxSess
  <2>1. CASE s \in Resident(pool) /\ Cardinality(Resident(pool)) <= MaxSess
    BY <1>1, <1>2, <2>1
  <2>2. CASE Cardinality(Resident(pool)) < MaxSess
    BY <1>1, <1>2, <2>2
  <2>3. QED
    BY <2>1, <2>2
<1>4. QED
  BY <1>3, TouchResident
=============================================================================
