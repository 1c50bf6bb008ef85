----------------------------- MODULE SessionLru -----------------------------
(***************************************************************************)
(* The residency rule of run_model_worker (src/runtime.rs): the map from   *)
(* session name to ResidentSession, reduced to last_used (0 when the       *)
(* session is not resident; session_clock starts at 0 and is incremented   *)
(* before it is stored).  wrapping_add is taken as + : 2^64 requests to one *)
(* worker are out of reach, so last_used values are distinct and the       *)
(* tie-break on the session name never decides.                            *)
(***************************************************************************)
EXTENDS Naturals, FiniteSets

CONSTANTS
    SessionIds,  \* the session names clients use
    MaxSess      \* RuntimeLimits.maximum_sessions_per_model

ASSUME SessionLruAssumption ==
    /\ IsFiniteSet(SessionIds)
    /\ MaxSess \in Nat \ {0}

Pools == [SessionIds -> Nat]

EmptyPool == [s \in SessionIds |-> 0]

Resident(pool) == {s \in SessionIds : pool[s] # 0}

\* min_by last_used over the whole map.
Oldest(pool) == {s \in Resident(pool) : \A t \in Resident(pool) : pool[s] <= pool[t]}

\* Mutant of Full: room is made one session too late.
Overfull(pool) == Cardinality(Resident(pool)) > MaxSess

Full(pool) == Cardinality(Resident(pool)) >= MaxSess

\* What may be left once room has been made for one more session.
AfterEviction(pool) ==
    IF Full(pool)
    THEN {[pool EXCEPT ![s] = 0] : s \in Oldest(pool)}
    ELSE {pool}

\* Mutant of Touch: a hit does not refresh last_used.
TouchOnce(pool, s, now) == [pool EXCEPT ![s] = IF @ = 0 THEN now ELSE @]

\* sessions.insert of a new session, or last_used = session_clock of a resident one.
Touch(pool, s, now) == [pool EXCEPT ![s] = now]
=============================================================================
