----------------------------- MODULE SessionPool ----------------------------
(***************************************************************************)
(* The resident sessions of one model worker across the jobs it serves:    *)
(* one step per job that names a session (src/runtime.rs,                  *)
(* run_model_worker).  The worker thread is the only one to touch the map, *)
(* so a step is atomic; RuntimeService uses the same operators inside the  *)
(* interleavings of the scheduler.                                         *)
(***************************************************************************)
EXTENDS SessionLru, Sequences

CONSTANT MaxRequests    \* bound on session_clock

ASSUME MaxRequestsAssumption == MaxRequests \in Nat

VARIABLES
    pool,   \* last_used of every resident session
    clock,  \* session_clock
    uses    \* history: the sessions that served a job, in order

poolVars == <<pool, clock, uses>>

PoolInit ==
    /\ pool = EmptyPool
    /\ clock = 0
    /\ uses = <<>>

Serve(s, left) ==
    /\ pool' = Touch(left, s, clock + 1)
    /\ uses' = Append(uses, s)

\* The session is resident: its KV state is reused.
ReuseSession(s) ==
    /\ clock < MaxRequests
    /\ s \in Resident(pool)
    /\ clock' = clock + 1
    /\ Serve(s, pool)

\* The session is not resident: evict if the map is full, then engine.new_session.
Create(s) ==
    /\ clock < MaxRequests
    /\ s \notin Resident(pool)
    /\ clock' = clock + 1
    /\ \E left \in AfterEviction(pool) : Serve(s, left)

\* engine.new_session fails after the eviction: the job fails, the victim stays lost.
CreateFails(s) ==
    /\ clock < MaxRequests
    /\ s \notin Resident(pool)
    /\ clock' = clock + 1
    /\ pool' \in AfterEviction(pool)
    /\ UNCHANGED uses

PoolNext == \E s \in SessionIds : ReuseSession(s) \/ Create(s) \/ CreateFails(s)

PoolSpec == PoolInit /\ [][PoolNext]_poolVars
-----------------------------------------------------------------------------
\* The map holds last_used values that session_clock has already handed out, and the
\* history names known sessions.
PoolTypeOK ==
    /\ pool \in [SessionIds -> 0..clock]
    /\ clock \in Nat
    /\ uses \in Seq(SessionIds)

\* README: "sessions" are bounded: run_model_worker never keeps more than the limit.
PoolBounded == Cardinality(Resident(pool)) <= MaxSess

\* Two resident sessions never share a last_used value, so the eviction is deterministic
\* and independent of the iteration order of the HashMap.
StampsDistinct ==
    \A s, t \in Resident(pool) : pool[s] = pool[t] => s = t

\* Session s was used after the last use of t.
UsedAfter(s, t) ==
    \E i \in 1..Len(uses) : uses[i] = s /\ \A k \in i..Len(uses) : uses[k] # t

\* README: "Session eviction is a deterministic LRU": every session still resident was
\* used after every session that is no longer resident, through hits, evictions and
\* failed creations alike.
ResidentsMostRecent ==
    \A s \in Resident(pool), t \in SessionIds \ Resident(pool) : UsedAfter(s, t)

\* A request never costs more than one resident session, and the one it costs is the
\* least recently used.
EvictsOnlyOldest ==
    [][\A s \in Resident(pool) \ Resident(pool') :
          \A t \in Resident(pool) : t # s => t \in Resident(pool') /\ UsedAfter(t, s)]_poolVars
=============================================================================
