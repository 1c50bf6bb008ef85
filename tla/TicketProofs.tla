---------------------------- MODULE TicketProofs ----------------------------
(***************************************************************************)
(* What the scheduler promises beyond well-formed streams, for every value *)
(* of its constants: its limits hold, a cancelled job streams little more, *)
(* jobs of a worker are served in order, and every ticket behaves as the   *)
(* abstract GenerationTicket.  All of it rests on Inv of RuntimeProofs.    *)
(***************************************************************************)
EXTENDS RuntimeProofs

(***************************************************************************)
(* What a step of a worker does to its queue, its job and the channels:    *)
(* nothing, or one of the five things below.                               *)
(***************************************************************************)
Takes(m) ==
    /\ thread[m] \in {"recv", "failed"} /\ thread'[m] \in {"dequeued", "reject"}
    /\ Take(m)
    /\ UNCHANGED <<log, late, cancel>>

SendsPiece(m) ==
    /\ \/ thread[m] = "send" /\ thread'[m] \in {"forward", "flush"}
       \/ thread[m] = "flush" /\ thread'[m] = "finish"
    /\ SendPiece(m)
    /\ UNCHANGED <<queue, current>>

SendsEnd(m) ==
    /\ thread[m] \in {"finish", "reject"} /\ thread'[m] \in {"release", "failed"}
    /\ SendEnd(m)
    /\ current' = current \/ current' = [current EXCEPT ![m] = NoJob]
    /\ UNCHANGED <<queue, late, cancel>>

LetsGo(m) ==
    /\ thread'[m] \in {"recv", "panicked"}
    /\ current' = [current EXCEPT ![m] = NoJob]
    /\ queue' = queue \/ queue' = [queue EXCEPT ![m] = <<>>]
    /\ UNCHANGED <<log, late, cancel>>

\* The places a worker goes to without touching queue, job or channel; a job whose flag is
\* set gets no further than a flush or the end.
Moves(m) ==
    /\ \/ thread[m] = "loading" /\ thread'[m] \in {"recv", "failed"}
       \/ thread[m] \in {"recv", "failed"} /\ thread'[m] = "exited"
       \/ /\ thread[m] \in {"dequeued", "forward", "decode", "flush"}
          /\ thread'[m] = "finish"
       \/ /\ ~cancel[current[m]]
          /\ \/ thread[m] = "dequeued" /\ thread'[m] = "forward"
             \/ thread[m] = "forward" /\ thread'[m] = "decode"
             \/ thread[m] = "decode" /\ thread'[m] \in {"forward", "send", "flush"}
    /\ UNCHANGED <<queue, current, log, late, cancel>>

\* Every step of a worker is of one of these kinds, and leaves the rest alone.
LEMMA WorkerKinds ==
    ASSUME TypeOK, NEW m \in Models, WorkerStep(m) \/ Panic(m)
    PROVE  /\ Takes(m) \/ SendsPiece(m) \/ SendsEnd(m) \/ LetsGo(m) \/ Moves(m)
           /\ thread[m] # "none" /\ thread'[m] # "none"
           /\ \A n \in Models : n # m => thread'[n] = thread[n]
           /\ thread[m] \notin {"panicked", "exited"}
           /\ thread'[m] = "panicked" => Panic(m)
           /\ UNCHANGED <<target, ticket, read, ended, accepted>>
<1> USE DEF Goto, Conclude, Moves, jobVars, history
<1>0. thread \in [Models -> Threads]
  BY DEF TypeOK
<1>1. CASE LoadSucceeds(m) \/ LoadFails(m)
  BY <1>0, <1>1 DEF LoadSucceeds, LoadFails
<1>2. CASE DequeueFailed(m) \/ Dequeue(m)
  BY <1>0, <1>2 DEF DequeueFailed, Dequeue, Takes
<1>3. CASE Exit(m) \/ SkipCancelled(m)
  BY <1>0, <1>3 DEF Exit, SkipCancelled
<1>4. CASE BeginResident(m) \/ BeginNew(m) \/ BeginTransient(m)
  BY <1>0, <1>4 DEF BeginResident, BeginNew, BeginTransient, Admit, CancelSeen
<1>5. CASE Forward(m)
  BY <1>0, <1>5 DEF Forward, CancelSeen
<1>6. CASE Decode(m)
  BY <1>0, <1>6 DEF Decode, NextIteration, CancelSeen
<1>7. CASE Send(m)
  BY <1>0, <1>7 DEF Send, NextIteration, SendsPiece
<1>8. CASE Flush(m)
  BY <1>0, <1>8 DEF Flush, SendsPiece
<1>9. CASE Finish(m) \/ Reject(m)
  BY <1>0, <1>9 DEF Finish, Reject, Forget, SendsEnd
<1>10. CASE Release(m) \/ Panic(m)
  BY <1>0, <1>10 DEF Release, Panic, Forget, LetsGo
<1>11. QED
  BY <1>1, <1>2, <1>3, <1>4, <1>5, <1>6, <1>7, <1>8, <1>9, <1>10 DEF WorkerStep

\* What a worker appends to a channel: one event of its job, while the ticket is open and
\* has room.
LEMMA Appends ==
    ASSUME Inv, NEW m \in Models, SendsPiece(m) \/ SendsEnd(m)
    PROVE  /\ current[m] \in Jobs
           /\ \/ UNCHANGED log
              \/ /\ ticket[current[m]] = "open" /\ HasRoom(current[m])
                 /\ \E ev \in Event :
                      log' = [log EXCEPT ![current[m]] = Append(log[current[m]], ev)]
<1>1. thread[m] \in {"send", "flush", "finish", "reject"}
  BY DEF SendsPiece, SendsEnd
<1>2. current[m] \in Jobs /\ ThreadHolds(m)
  BY <1>1, Separate DEF Holding, Decoding, Inv, ThreadsHold
<1>3. Token(gen[m].sent + 1) \in Event
  BY DEF Inv, TypeOK, Event, Token
<1>4. SendsEnd(m) => End(outcome[m]) \in Event
  BY <1>2 DEF SendsEnd, ThreadHolds, Event, End
<1>5. QED
  BY <1>2, <1>3, <1>4 DEF SendsPiece, SendPiece, SendsEnd, SendEnd
-----------------------------------------------------------------------------
(***************************************************************************)
(* The four limits.                                                        *)
(***************************************************************************)
\* Steps of a worker change at most its own pool, and keep it within the limit.
LEMMA WorkerKeepsPool ==
    ASSUME TypeOK, NEW m \in Models, WorkerStep(m) \/ Panic(m),
           Cardinality(Resident(sessions[m])) <= MaxSess
    PROVE  /\ Cardinality(Resident(sessions'[m])) <= MaxSess
           /\ \A n \in Models : n # m => sessions'[n] = sessions[n]
<1>1. sessions \in [Models -> Pools] /\ sessions[m] \in Pools /\ clock[m] \in Nat
  BY DEF TypeOK
<1>2. CASE BeginResident(m)
  <2>1. /\ session[current[m]] \in Resident(sessions[m])
        /\ sessions' = [sessions EXCEPT ![m] =
                          Touch(sessions[m], session[current[m]], clock[m] + 1)]
    BY <1>2 DEF BeginResident, Admit
  <2>2. session[current[m]] \in SessionIds /\ clock[m] + 1 \in Nat \ {0}
    BY <1>1, <2>1 DEF Resident
  <2>3. Cardinality(Resident(Touch(sessions[m], session[current[m]], clock[m] + 1))) <= MaxSess
    BY <1>1, <2>1, <2>2, TouchBounded
  <2>4. QED
    BY <1>1, <2>1, <2>3
<1>3. CASE BeginNew(m)
  <2>1. PICK left \in AfterEviction(sessions[m]) :
          \/ Admit(m, left)
          \/ sessions' = [sessions EXCEPT ![m] = left]
    BY <1>3 DEF BeginNew
  <2>2. left \in Pools /\ Cardinality(Resident(left)) < MaxSess
    BY <1>1, EvictionShape, EvictionMakesRoom
  <2>3. session[current[m]] \in SessionIds /\ clock[m] + 1 \in Nat \ {0}
    BY <1>1, <1>3 DEF BeginNew
  <2>4. Cardinality(Resident(Touch(left, session[current[m]], clock[m] + 1))) <= MaxSess
    BY <2>2, <2>3, TouchBounded
  <2>5. Cardinality(Resident(left)) <= MaxSess
    BY <2>2, ResidentFinite, SessionLruAssumption
  <2>6. QED
    BY <1>1, <2>1, <2>4, <2>5 DEF Admit
<1>4. CASE Panic(m)
  <2>1. sessions' = [sessions EXCEPT ![m] = EmptyPool]
    BY <1>4 DEF Panic
  <2>2. Resident(EmptyPool) = {}
    BY DEF Resident, EmptyPool
  <2>3. QED
    BY <1>1, <2>1, <2>2, FS_EmptySet, SessionLruAssumption
<1>5. CASE UNCHANGED sessions
  BY <1>5
<1>6. QED
  BY <1>2, <1>3, <1>4, <1>5
  DEF WorkerStep, LoadSucceeds, LoadFails, DequeueFailed, Dequeue, Exit, SkipCancelled,
      BeginTransient, Forward, Decode, Send, Flush, Finish, Release, Reject

\* The workers map can be counted.
LEMMA WorkersFinite == IsFiniteSet(Workers) /\ Cardinality(Workers) \in Nat
<1>1. IsFiniteSet(Workers)
  BY FS_Subset, RuntimeAssumption DEF Workers
<1>2. QED
  BY <1>1, FS_CardinalityType

\* An accepted submission finds room for a worker and for its job.
LEMMA SubmitBounded ==
    ASSUME Inv, ResourcesBounded, NEW j \in Jobs, NEW m \in Models,
           NEW s \in SessionIds \cup {NoSession}, Submit(j, m, s)
    PROVE  ResourcesBounded'
<1>1. TypeOK /\ queue \in [Models -> Seq(Jobs)] /\ thread \in [Models -> Threads]
  BY DEF Inv, TypeOK
<1>2. Cardinality(Workers') <= MaxLoaded
  <2>1. CASE m \in Workers
    BY <2>1 DEF Submit, Workers, ResourcesBounded
  <2>2. CASE m \notin Workers
    <3>1. Cardinality(Workers) < MaxLoaded
      BY <2>2 DEF Submit, CanLoad
    <3>2. Workers' = Workers \cup {m}
      BY <1>1, <2>2 DEF Submit, Workers, Goto
    <3>3. Cardinality(Workers') = Cardinality(Workers) + 1
      BY <2>2, <3>2, WorkersFinite, FS_AddElement
    <3>4. QED
      BY <3>1, <3>3, WorkersFinite, RuntimeAssumption
  <2>3. QED
    BY <2>1, <2>2
<1>3. ASSUME NEW n \in Models PROVE Len(queue'[n]) <= QueueCap
  <2>1. CASE n = m
    <3>1. Len(queue'[m]) = Len(queue[m]) + 1 /\ Len(queue[m]) \in Nat
      BY <1>1 DEF Submit
    <3>2. Len(queue[m]) < QueueCap
      BY DEF Submit, CanQueue
    <3>3. QED
      BY <2>1, <3>1, <3>2, RuntimeAssumption
  <2>2. CASE n # m
    BY <1>1, <2>2 DEF Submit, ResourcesBounded
  <2>3. QED
    BY <2>1, <2>2
<1>4. QED
  BY <1>2, <1>3 DEF Submit, ResourcesBounded

\* Steps of a worker.
LEMMA WorkerBounded ==
    ASSUME Inv, ResourcesBounded, NEW m \in Models, WorkerStep(m) \/ Panic(m)
    PROVE  ResourcesBounded'
<1>1. TypeOK
  BY DEF Inv
<1>2. Cardinality(Workers') <= MaxLoaded
  <2>1. Workers' = Workers
    BY <1>1, WorkerKinds DEF Workers
  <2>2. QED
    BY <2>1 DEF ResourcesBounded
<1>3. ASSUME NEW n \in Models PROVE Len(queue'[n]) <= QueueCap
  <2>1. queue \in [Models -> Seq(Jobs)] /\ Len(queue[n]) <= QueueCap /\ QueueCap \in Nat
    BY <1>1, RuntimeAssumption DEF TypeOK, ResourcesBounded
  <2>2. CASE Takes(m) /\ n = m
    <3>1. queue[m] # <<>> /\ queue'[m] = Tail(queue[m])
      BY <2>1, <2>2 DEF Takes, Take
    <3>2. Len(queue'[m]) = Len(queue[m]) - 1 /\ Len(queue[m]) \in Nat
      BY <2>1, <3>1
    <3>3. QED
      BY <2>1, <2>2, <3>2
  <2>3. CASE queue'[n] = queue[n] \/ queue'[n] = <<>>
    BY <2>1, <2>3
  <2>4. queue'[n] = queue[n] \/ queue'[n] = <<>> \/ (Takes(m) /\ n = m)
    BY <1>1, <2>1, WorkerKinds DEF Takes, Take, SendsPiece, SendsEnd, LetsGo, Moves
  <2>5. QED
    BY <2>2, <2>3, <2>4
<1>4. ASSUME NEW n \in Models PROVE Cardinality(Resident(sessions'[n])) <= MaxSess
  BY <1>1, WorkerKeepsPool DEF ResourcesBounded
<1>5. ASSUME NEW j \in Jobs PROVE Len(log'[j]) - read'[j] <= TokenBuf
  <2>1. /\ log \in [Jobs -> Seq(Event)] /\ read[j] \in Nat /\ read' = read
        /\ Len(log[j]) - read[j] <= TokenBuf /\ TokenBuf \in Nat
    BY <1>1, WorkerKinds, RuntimeAssumption DEF TypeOK, ResourcesBounded
  <2>2. CASE log'[j] = log[j]
    BY <2>1, <2>2
  <2>3. CASE \E ev \in Event : log'[j] = Append(log[j], ev) /\ HasRoom(j)
    BY <2>1, <2>3 DEF HasRoom
  <2>4. log'[j] = log[j] \/ \E ev \in Event : log'[j] = Append(log[j], ev) /\ HasRoom(j)
    <3>1. CASE SendsPiece(m) \/ SendsEnd(m)
      BY <2>1, <3>1, Appends
    <3>2. CASE Takes(m) \/ LetsGo(m) \/ Moves(m)
      BY <3>2 DEF Takes, LetsGo, Moves
    <3>3. QED
      BY <1>1, <3>1, <3>2, WorkerKinds
  <2>5. QED
    BY <2>2, <2>3, <2>4
<1>6. QED
  BY <1>2, <1>3, <1>4, <1>5 DEF ResourcesBounded

\* Steps of the clients and of the service.
LEMMA ClientBounded ==
    ASSUME Inv, ResourcesBounded,
           \/ \E j \in Jobs : ClientStep(j) \/ \E m \in Models : Refuse(j, m)
           \/ DropService \/ Join \/ UNCHANGED vars
    PROVE  ResourcesBounded'
<1>1. UNCHANGED <<thread, queue, sessions, log>>
  BY DEF ClientStep, Recv, RecvNone, Cancel, DropTicket, Refuse, DropService, Join, vars,
         workerVars, jobVars
<1>2. ASSUME NEW j \in Jobs PROVE Len(log'[j]) - read'[j] <= TokenBuf
  <2>1. /\ read \in [Jobs -> Nat] /\ Len(log[j]) \in Nat /\ TokenBuf \in Nat
        /\ Len(log[j]) - read[j] <= TokenBuf
    BY LogTypes, RuntimeAssumption DEF Inv, TypeOK, ResourcesBounded
  <2>2. read' = read \/ \E k \in Jobs : read' = [read EXCEPT ![k] = @ + 1]
    BY DEF ClientStep, Recv, RecvNone, Cancel, DropTicket, Refuse, DropService, Join, vars,
           jobVars
  <2>3. read'[j] = read[j] \/ read'[j] = read[j] + 1
    BY <2>1, <2>2
  <2>4. QED
    BY <1>1, <2>1, <2>3
<1>3. QED
  BY <1>1, <1>2 DEF ResourcesBounded, Workers

\* A service that was just created uses nothing.
LEMMA InitBounded == Init => ResourcesBounded
<1> SUFFICES ASSUME Init PROVE ResourcesBounded
  OBVIOUS
<1>1. Workers = {} /\ Cardinality({}) = 0
  BY FS_EmptySet DEF Init, Workers
<1>2. \A m \in Models : Resident(sessions[m]) = {}
  BY DEF Init, Resident, EmptyPool
<1>3. Cardinality(Workers) <= MaxLoaded
  BY <1>1, RuntimeAssumption
<1>4. ASSUME NEW m \in Models
      PROVE  Len(queue[m]) <= QueueCap /\ Cardinality(Resident(sessions[m])) <= MaxSess
  <2>1. queue[m] = <<>> /\ QueueCap \in Nat
    BY RuntimeAssumption DEF Init
  <2>2. Cardinality(Resident(sessions[m])) = 0 /\ MaxSess \in Nat
    BY <1>1, <1>2, SessionLruAssumption
  <2>3. QED
    BY <2>1, <2>2
<1>5. ASSUME NEW j \in Jobs PROVE Len(log[j]) - read[j] <= TokenBuf
  BY RuntimeAssumption DEF Init
<1>6. QED
  BY <1>3, <1>4, <1>5 DEF ResourcesBounded

\* README: "The service bounds model count, request queues, token buffers, sessions":
\* no interleaving of submissions, workers and clients exceeds one of the four limits.
THEOREM LimitsHold == Spec => []ResourcesBounded
<1>1. Inv /\ ResourcesBounded /\ [Next]_vars => ResourcesBounded'
  BY SubmitBounded, WorkerBounded, ClientBounded DEF Next
<1>2. QED
  BY <1>1, InitBounded, Invariance, PTL DEF Spec
-----------------------------------------------------------------------------
(***************************************************************************)
(* Late pieces.  The flag is looked at before and after every forward      *)
(* pass, so a worker that has sent one piece since it was set is on its    *)
(* way to a forward pass that it will not start, or to the flush.          *)
(***************************************************************************)
LateJob(j) ==
    /\ late[j] \in 0..2
    /\ late[j] # 0 => cancel[j] /\ log[j] # <<>>

LateWhile(m) ==
    /\ thread[m] \in {"dequeued", "decode", "send"} => late[current[m]] = 0
    /\ thread[m] \in {"forward", "flush"} => late[current[m]] <= 1

LateInv ==
    /\ \A j \in Jobs : LateJob(j)
    /\ \A m \in Models : LateWhile(m)

\* A worker that takes a job takes one that streamed nothing yet.
LEMMA TakeLate ==
    ASSUME Inv, TypeOK', LateInv, NEW m \in Models, Takes(m),
           \A n \in Models : n # m => thread'[n] = thread[n]
    PROVE  LateInv'
<1>1. /\ queue[m] \in Seq(Jobs) /\ queue[m] # <<>>
      /\ current' = [current EXCEPT ![m] = queue[m][1]]
      /\ current \in [Models -> Jobs \cup {NoJob}]
  BY WorkerTypes DEF Inv, TypeOK, Takes, Take
<1>2. queue[m][1] \in Jobs /\ log[queue[m][1]] = <<>>
  <2>1. 1 \in 1..Len(queue[m])
    BY <1>1
  <2>2. QED
    BY <1>1, <2>1 DEF Inv, JobsPlaced, OwnQueue
<1>3. late[queue[m][1]] = 0
  BY <1>2 DEF LateInv, LateJob
<1>4. ASSUME NEW n \in Models PROVE LateWhile(n)'
  BY <1>1, <1>3 DEF LateInv, LateWhile, Takes
<1>5. QED
  BY <1>4 DEF LateInv, LateJob, Takes

\* A piece is late when the flag is set; the worker's place bounds how many there were.
LEMMA PieceLate ==
    ASSUME Inv, LateInv, NEW m \in Models, SendsPiece(m),
           \A n \in Models : n # m => thread'[n] = thread[n]
    PROVE  LateInv'
<1> DEFINE j == current[m]
<1>1. /\ late \in [Jobs -> Nat] /\ log \in [Jobs -> Seq(Event)] /\ cancel \in [Jobs -> BOOLEAN]
  BY DEF Inv, TypeOK
<1>2. thread[m] \in {"send", "flush"} /\ thread[m] \in Holding
  BY DEF SendsPiece, Holding, Decoding
<1>3. j \in Jobs /\ \A n \in Models : n # m => current[n] # j
  BY <1>2, Separate
<1>4. LateJob(j) /\ LateWhile(m)
  BY <1>3 DEF LateInv
<1>5. /\ late'[j] = late[j] \/ (late'[j] = late[j] + 1 /\ cancel[j] /\ log'[j] # <<>>)
      /\ cancel[j] => cancel'[j]
      /\ log[j] # <<>> => log'[j] # <<>>
      /\ \A k \in Jobs : k # j => late'[k] = late[k] /\ cancel'[k] = cancel[k] /\ log'[k] = log[k]
  <2>1. CASE /\ log' = [log EXCEPT ![j] = Append(@, Token(gen[m].sent + 1))]
             /\ late' = [late EXCEPT ![j] = IF cancel[j] THEN @ + 1 ELSE @]
             /\ UNCHANGED cancel
    <3>1. log'[j] # <<>>
      <4>1. log[j] \in Seq(Event) /\ Token(gen[m].sent + 1) \in Event
        <5>1. gen[m].sent \in Nat /\ log[j] \in Seq(Event)
          BY <1>1, <1>3 DEF Inv, TypeOK
        <5>2. QED
          BY <5>1 DEF Token, Event
      <4>2. log'[j] = Append(log[j], Token(gen[m].sent + 1))
        BY <1>1, <1>3, <2>1
      <4>3. QED
        BY <4>1, <4>2
    <3>2. QED
      BY <1>1, <1>3, <2>1, <3>1
  <2>2. CASE cancel' = [cancel EXCEPT ![j] = TRUE] /\ UNCHANGED <<log, late>>
    BY <1>1, <1>3, <2>2
  <2>3. QED
    BY <2>1, <2>2 DEF SendsPiece, SendPiece
<1>6. ASSUME NEW k \in Jobs PROVE LateJob(k)'
  <2>1. CASE k = j
    BY <1>2, <1>4, <1>5, <2>1 DEF LateJob, LateWhile
  <2>2. CASE k # j
    BY <1>5, <2>2 DEF LateInv, LateJob
  <2>3. QED
    BY <2>1, <2>2
<1>7. ASSUME NEW n \in Models PROVE LateWhile(n)'
  <2>1. CASE n = m
    <3>1. late[j] \in Nat /\ current' = current
      BY <1>1, <1>3 DEF SendsPiece
    <3>2. QED
      BY <1>4, <1>5, <2>1, <3>1 DEF LateWhile, SendsPiece
  <2>2. CASE n # m
    <3> SUFFICES ASSUME thread[n] \in {"dequeued", "decode", "send", "forward", "flush"}
                 PROVE  LateWhile(n)'
      BY <2>2 DEF LateWhile
    <3>1. current[n] \in Jobs /\ current[n] # j
      BY <1>3, <2>2, Separate DEF Holding, Decoding
    <3>2. QED
      BY <1>5, <2>2, <3>1 DEF LateInv, LateWhile, SendsPiece
  <2>3. QED
    BY <2>1, <2>2
<1>8. QED
  BY <1>6, <1>7 DEF LateInv

\* The other steps of a worker send no piece; a decode that begins was not cancelled before.
LEMMA WorkerLate ==
    ASSUME Inv, TypeOK', LateInv, NEW m \in Models, WorkerStep(m) \/ Panic(m)
    PROVE  LateInv'
<1>1. \A n \in Models : n # m => thread'[n] = thread[n]
  BY WorkerKinds DEF Inv
<1>2. CASE Takes(m)
  BY <1>1, <1>2, TakeLate
<1>3. CASE SendsPiece(m)
  BY <1>1, <1>3, PieceLate
<1>4. CASE SendsEnd(m) \/ LetsGo(m)
  <2>1. /\ \A j \in Jobs : log[j] # <<>> => log'[j] # <<>>
        /\ UNCHANGED <<late, cancel>>
    <3>1. CASE LetsGo(m)
      BY <3>1 DEF LetsGo
    <3>2. CASE SendsEnd(m)
      <4>1. log \in [Jobs -> Seq(Event)]
        BY DEF Inv, TypeOK
      <4>2. CASE UNCHANGED log
        BY <3>2, <4>2 DEF SendsEnd
      <4>3. ASSUME NEW ev \in Event, log' = [log EXCEPT ![current[m]] = Append(log[current[m]], ev)],
                   NEW j \in Jobs, log[j] # <<>>
            PROVE  log'[j] # <<>>
        <5>1. log[j] \in Seq(Event)
          BY <4>1
        <5>2. Append(log[j], ev) # <<>>
          BY <5>1
        <5>3. QED
          BY <4>1, <4>3, <5>2
      <4>4. QED
        BY <3>2, <4>2, <4>3, Appends DEF SendsEnd
    <3>3. QED
      BY <1>4, <3>1, <3>2
  <2>2. ASSUME NEW j \in Jobs PROVE LateJob(j)'
    BY <2>1 DEF LateInv, LateJob
  <2>3. ASSUME NEW n \in Models PROVE LateWhile(n)'
    <3>1. CASE n = m
      BY <1>4, <3>1 DEF LateWhile, SendsEnd, LetsGo
    <3>2. CASE n # m
      <4>1. current'[n] = current[n] /\ thread'[n] = thread[n]
        BY <1>1, <1>4, <3>2 DEF SendsEnd, LetsGo, Inv, TypeOK
      <4>2. QED
        BY <2>1, <4>1 DEF LateInv, LateWhile
    <3>3. QED
      BY <3>1, <3>2
  <2>4. QED
    BY <2>2, <2>3 DEF LateInv
<1>5. CASE Moves(m)
  <2>1. ASSUME NEW j \in Jobs PROVE LateJob(j)'
    BY <1>5 DEF Moves, LateInv, LateJob
  <2>2. ASSUME NEW n \in Models PROVE LateWhile(n)'
    <3>1. CASE n = m
      <4>1. CASE thread'[m] \in {"recv", "failed", "exited", "finish"}
        BY <3>1, <4>1 DEF LateWhile
      <4>2. CASE thread[m] \in {"dequeued", "forward", "decode"} /\ ~cancel[current[m]]
        <5>1. current[m] \in Jobs
          BY <4>2, Separate DEF Holding, Decoding
        <5>2. late[current[m]] = 0
          BY <4>2, <5>1 DEF LateInv, LateJob
        <5>3. QED
          BY <1>5, <3>1, <5>2 DEF Moves, LateWhile
      <4>3. QED
        BY <1>5, <4>1, <4>2 DEF Moves
    <3>2. CASE n # m
      BY <1>1, <1>5, <3>2 DEF Moves, LateInv, LateWhile
    <3>3. QED
      BY <3>1, <3>2
  <2>3. QED
    BY <2>1, <2>2 DEF LateInv
<1>6. QED
  BY <1>2, <1>3, <1>4, <1>5, WorkerKinds DEF Inv

\* Clients set flags and send nothing; a submission brings a job that has sent nothing.
LEMMA OthersLate ==
    ASSUME Inv, LateInv,
           \/ \E j \in Jobs, m \in Models, s \in SessionIds \cup {NoSession} : Submit(j, m, s)
           \/ \E j \in Jobs : ClientStep(j) \/ \E m \in Models : Refuse(j, m)
           \/ DropService \/ Join \/ UNCHANGED vars
    PROVE  LateInv'
<1> USE DEF ClientStep, Recv, RecvNone, Cancel, DropTicket, Refuse, DropService, Join, vars,
            workerVars, jobVars, history
<1>1. UNCHANGED <<current, log, late>>
  BY DEF Submit
<1>2. \A j \in Jobs : cancel[j] => cancel'[j]
  BY DEF Submit, Inv, TypeOK
<1>3. \A n \in Models : thread'[n] = thread[n] \/ thread'[n] = "loading"
  BY DEF Submit, Goto, Inv, TypeOK
<1>4. ASSUME NEW j \in Jobs PROVE LateJob(j)'
  BY <1>1, <1>2 DEF LateInv, LateJob
<1>5. ASSUME NEW n \in Models PROVE LateWhile(n)'
  BY <1>1, <1>3 DEF LateInv, LateWhile
<1>6. QED
  BY <1>4, <1>5 DEF LateInv

\* After the flag is set at most the piece in flight and the flushed rest are streamed.
THEOREM FewTokensAfterCancel == Spec => []FewLateTokens
<1>1. Init => LateInv
  BY DEF Init, LateInv, LateJob, LateWhile
<1>2. Inv /\ Inv' /\ LateInv /\ [Next]_vars => LateInv'
  <2> SUFFICES ASSUME Inv, TypeOK', LateInv, [Next]_vars PROVE LateInv'
    BY DEF Inv
  <2>1. QED
    BY WorkerLate, OthersLate DEF Next
<1>3. LateInv => FewLateTokens
  BY DEF LateInv, LateJob, FewLateTokens
<1>4. QED
  BY <1>1, <1>2, <1>3, Invariance, PTL DEF Spec
-----------------------------------------------------------------------------
(***************************************************************************)
(* Order.  The queue of a worker is the end of what it accepted, and the   *)
(* job it holds is the one before.                                         *)
(***************************************************************************)
Taken(m) == Len(accepted[m]) - Len(queue[m])

InOrder(m) ==
    /\ Taken(m) \in Nat
    /\ \A i \in 1..Len(queue[m]) : queue[m][i] = accepted[m][Taken(m) + i]
    /\ current[m] # NoJob => Taken(m) # 0 /\ current[m] = accepted[m][Taken(m)]
    /\ \A i \in 1..Len(accepted[m]) : target[accepted[m][i]] = m
    /\ \A i, k \in 1..Len(accepted[m]) : accepted[m][i] = accepted[m][k] => i = k

OrderInv == \A m \in Models : InOrder(m)

\* The jobs a worker accepted and those that wait.
LEMMA AcceptedTypes ==
    ASSUME TypeOK, NEW m \in Models
    PROVE  /\ accepted[m] \in Seq(Jobs) /\ Len(accepted[m]) \in Nat
           /\ \A i \in 1..Len(accepted[m]) : accepted[m][i] \in Jobs
           /\ queue[m] \in Seq(Jobs) /\ Len(queue[m]) \in Nat
           /\ Taken(m) = Len(accepted[m]) - Len(queue[m])
<1>1. accepted[m] \in Seq(Jobs) /\ queue[m] \in Seq(Jobs)
  BY DEF TypeOK
<1>2. QED
  BY <1>1 DEF Taken

\* A new job goes to the end of the queue and of what was accepted.
LEMMA SubmitInOrder ==
    ASSUME Inv, OrderInv, NEW j \in Jobs, NEW m \in Models,
           NEW s \in SessionIds \cup {NoSession}, Submit(j, m, s), NEW n \in Models
    PROVE  InOrder(n)'
<1>1. /\ queue' = [queue EXCEPT ![m] = Append(queue[m], j)]
      /\ accepted' = [accepted EXCEPT ![m] = Append(accepted[m], j)]
      /\ target' = [target EXCEPT ![j] = m]
      /\ UNCHANGED current
      /\ ticket[j] = "unused"
  BY DEF Submit
<1>2. TypeOK /\ InOrder(n)
  BY DEF Inv, OrderInv
<1>3. target[j] = NoModel
  BY <1>1 DEF Inv, JobsPlaced, Targeted
<1>4. /\ queue \in [Models -> Seq(Jobs)] /\ accepted \in [Models -> Seq(Jobs)]
      /\ target \in [Jobs -> Models \cup {NoModel}]
  BY <1>2 DEF TypeOK
<1>5. target'[j] = m /\ \A k \in Jobs : k # j => target'[k] = target[k]
  BY <1>1, <1>4
<1>6. \A i \in 1..Len(accepted[n]) : target[accepted[n][i]] = n
  BY <1>2 DEF InOrder
<1>7. \A i \in 1..Len(accepted[n]) : accepted[n][i] \in Jobs /\ accepted[n][i] # j
  BY <1>2, <1>3, <1>6, AcceptedTypes, RuntimeAssumption
<1>8. CASE n # m
  <2>1. queue'[n] = queue[n] /\ accepted'[n] = accepted[n] /\ Taken(n)' = Taken(n)
    BY <1>1, <1>4, <1>8 DEF Taken
  <2>2. \A i \in 1..Len(accepted[n]) : target'[accepted[n][i]] = n
    BY <1>5, <1>6, <1>7
  <2>3. current'[n] = current[n]
    BY <1>1
  <2>4. QED
    BY <1>2, <2>1, <2>2, <2>3 DEF InOrder
<1>9. CASE n = m
  <2> DEFINE q == Len(queue[m])  a == Len(accepted[m])
  <2>1. /\ Len(queue'[m]) = q + 1 /\ Len(accepted'[m]) = a + 1
        /\ \A i \in 1..q : queue'[m][i] = queue[m][i]
        /\ \A i \in 1..a : accepted'[m][i] = accepted[m][i]
        /\ queue'[m][q + 1] = j /\ accepted'[m][a + 1] = j
        /\ q \in Nat /\ a \in Nat
    BY <1>1, <1>4
  <2>2. Taken(m)' = Taken(m) /\ Taken(m) \in Nat /\ Taken(m) = a - q
    BY <1>2, <1>9, <2>1 DEF Taken, InOrder
  <2> HIDE DEF q, a
  <2>3. ASSUME NEW i \in 1..(q + 1) PROVE queue'[m][i] = accepted'[m][Taken(m) + i]
    <3>1. CASE i \in 1..q
      <4>1. Taken(m) + i \in 1..a
        BY <2>1, <2>2, <3>1
      <4>2. queue[m][i] = accepted[m][Taken(m) + i]
        BY <1>2, <1>9, <3>1 DEF InOrder, q
      <4>3. QED
        BY <2>1, <3>1, <4>1, <4>2
    <3>2. CASE i = q + 1
      <4>1. Taken(m) + i = a + 1
        BY <2>1, <2>2, <3>2
      <4>2. QED
        BY <2>1, <3>2, <4>1
    <3>3. QED
      BY <2>1, <3>1, <3>2
  <2>4. ASSUME current'[m] # NoJob
        PROVE  Taken(m) # 0 /\ current'[m] = accepted'[m][Taken(m)]
    <3>1. Taken(m) # 0 /\ current'[m] = accepted[m][Taken(m)]
      BY <1>1, <1>2, <1>9, <2>4 DEF InOrder
    <3>2. Taken(m) \in 1..a
      BY <2>1, <2>2, <3>1
    <3>3. QED
      BY <2>1, <3>1, <3>2
  <2>5. \A i \in 1..(a + 1) : i \in 1..a \/ i = a + 1
    BY <2>1
  <2>6. \A i \in 1..a : /\ accepted'[m][i] # j /\ target'[accepted'[m][i]] = m
                        /\ \A k \in 1..a : accepted'[m][i] = accepted'[m][k] => i = k
    <3>1. \A i, k \in 1..a : accepted[m][i] = accepted[m][k] => i = k
      BY <1>2, <1>9 DEF InOrder, a
    <3>2. \A i \in 1..a : target[accepted[m][i]] = m /\ accepted[m][i] \in Jobs \ {j}
      BY <1>6, <1>7, <1>9 DEF a
    <3>3. \A i \in 1..a : accepted'[m][i] = accepted[m][i]
      BY <2>1
    <3>4. \A k \in Jobs \ {j} : target'[k] = target[k]
      BY <1>5
    <3>5. ASSUME NEW i \in 1..a
          PROVE  accepted'[m][i] # j /\ target'[accepted'[m][i]] = m
      <4>1. accepted'[m][i] = accepted[m][i] /\ accepted[m][i] \in Jobs \ {j}
            /\ target[accepted[m][i]] = m
        BY <3>2, <3>3
      <4>2. QED
        BY <4>1, <3>4
    <3>6. \A i, k \in 1..a : accepted'[m][i] = accepted'[m][k] => i = k
      BY <3>1, <3>3
    <3>7. QED
      BY <3>5, <3>6
  <2>7. \A i \in 1..(a + 1) : target'[accepted'[m][i]] = m
    BY <1>5, <2>1, <2>5, <2>6
  <2>8. \A i, k \in 1..(a + 1) : accepted'[m][i] = accepted'[m][k] => i = k
    BY <2>1, <2>5, <2>6
  <2>9. QED
    BY <1>9, <2>1, <2>2, <2>3, <2>4, <2>7, <2>8 DEF InOrder
<1>10. QED
  BY <1>8, <1>9

\* A worker takes the job that follows those it took before.
LEMMA TakeInOrder ==
    ASSUME TypeOK, NEW m \in Models, InOrder(m), Take(m), UNCHANGED <<target, accepted>>
    PROVE  InOrder(m)'
<1>1. /\ queue[m] \in Seq(Jobs) /\ queue[m] # <<>>
      /\ current'[m] = queue[m][1] /\ queue'[m] = Tail(queue[m])
  BY WorkerTypes DEF TypeOK, Take
<1>2. /\ Len(queue'[m]) = Len(queue[m]) - 1 /\ Len(queue[m]) \in Nat /\ Len(queue[m]) >= 1
      /\ \A i \in 1..Len(queue'[m]) : i + 1 \in 1..Len(queue[m]) /\ queue'[m][i] = queue[m][i + 1]
      /\ 1 \in 1..Len(queue[m])
  BY <1>1
<1>3. Taken(m)' = Taken(m) + 1 /\ Taken(m) \in Nat
  BY <1>2, AcceptedTypes DEF Taken, InOrder
<1>4. current'[m] = accepted[m][Taken(m) + 1]
  BY <1>1, <1>2 DEF InOrder
<1>5. ASSUME NEW i \in 1..Len(queue'[m]) PROVE queue'[m][i] = accepted[m][Taken(m) + 1 + i]
  <2>1. queue'[m][i] = accepted[m][Taken(m) + (i + 1)]
    BY <1>2 DEF InOrder
  <2>2. Taken(m) + (i + 1) = Taken(m) + 1 + i
    BY <1>2, <1>3
  <2>3. QED
    BY <2>1, <2>2
<1>6. accepted' = accepted /\ target' = target
  OBVIOUS
<1>7. Taken(m)' \in Nat /\ Taken(m)' # 0
  BY <1>3
<1>8. \A i \in 1..Len(queue'[m]) : queue'[m][i] = accepted'[m][Taken(m)' + i]
  BY <1>3, <1>5, <1>6
<1>9. current'[m] = accepted'[m][Taken(m)']
  BY <1>3, <1>4, <1>6
<1>10. /\ \A i \in 1..Len(accepted'[m]) : target'[accepted'[m][i]] = m
       /\ \A i, k \in 1..Len(accepted'[m]) : accepted'[m][i] = accepted'[m][k] => i = k
  BY <1>6 DEF InOrder
<1>11. QED
  BY <1>7, <1>8, <1>9, <1>10 DEF InOrder

\* Every step keeps the order.
LEMMA OrderStep == Inv /\ OrderInv /\ [Next]_vars => OrderInv'
<1> SUFFICES ASSUME Inv, OrderInv, [Next]_vars, NEW n \in Models PROVE InOrder(n)'
  BY DEF OrderInv
<1>0. TypeOK /\ InOrder(n)
  BY DEF Inv, OrderInv
<1>1. ASSUME NEW j \in Jobs, NEW m \in Models, NEW s \in SessionIds \cup {NoSession},
             Submit(j, m, s)
      PROVE  InOrder(n)'
  BY <1>1, SubmitInOrder
<1>2. ASSUME NEW m \in Models, WorkerStep(m) \/ Panic(m) PROVE InOrder(n)'
  <2>1. UNCHANGED <<target, accepted>>
    BY <1>0, <1>2, WorkerKinds
  <2>2. CASE Takes(m) /\ n = m
    BY <1>0, <2>1, <2>2, TakeInOrder DEF Takes
  <2>3. CASE queue'[n] = queue[n] /\ (current'[n] = current[n] \/ current'[n] = NoJob)
    BY <1>0, <2>1, <2>3 DEF InOrder, Taken
  <2>4. CASE queue'[n] = <<>> /\ current'[n] = NoJob
    <3>1. Taken(n)' \in Nat
      BY <1>0, <2>1, <2>4, AcceptedTypes DEF Taken
    <3>2. QED
      BY <1>0, <2>1, <2>4, <3>1 DEF InOrder
  <2>5. \/ Takes(m) /\ n = m
        \/ queue'[n] = queue[n] /\ (current'[n] = current[n] \/ current'[n] = NoJob)
        \/ queue'[n] = <<>> /\ current'[n] = NoJob
    <3>1. queue \in [Models -> Seq(Jobs)] /\ current \in [Models -> Jobs \cup {NoJob}]
      BY <1>0 DEF TypeOK
    <3>2. CASE Takes(m)
      BY <3>1, <3>2 DEF Takes, Take
    <3>3. CASE SendsPiece(m) \/ SendsEnd(m) \/ Moves(m)
      BY <3>1, <3>3 DEF SendsPiece, SendsEnd, Moves
    <3>4. CASE LetsGo(m)
      BY <3>1, <3>4 DEF LetsGo
    <3>5. QED
      BY <1>0, <1>2, <3>2, <3>3, <3>4, WorkerKinds
  <2>6. QED
    BY <2>2, <2>3, <2>4, <2>5
<1>3. CASE \/ \E j \in Jobs : ClientStep(j) \/ \E m \in Models : Refuse(j, m)
           \/ DropService \/ Join \/ UNCHANGED vars
  <2>1. UNCHANGED <<queue, current, target, accepted>>
    BY <1>3
    DEF ClientStep, Recv, RecvNone, Cancel, DropTicket, Refuse, DropService, Join, vars,
        workerVars, jobVars, history
  <2>2. QED
    BY <1>0, <2>1 DEF InOrder, Taken
<1>4. QED
  BY <1>1, <1>2, <1>3 DEF Next

\* A job that was accepted later streams nothing while an earlier one is owned.
LEMMA LaterSilent ==
    ASSUME Inv, OrderInv, NEW m \in Models, NEW a \in Nat, NEW b \in Nat,
           a \in 1..Len(accepted[m]) /\ b \in 1..Len(accepted[m]) /\ a < b,
           log[accepted[m][b]] # <<>>, Owned(accepted[m][a])
    PROVE  FALSE
<1>1. TypeOK /\ InOrder(m)
  BY DEF Inv, OrderInv
<1>2. PICK t \in Nat, q \in Nat, c \in Nat :
        t = Taken(m) /\ q = Len(queue[m]) /\ c = Len(accepted[m]) /\ t = c - q
  <2>1. Taken(m) \in Nat
    BY <1>1 DEF InOrder
  <2>2. Len(accepted[m]) \in Nat /\ Len(queue[m]) \in Nat
    BY <1>1, AcceptedTypes
  <2>3. Taken(m) = Len(accepted[m]) - Len(queue[m])
    BY DEF Taken
  <2>4. QED
    BY <2>1, <2>2, <2>3
<1>3. /\ \A i \in 1..q : queue[m][i] = accepted[m][t + i]
      /\ current[m] # NoJob => t # 0 /\ current[m] = accepted[m][t]
      /\ \A i, k \in 1..c : accepted[m][i] = accepted[m][k] => i = k
      /\ \A i \in 1..q : log[queue[m][i]] = <<>>
  BY <1>1, <1>2 DEF InOrder, Inv, JobsPlaced, OwnQueue
<1>0. t = c - q /\ a \in 1..c /\ b \in 1..c
  BY <1>2
<1>4. accepted[m][a] \in Jobs /\ target[accepted[m][a]] = m
  BY <1>1, AcceptedTypes DEF InOrder
<1>5. b <= t
  <2> SUFFICES ASSUME ~(b <= t) PROVE FALSE
    OBVIOUS
  <2>1. b - t \in 1..q /\ t + (b - t) = b
    BY <1>0
  <2>2. QED
    BY <1>3, <2>1
<1>6. PICK w \in Models : current[w] = accepted[m][a] \/ Queued(accepted[m][a], w)
  BY DEF Owned
<1>7. w = m
  <2>1. OwnJob(w) /\ OwnQueue(w) /\ accepted[m][a] # NoJob
    BY <1>4, RuntimeAssumption DEF Inv, JobsPlaced
  <2>2. target[accepted[m][a]] = w
    BY <1>6, <2>1 DEF OwnJob, OwnQueue, Queued
  <2>3. QED
    BY <1>4, <2>2
<1>8. CASE current[m] = accepted[m][a]
  <2>1. t # 0 /\ accepted[m][a] = accepted[m][t]
    BY <1>3, <1>4, <1>8, RuntimeAssumption
  <2>2. t \in 1..c
    BY <1>0, <2>1
  <2>3. a = t
    BY <1>0, <1>3, <2>1, <2>2
  <2>4. QED
    BY <1>0, <1>5, <2>3
<1>9. CASE Queued(accepted[m][a], m)
  <2>1. PICK i \in 1..q : queue[m][i] = accepted[m][a]
    BY <1>2, <1>9 DEF Queued
  <2>2. t + i \in 1..c
    BY <1>0, <2>1
  <2>3. a = t + i
    BY <1>0, <1>3, <2>1, <2>2
  <2>4. QED
    BY <1>0, <1>5, <2>3
<1>10. QED
  BY <1>6, <1>7, <1>8, <1>9

LEMMA OrderSerial == Inv /\ OrderInv => SerialInOrder
<1> SUFFICES ASSUME Inv, OrderInv, NEW m \in Models, NEW b \in 1..Len(accepted[m]),
                    NEW a \in 1..(b - 1), log[accepted[m][b]] # <<>>
             PROVE  ~Owned(accepted[m][a])
  BY DEF SerialInOrder
<1>1. Len(accepted[m]) \in Nat
  BY AcceptedTypes DEF Inv
<1>2. a \in Nat /\ b \in Nat /\ a \in 1..Len(accepted[m]) /\ a < b
  BY <1>1
<1>3. QED
  BY <1>2, LaterSilent

\* A model generates for one job at a time and in the order of submission.
THEOREM ServedInOrder == Spec => []SerialInOrder
<1>1. Init => OrderInv
  BY DEF Init, OrderInv, InOrder, Taken
<1>2. QED
  BY <1>1, OrderStep, OrderSerial, Invariance, PTL DEF Spec
-----------------------------------------------------------------------------
(***************************************************************************)
(* Receiving.  A client never reads past the end of its channel, and once  *)
(* recv has returned None nothing is sent any more.                        *)
(***************************************************************************)
Received(j) ==
    /\ read[j] <= Len(log[j])
    /\ ended[j] => read[j] = Len(log[j]) /\ ~Owned(j)

ReceivedInv == \A j \in Jobs : Received(j)

\* Worker steps hand no job to anybody else.
LEMMA OwnedShrinks ==
    ASSUME TypeOK, NEW m \in Models, WorkerStep(m) \/ Panic(m), NEW j \in Jobs, Owned(j)'
    PROVE  Owned(j)
<1>1. queue \in [Models -> Seq(Jobs)] /\ current \in [Models -> Jobs \cup {NoJob}]
  BY DEF TypeOK
<1>2. PICK n \in Models : current'[n] = j \/ \E i \in 1..Len(queue'[n]) : queue'[n][i] = j
  BY DEF Owned, Queued
<1>3. CASE Takes(m) /\ n = m
  <2>1. /\ queue[m] \in Seq(Jobs) /\ queue[m] # <<>>
        /\ current'[m] = queue[m][1] /\ queue'[m] = Tail(queue[m])
    BY <1>1, <1>3 DEF Takes, Take
  <2>2. \A i \in 1..Len(queue'[m]) : i + 1 \in 1..Len(queue[m]) /\ queue'[m][i] = queue[m][i + 1]
    BY <2>1
  <2>3. 1 \in 1..Len(queue[m])
    BY <2>1
  <2>4. \E i \in 1..Len(queue[m]) : queue[m][i] = j
    BY <1>2, <1>3, <2>1, <2>2, <2>3
  <2>5. QED
    BY <2>4 DEF Owned, Queued
<1>4. CASE ~(Takes(m) /\ n = m)
  <2>1. /\ queue'[n] = queue[n] \/ queue'[n] = <<>>
        /\ current'[n] = current[n] \/ current'[n] = NoJob
    BY <1>1, <1>4, WorkerKinds DEF Takes, Take, SendsPiece, SendsEnd, LetsGo, Moves
  <2>2. j # NoJob
    BY RuntimeAssumption
  <2>3. QED
    BY <1>2, <2>1, <2>2 DEF Owned, Queued
<1>5. QED
  BY <1>3, <1>4

\* A worker only extends the channels of jobs it owns.
LEMMA WorkerExtends ==
    ASSUME Inv, NEW m \in Models, WorkerStep(m) \/ Panic(m), NEW j \in Jobs
    PROVE  \/ log'[j] = log[j]
           \/ /\ Owned(j)
              /\ Len(log'[j]) = Len(log[j]) + 1
              /\ \A i \in 1..Len(log[j]) : log'[j][i] = log[j][i]
<1>1. log \in [Jobs -> Seq(Event)]
  BY DEF Inv, TypeOK
<1>2. CASE SendsPiece(m) \/ SendsEnd(m)
  <2>1. CASE UNCHANGED log
    BY <2>1
  <2>2. ASSUME NEW ev \in Event, current[m] \in Jobs,
               log' = [log EXCEPT ![current[m]] = Append(log[current[m]], ev)]
        PROVE  \/ log'[j] = log[j]
               \/ /\ Owned(j)
                  /\ Len(log'[j]) = Len(log[j]) + 1
                  /\ \A i \in 1..Len(log[j]) : log'[j][i] = log[j][i]
    BY <1>1, <2>2 DEF Owned
  <2>3. QED
    BY <1>2, <2>1, <2>2, Appends
<1>3. CASE Takes(m) \/ LetsGo(m) \/ Moves(m)
  BY <1>3 DEF Takes, LetsGo, Moves
<1>4. QED
  BY <1>2, <1>3, WorkerKinds DEF Inv

\* Every step keeps it.
LEMMA ReceivedStep == Inv /\ ReceivedInv /\ [Next]_vars => ReceivedInv'
<1> SUFFICES ASSUME Inv, ReceivedInv, [Next]_vars, NEW j \in Jobs PROVE Received(j)'
  BY DEF ReceivedInv
<1>1. /\ Received(j) /\ read \in [Jobs -> Nat] /\ ended \in [Jobs -> BOOLEAN]
      /\ Len(log[j]) \in Nat
  BY LogTypes DEF ReceivedInv, Inv, TypeOK
<1>2. ASSUME NEW m \in Models, WorkerStep(m) \/ Panic(m) PROVE Received(j)'
  <2>1. read' = read /\ ended' = ended
    BY <1>2, WorkerKinds DEF Inv
  <2>2. Owned(j)' => Owned(j)
    BY <1>2, OwnedShrinks DEF Inv
  <2>3. CASE log'[j] = log[j]
    BY <1>1, <2>1, <2>2, <2>3 DEF Received
  <2>4. CASE Owned(j) /\ Len(log'[j]) = Len(log[j]) + 1
    BY <1>1, <2>1, <2>4 DEF Received
  <2>5. QED
    BY <1>2, <2>3, <2>4, WorkerExtends
<1>3. ASSUME NEW k \in Jobs, NEW m \in Models, NEW s \in SessionIds \cup {NoSession},
             Submit(k, m, s)
      PROVE  Received(j)'
  <2>1. UNCHANGED <<log, read, ended, current>> /\ ticket[k] = "unused"
        /\ queue' = [queue EXCEPT ![m] = Append(queue[m], k)]
    BY <1>3 DEF Submit
  <2>2. ended[j] => j # k
    BY <2>1 DEF Inv, JobsPlaced, Targeted
  <2>3. ASSUME j # k, Owned(j)' PROVE Owned(j)
    <3>1. PICK n \in Models : current[n] = j \/ \E i \in 1..Len(queue'[n]) : queue'[n][i] = j
      BY <2>1, <2>3 DEF Owned, Queued
    <3>2. queue \in [Models -> Seq(Jobs)]
      BY DEF Inv, TypeOK
    <3>3. \A i \in 1..Len(queue'[n]) :
            \/ queue'[n][i] = k
            \/ i \in 1..Len(queue[n]) /\ queue'[n][i] = queue[n][i]
      <4>1. CASE n = m
        <5>1. queue[m] \in Seq(Jobs) /\ queue'[m] = Append(queue[m], k)
          BY <2>1, <3>2
        <5>2. \A q \in Seq(Jobs) : \A i \in 1..Len(Append(q, k)) :
                \/ Append(q, k)[i] = k
                \/ i \in 1..Len(q) /\ Append(q, k)[i] = q[i]
          OBVIOUS
        <5>3. \A i \in 1..Len(queue'[m]) :
                \/ queue'[m][i] = k
                \/ i \in 1..Len(queue[m]) /\ queue'[m][i] = queue[m][i]
          BY <5>1, <5>2
        <5>4. QED
          BY <4>1, <5>3
      <4>2. CASE n # m
        BY <2>1, <3>2, <4>2
      <4>3. QED
        BY <4>1, <4>2
    <3>4. QED
      BY <2>3, <3>1, <3>3 DEF Owned, Queued
  <2>4. QED
    BY <1>1, <2>1, <2>2, <2>3 DEF Received
<1>4. CASE \/ \E k \in Jobs : ClientStep(k) \/ \E m \in Models : Refuse(k, m)
           \/ DropService \/ Join \/ UNCHANGED vars
  <2> USE DEF ClientStep, Recv, RecvNone, Cancel, DropTicket, Refuse, DropService, Join, vars,
              workerVars, jobVars
  <2>1. UNCHANGED <<queue, current, log>>
    BY <1>4
  <2>2. Owned(j)' = Owned(j)
    BY <2>1 DEF Owned, Queued
  <2>3. CASE read'[j] = read[j] /\ ended'[j] = ended[j]
    BY <1>1, <2>1, <2>2, <2>3 DEF Received
  <2>4. CASE Recv(j)
    BY <1>1, <2>1, <2>2, <2>4 DEF Received
  <2>5. CASE RecvNone(j)
    BY <1>1, <2>1, <2>2, <2>5 DEF Received
  <2>6. (read'[j] = read[j] /\ ended'[j] = ended[j]) \/ Recv(j) \/ RecvNone(j)
    BY <1>1, <1>4
  <2>7. QED
    BY <2>3, <2>4, <2>5, <2>6
<1>5. QED
  BY <1>2, <1>3, <1>4 DEF Next

LEMMA ReceivedInit == Init => ReceivedInv
<1> SUFFICES ASSUME Init, NEW j \in Jobs PROVE Received(j)
  BY DEF ReceivedInv
<1>1. QED
  BY DEF Init, Received
-----------------------------------------------------------------------------
(***************************************************************************)
(* Refinement.  The ticket a client sees: the variables of                 *)
(* GenerationTicket under the mapping of RuntimeService.                   *)
(***************************************************************************)
LastEnd(j) == IF LastRead(j).kind \in Terminals THEN LastRead(j).kind ELSE "none"

Broken(j) == target[j] \in Models /\ thread[target[j]] = "panicked"

Holds(j) == IF ticket[j] \in {"unused", "refused"} THEN "none" ELSE ticket[j]

Seen == <<[j \in Jobs |-> Holds(j)], [j \in Jobs |-> PiecesRead(j)],
          [j \in Jobs |-> LastEnd(j)], ended, [j \in Jobs |-> Broken(j)]>>

\* What a client has seen, in terms of how far it has read.
LEMMA ClientView ==
    ASSUME Inv, NEW j \in Jobs, Received(j)
    PROVE  \/ read[j] = 0 /\ LastEnd(j) = "none" /\ PiecesRead(j) = 0
           \/ /\ read[j] # 0 /\ log[j][read[j]] = Token(read[j])
              /\ LastEnd(j) = "none" /\ PiecesRead(j) = read[j]
           \/ /\ read[j] # 0 /\ read[j] = Len(log[j]) /\ log[j][read[j]].kind \in Terminals
              /\ LastEnd(j) = log[j][read[j]].kind /\ PiecesRead(j) = read[j] - 1
<1>1. read[j] \in Nat /\ Len(log[j]) \in Nat /\ read[j] <= Len(log[j])
  BY LogTypes DEF Inv, TypeOK, Received
<1>2. CASE read[j] = 0
  BY <1>2 DEF LastEnd, LastRead, PiecesRead, End, Terminals
<1>3. CASE read[j] # 0 /\ log[j][read[j]] = Token(read[j])
  BY <1>3 DEF LastEnd, LastRead, PiecesRead, Token, Terminals
<1>4. CASE /\ read[j] # 0 /\ read[j] = Len(log[j])
           /\ log[j][read[j]].kind \in Terminals
  <2>1. LastRead(j) = log[j][read[j]] /\ LastRead(j).kind # "token"
    BY <1>4 DEF LastRead, Terminals
  <2>2. PiecesRead(j) = read[j] - 1
    <3>1. CASE read[j] = 1
      BY <2>1, <3>1 DEF PiecesRead
    <3>2. CASE read[j] # 1
      <4>0. \A r \in Nat : r # 0 /\ r # 1 => r - 1 \in 1..r /\ r - 1 # r /\ ~(r <= 1)
        OBVIOUS
      <4>1. read[j] - 1 \in 1..Len(log[j]) /\ read[j] - 1 # Len(log[j]) /\ ~(read[j] <= 1)
        BY <1>1, <1>4, <3>2, <4>0
      <4>2. log[j][read[j] - 1] = Token(read[j] - 1)
        BY <4>1 DEF Inv, StreamWellFormed
      <4>3. QED
        BY <2>1, <4>1, <4>2 DEF PiecesRead, Token
    <3>3. QED
      BY <3>1, <3>2
  <2>3. QED
    BY <1>4, <2>1, <2>2 DEF LastEnd
<1>5. read[j] # 0 => \/ log[j][read[j]] = Token(read[j])
                     \/ read[j] = Len(log[j]) /\ log[j][read[j]].kind \in Terminals
  <2>1. read[j] # 0 => read[j] \in 1..Len(log[j])
    BY <1>1
  <2>2. QED
    BY <2>1 DEF Inv, StreamWellFormed
<1>6. QED
  BY <1>2, <1>3, <1>4, <1>5

\* The same for every client, before and after a step.
View ==
    \A j \in Jobs : read[j] # 0 =>
        \/ LastEnd(j) = "none" /\ PiecesRead(j) = read[j]
        \/ LastEnd(j) \in Terminals /\ PiecesRead(j) = read[j] - 1

LEMMA Viewed == Inv /\ ReceivedInv => View
BY ClientView DEF View, ReceivedInv

LEMMA ViewAfter == Inv' /\ ReceivedInv' => View'
BY Viewed, PTL

\* What was seen does not change while the client receives nothing.
LEMMA ViewStays ==
    ASSUME Inv, NEW j \in Jobs, Received(j), read'[j] = read[j],
           \A i \in 1..Len(log[j]) : log'[j][i] = log[j][i]
    PROVE  LastEnd(j)' = LastEnd(j) /\ PiecesRead(j)' = PiecesRead(j)
<1>1. read[j] \in Nat /\ Len(log[j]) \in Nat /\ read[j] <= Len(log[j])
  BY LogTypes DEF Inv, TypeOK, Received
<1>2. LastRead(j)' = LastRead(j)
  <2>1. read[j] # 0 => read[j] \in 1..Len(log[j])
    BY <1>1
  <2>2. QED
    BY <2>1 DEF LastRead
<1>3. ~(read[j] <= 1) => log'[j][read[j] - 1] = log[j][read[j] - 1]
  <2>1. ~(read[j] <= 1) => read[j] - 1 \in 1..Len(log[j])
    BY <1>1
  <2>2. QED
    BY <2>1
<1>4. QED
  BY <1>2, <1>3 DEF LastEnd, PiecesRead

\* A worker's step is seen only when it is a panic: the tickets of its model break.
LEMMA WorkerSeen ==
    ASSUME Inv, ReceivedInv, NEW m \in Models, WorkerStep(m) \/ Panic(m)
    PROVE  Tickets_!Break
<1> DEFINE dead == {j \in Jobs : target[j] = m /\ thread'[m] = "panicked"}
<1>1. /\ UNCHANGED <<target, ticket, read, ended>>
      /\ \A n \in Models : n # m => thread'[n] = thread[n]
      /\ thread[m] # "panicked"
  BY WorkerKinds DEF Inv
<1>2. ASSUME NEW j \in Jobs
      PROVE  /\ Holds(j)' = Holds(j)
             /\ LastEnd(j)' = LastEnd(j) /\ PiecesRead(j)' = PiecesRead(j)
             /\ Broken(j)' <=> Broken(j) \/ j \in dead
  <2>1. \A i \in 1..Len(log[j]) : log'[j][i] = log[j][i]
    BY WorkerExtends
  <2>2. LastEnd(j)' = LastEnd(j) /\ PiecesRead(j)' = PiecesRead(j)
    BY <1>1, <2>1, ViewStays DEF ReceivedInv
  <2>3. Broken(j)' <=> Broken(j) \/ j \in dead
    BY <1>1 DEF Broken
  <2>4. QED
    BY <1>1, <2>2, <2>3 DEF Holds
<1> HIDE DEF dead
<1>3. UNCHANGED <<[j \in Jobs |-> Holds(j)], [j \in Jobs |-> PiecesRead(j)],
                  [j \in Jobs |-> LastEnd(j)], ended>>
  BY <1>1, <1>2
<1>4. dead \in SUBSET Jobs
  BY DEF dead
<1>5. [j \in Jobs |-> Broken(j)]' = [j \in Jobs |-> [k \in Jobs |-> Broken(k)][j] \/ j \in dead]
  <2>1. \A j \in Jobs : Broken(j)' = (Broken(j) \/ j \in dead)
    BY <1>2, Zenon DEF Broken
  <2>2. \A j \in Jobs : [k \in Jobs |-> Broken(k)][j] = Broken(j)
    OBVIOUS
  <2>3. QED
    BY <2>1, <2>2, Zenon
<1>6. QED
  BY <1>3, <1>4, <1>5 DEF Tickets_!Break, Holds, LastEnd, Broken

\* A submission issues a ticket.
LEMMA SubmitSeen ==
    ASSUME Inv, NEW j \in Jobs, NEW m \in Models, NEW s \in SessionIds \cup {NoSession},
           Submit(j, m, s)
    PROVE  Tickets_!Issue(j)
<1>1. /\ UNCHANGED <<log, read, ended>>
      /\ ticket[j] = "unused" /\ ticket' = [ticket EXCEPT ![j] = "open"]
      /\ target' = [target EXCEPT ![j] = m]
      /\ thread[m] # "panicked"
      /\ UNCHANGED thread \/ thread' = [thread EXCEPT ![m] = "loading"]
  BY DEF Submit, CanQueue, Goto
<1>2. /\ ticket \in [Jobs -> Tickets] /\ target \in [Jobs -> Models \cup {NoModel}]
      /\ thread \in [Models -> Threads] /\ target[j] = NoModel
  BY <1>1 DEF Inv, TypeOK, JobsPlaced, Targeted
<1>3. ASSUME NEW k \in Jobs
      PROVE  /\ Holds(k)' = IF k = j THEN "open" ELSE Holds(k)
             /\ LastEnd(k)' = LastEnd(k) /\ PiecesRead(k)' = PiecesRead(k)
             /\ Broken(k)' = Broken(k)
  <2>1. Holds(k)' = IF k = j THEN "open" ELSE Holds(k)
    BY <1>1, <1>2 DEF Holds
  <2>2. LastEnd(k)' = LastEnd(k) /\ PiecesRead(k)' = PiecesRead(k)
    BY <1>1 DEF LastEnd, LastRead, PiecesRead
  <2>3. \A n \in Models : thread'[n] = "panicked" <=> thread[n] = "panicked"
    BY <1>1, <1>2
  <2>4. k # j => target'[k] = target[k]
    BY <1>1, <1>2
  <2>5. ~Broken(j) /\ ~Broken(j)'
    BY <1>1, <1>2, <2>3, RuntimeAssumption DEF Broken
  <2>6. Broken(k)' <=> Broken(k)
    BY <2>3, <2>4, <2>5 DEF Broken
  <2>7. Broken(k)' = Broken(k)
    BY <2>6, Zenon DEF Broken
  <2>8. QED
    BY <2>1, <2>2, <2>7
<1>4. UNCHANGED <<[k \in Jobs |-> PiecesRead(k)], [k \in Jobs |-> LastEnd(k)], ended,
                  [k \in Jobs |-> Broken(k)]>>
  BY <1>1, <1>3
<1>5. [k \in Jobs |-> Holds(k)][j] = "none"
  BY <1>1 DEF Holds
<1>6. [k \in Jobs |-> Holds(k)]' = [[k \in Jobs |-> Holds(k)] EXCEPT ![j] = "open"]
  BY <1>3
<1>7. QED
  BY <1>4, <1>5, <1>6 DEF Tickets_!Issue, Holds, LastEnd, Broken

\* What a client leaves alone when only its own ticket changes.
LEMMA QuietSeen ==
    ASSUME UNCHANGED <<thread, target, log>>
    PROVE  /\ UNCHANGED [k \in Jobs |-> Broken(k)]
           /\ UNCHANGED ticket => UNCHANGED [k \in Jobs |-> Holds(k)]
           /\ UNCHANGED read => UNCHANGED <<[k \in Jobs |-> PiecesRead(k)],
                                            [k \in Jobs |-> LastEnd(k)]>>
BY DEF Broken, Holds, LastEnd, LastRead, PiecesRead

\* Receiving is the next piece or the terminal event.
LEMMA RecvSeen ==
    ASSUME Inv, Inv', ReceivedInv, ReceivedInv', NEW j \in Jobs, Recv(j)
    PROVE  Tickets_!Piece(j) \/ Tickets_!Finish(j)
<1>1. /\ ticket[j] = "open" /\ read[j] < Len(log[j]) /\ read' = [read EXCEPT ![j] = read[j] + 1]
      /\ UNCHANGED <<thread, target, ticket, log, ended>>
  BY DEF Recv, workerVars
<1>2. read \in [Jobs -> Nat] /\ Len(log[j]) \in Nat
  BY LogTypes DEF Inv, TypeOK
<1>3. read'[j] = read[j] + 1 /\ \A k \in Jobs : k # j => read'[k] = read[k]
  BY <1>1, <1>2
<1>4. /\ UNCHANGED <<[k \in Jobs |-> Holds(k)], [k \in Jobs |-> Broken(k)], ended>>
      /\ [k \in Jobs |-> Holds(k)][j] = "open"
  BY <1>1, QuietSeen DEF Holds
<1>5. ~ended[j]
  <2>1. ended[j] => read[j] = Len(log[j])
    BY DEF ReceivedInv, Received
  <2>2. QED
    BY <1>1, <1>2, <2>1
<1>6. LastEnd(j) = "none" /\ PiecesRead(j) = read[j]
  <2>1. read[j] # Len(log[j])
    BY <1>1, <1>2
  <2>2. QED
    BY <2>1, ClientView DEF ReceivedInv
<1>7. \A k \in Jobs : k # j => PiecesRead(k)' = PiecesRead(k) /\ LastEnd(k)' = LastEnd(k)
  BY <1>1, <1>3 DEF PiecesRead, LastEnd, LastRead
<1>8. \/ LastEnd(j)' = "none" /\ PiecesRead(j)' = read[j] + 1
      \/ LastEnd(j)' \in Terminals /\ PiecesRead(j)' = read[j]
  <2>1. read'[j] # 0 /\ (read[j] + 1) - 1 = read[j]
    BY <1>2, <1>3
  <2>2. \/ LastEnd(j)' = "none" /\ PiecesRead(j)' = read'[j]
        \/ LastEnd(j)' \in Terminals /\ PiecesRead(j)' = read'[j] - 1
    BY <2>1, ViewAfter DEF View
  <2>3. QED
    BY <1>3, <2>1, <2>2
<1>9. CASE LastEnd(j)' = "none" /\ PiecesRead(j)' = read[j] + 1
  <2>1. [k \in Jobs |-> PiecesRead(k)]'
          = [[k \in Jobs |-> PiecesRead(k)] EXCEPT ![j] = [k \in Jobs |-> PiecesRead(k)][j] + 1]
    BY <1>6, <1>7, <1>9
  <2>2. UNCHANGED [k \in Jobs |-> LastEnd(k)] /\ [k \in Jobs |-> LastEnd(k)][j] = "none"
    BY <1>6, <1>7, <1>9
  <2>3. QED
    BY <1>4, <1>5, <2>1, <2>2 DEF Tickets_!Piece, Holds, LastEnd, Broken
<1>10. CASE LastEnd(j)' \in Terminals /\ PiecesRead(j)' = read[j]
  <2>1. UNCHANGED [k \in Jobs |-> PiecesRead(k)]
    BY <1>6, <1>7, <1>10
  <2>2. [k \in Jobs |-> LastEnd(k)]' = [[k \in Jobs |-> LastEnd(k)] EXCEPT ![j] = LastEnd(j)']
    BY <1>7
  <2>3. [k \in Jobs |-> LastEnd(k)][j] = "none"
    BY <1>6
  <2>4. \E kind \in Terminals :
          [k \in Jobs |-> LastEnd(k)]' = [[k \in Jobs |-> LastEnd(k)] EXCEPT ![j] = kind]
    BY <1>10, <2>2
  <2>5. QED
    BY <1>4, <1>5, <2>1, <2>3, <2>4 DEF Tickets_!Finish, Holds, LastEnd, Broken
<1>11. QED
  BY <1>8, <1>9, <1>10

\* A stream that ends was answered, or its worker panicked.
LEMMA RecvNoneSeen ==
    ASSUME Inv, Inv', ReceivedInv, NEW j \in Jobs, RecvNone(j)
    PROVE  Tickets_!Close(j)
<1>1. /\ ticket[j] = "open" /\ ~ended[j] /\ read[j] = Len(log[j])
      /\ ended' = [ended EXCEPT ![j] = TRUE]
      /\ UNCHANGED <<thread, target, ticket, log, read>>
  BY DEF RecvNone, workerVars
<1>2. UNCHANGED <<[k \in Jobs |-> Holds(k)], [k \in Jobs |-> PiecesRead(k)],
                  [k \in Jobs |-> LastEnd(k)], [k \in Jobs |-> Broken(k)]>>
  BY <1>1, QuietSeen
<1>3. [k \in Jobs |-> Holds(k)][j] = "open"
  BY <1>1 DEF Holds
<1>4. ended'[j]
  BY <1>1 DEF Inv, TypeOK
<1>5. LastEnd(j) # "none" \/ Broken(j)
  <2>1. Answered(j)' \/ thread'[target'[j]] = "panicked"
    BY <1>4 DEF Inv, NoSilentClose
  <2>2. CASE Answered(j)'
    <3>1. log[j] # <<>> /\ log[j][Len(log[j])].kind \in Terminals
      BY <1>1, <2>2 DEF Answered
    <3>2. read[j] # 0
      BY <1>1, <3>1, LogTypes DEF Inv
    <3>3. LastEnd(j) # "none"
      BY <1>1, <3>1, <3>2 DEF LastEnd, LastRead, Terminals
    <3>4. QED
      BY <3>3
  <2>3. CASE thread'[target'[j]] = "panicked"
    BY <1>1, <2>3, IssuedTarget DEF Broken
  <2>4. QED
    BY <2>1, <2>2, <2>3
<1>6. [k \in Jobs |-> LastEnd(k)][j] # "none" \/ [k \in Jobs |-> Broken(k)][j]
  BY <1>5
<1>7. QED
  BY <1>1, <1>2, <1>3, <1>6 DEF Tickets_!Close, Holds, LastEnd, Broken

\* A client that drops its ticket abandons it.
LEMMA DropSeen ==
    ASSUME Inv, NEW j \in Jobs, DropTicket(j)
    PROVE  Tickets_!Abandon(j)
<1>1. /\ ticket[j] = "open" /\ ticket' = [ticket EXCEPT ![j] = "dropped"]
      /\ ticket \in [Jobs -> Tickets]
      /\ UNCHANGED <<thread, target, log, read, ended>>
  BY DEF DropTicket, workerVars, Inv, TypeOK
<1>2. UNCHANGED <<[k \in Jobs |-> PiecesRead(k)], [k \in Jobs |-> LastEnd(k)], ended,
                  [k \in Jobs |-> Broken(k)]>>
  BY <1>1, QuietSeen
<1>3. [k \in Jobs |-> Holds(k)][j] = "open"
  BY <1>1 DEF Holds
<1>4. \A k \in Jobs : Holds(k)' = IF k = j THEN "dropped" ELSE Holds(k)
  BY <1>1 DEF Holds
<1>5. [k \in Jobs |-> Holds(k)]' = [[k \in Jobs |-> Holds(k)] EXCEPT ![j] = "dropped"]
  BY <1>4
<1>6. QED
  BY <1>2, <1>3, <1>5 DEF Tickets_!Abandon, Holds, LastEnd, Broken

\* Refusals, cancellations and the end of the service are not seen by a ticket.
LEMMA OthersSeen ==
    ASSUME Inv,
           \/ \E j \in Jobs : Cancel(j) \/ \E m \in Models : Refuse(j, m)
           \/ DropService \/ Join \/ UNCHANGED vars
    PROVE  UNCHANGED Seen
<1>1. UNCHANGED <<thread, target, log, read, ended>>
  BY DEF Cancel, Refuse, DropService, Join, vars, workerVars, jobVars
<1>2. \A k \in Jobs : Holds(k)' = Holds(k)
  <2>1. CASE UNCHANGED ticket
    BY <2>1 DEF Holds
  <2>2. CASE \E j \in Jobs, m \in Models : Refuse(j, m)
    <3>1. PICK j \in Jobs : ticket[j] = "unused" /\ ticket' = [ticket EXCEPT ![j] = "refused"]
      BY <2>2 DEF Refuse
    <3>2. ticket \in [Jobs -> Tickets]
      BY DEF Inv, TypeOK
    <3>3. QED
      BY <3>1, <3>2 DEF Holds
  <2>3. QED
    BY <2>1, <2>2 DEF Cancel, DropService, Join, vars, jobVars
<1>3. QED
  BY <1>1, <1>2, QuietSeen DEF Seen

\* A service that was just created has issued no ticket.
LEMMA InitSeen == Init => Tickets_!Init
<1> SUFFICES ASSUME Init PROVE Tickets_!Init
  OBVIOUS
<1>1. ASSUME NEW j \in Jobs
      PROVE  Holds(j) = "none" /\ PiecesRead(j) = 0 /\ LastEnd(j) = "none" /\ Broken(j) = FALSE
  BY RuntimeAssumption
  DEF Init, Holds, PiecesRead, LastEnd, LastRead, End, Terminals, Broken
<1>2. ended = [j \in Jobs |-> FALSE]
  BY DEF Init
<1>3. QED
  BY <1>1, <1>2 DEF Tickets_!Init, Holds, LastEnd, Broken

\* Every step of the scheduler is a step of the tickets, or not seen by them.
LEMMA StepSeen ==
    ASSUME Inv, Inv', ReceivedInv, ReceivedInv', [Next]_vars
    PROVE  [Tickets_!Next]_(Tickets_!tvars)
<1>1. ASSUME NEW j \in Jobs, NEW m \in Models, NEW s \in SessionIds \cup {NoSession},
             Submit(j, m, s)
      PROVE  Tickets_!Next
  BY <1>1, SubmitSeen DEF Tickets_!Next
<1>2. ASSUME NEW m \in Models, WorkerStep(m) \/ Panic(m) PROVE Tickets_!Next
  BY <1>2, WorkerSeen DEF Tickets_!Next
<1>3. ASSUME NEW j \in Jobs, Recv(j) \/ RecvNone(j) \/ DropTicket(j) PROVE Tickets_!Next
  BY <1>3, RecvSeen, RecvNoneSeen, DropSeen DEF Tickets_!Next
<1>4. CASE \/ \E j \in Jobs : Cancel(j) \/ \E m \in Models : Refuse(j, m)
           \/ DropService \/ Join \/ UNCHANGED vars
  BY <1>4, OthersSeen DEF Seen, Tickets_!tvars, Holds, LastEnd, Broken
<1>5. QED
  BY <1>1, <1>2, <1>3, <1>4 DEF Next, ClientStep

\* Seen by its client, every ticket behaves as GenerationTicket says: pieces in order and
\* without gaps, one terminal event, then the end, unless its worker panicked.
THEOREM TicketsImplemented == Spec => ImplementsTicket
<1>1. Spec => []ReceivedInv
  BY ReceivedInit, ReceivedStep, Invariance, PTL DEF Spec
<1>2. QED
  BY <1>1, InitSeen, StepSeen, Invariance, PTL DEF Spec, ImplementsTicket, Tickets_!Spec
=============================================================================
