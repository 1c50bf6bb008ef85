---------------------------- MODULE RuntimeProofs ---------------------------
(***************************************************************************)
(* Proofs about the scheduler, for every number of models, jobs, sessions  *)
(* and every value of the limits.                                          *)
(***************************************************************************)
EXTENDS RuntimeService, SessionLruProofs, SequenceTheorems

(***************************************************************************)
(* The inductive invariant.  A stream is well formed because exactly one   *)
(* place owns a job at any time (JobsPlaced), and what its log holds       *)
(* follows from that place: nothing while it is queued, the pieces counted *)
(* by the decode loop while a worker generates (StreamsOpen), a terminal   *)
(* event once nobody owns it any more (Released).                          *)
(***************************************************************************)
Generating == Decoding \cup {"dequeued", "finish", "reject"}

ThreadHolds(m) ==
    /\ thread[m] \in Holding <=> current[m] # NoJob
    /\ thread[m] \notin Decoding \cup {"finish", "release"} => gen[m] = Fresh
    /\ thread[m] \in {"forward", "decode", "send"} => gen[m].i < MaxTokens
    /\ thread[m] \in {"finish", "reject"} => outcome[m] \in Terminals
    /\ thread[m] \in {"none", "panicked", "exited"} => queue[m] = <<>>
    /\ thread[m] = "exited" => service # "open"
    /\ service = "gone" => thread[m] \in {"none", "exited", "panicked"}

ThreadsHold == \A m \in Models : ThreadHolds(m)

OwnJob(m) == current[m] # NoJob => target[current[m]] = m

OwnQueue(m) ==
    /\ \A i \in 1..Len(queue[m]) : /\ target[queue[m][i]] = m
                                   /\ queue[m][i] # current[m]
                                   /\ log[queue[m][i]] = <<>>
    /\ \A i, k \in 1..Len(queue[m]) : queue[m][i] = queue[m][k] => i = k

Targeted(j) ==
    /\ target[j] = NoModel <=> ticket[j] \in {"unused", "refused"}
    /\ target[j] = NoModel => log[j] = <<>> /\ ~ended[j]

JobsPlaced ==
    /\ \A m \in Models : OwnJob(m) /\ OwnQueue(m)
    /\ \A j \in Jobs : Targeted(j)

StreamOpen(m) ==
    thread[m] \in Generating =>
        /\ \A i \in 1..Len(log[current[m]]) : log[current[m]][i] = Token(i)
        /\ ticket[current[m]] = "open" => Len(log[current[m]]) = gen[m].sent

StreamsOpen == \A m \in Models : StreamOpen(m)

AnsweredOrOwned(j) ==
    ticket[j] = "open" =>
        \/ Answered(j)
        \/ thread[target[j]] = "panicked"
        \/ Queued(j, target[j])
        \/ current[target[j]] = j /\ thread[target[j]] # "release"

Released == \A j \in Jobs : AnsweredOrOwned(j)

Inv ==
    /\ TypeOK
    /\ ThreadsHold
    /\ JobsPlaced
    /\ StreamsOpen
    /\ StreamWellFormed
    /\ Released
    /\ NoSilentClose

\* A service that was just created has no worker and no job.
LEMMA InvInit == Init => Inv
<1> SUFFICES ASSUME Init PROVE Inv
  OBVIOUS
<1>1. TypeOK
  BY RuntimeAssumption DEF Init, TypeOK, Statuses, Threads, Holding, Decoding, Terminals,
     Tickets, Fresh, Event, Pools, EmptyPool
<1>2. ThreadsHold
  BY DEF Init, ThreadsHold, ThreadHolds, Holding, Decoding
<1>3. JobsPlaced
  BY DEF Init, JobsPlaced, OwnJob, OwnQueue, Targeted
<1>4. StreamsOpen /\ StreamWellFormed
  BY DEF Init, StreamsOpen, StreamOpen, StreamWellFormed, Generating, Decoding
<1>5. Released /\ NoSilentClose
  BY DEF Init, Released, AnsweredOrOwned, NoSilentClose
<1>6. QED
  BY <1>1, <1>2, <1>3, <1>4, <1>5 DEF Inv
-----------------------------------------------------------------------------
(***************************************************************************)
(* What the invariant says of single workers and jobs.                     *)
(***************************************************************************)
\* The facts of TypeOK about one worker and one job.
LEMMA WorkerTypes ==
    ASSUME TypeOK, NEW m \in Models
    PROVE  /\ queue[m] \in Seq(Jobs) /\ Len(queue[m]) \in Nat
           /\ \A i \in 1..Len(queue[m]) : queue[m][i] \in Jobs
           /\ thread[m] \in Threads
           /\ current[m] \in Jobs \cup {NoJob}
<1>1. queue[m] \in Seq(Jobs) /\ thread[m] \in Threads /\ current[m] \in Jobs \cup {NoJob}
  BY DEF TypeOK
<1>2. QED
  BY <1>1

\* The fields of one job have their types.
LEMMA JobTypes ==
    ASSUME TypeOK, NEW j \in Jobs
    PROVE  /\ target[j] \in Models \cup {NoModel}
           /\ ticket[j] \in Tickets
           /\ cancel[j] \in BOOLEAN
BY DEF TypeOK

\* The events of a job, and how many of them were received.
LEMMA LogTypes ==
    ASSUME TypeOK, NEW j \in Jobs
    PROVE  /\ log[j] \in Seq(Event) /\ Len(log[j]) \in Nat
           /\ \A i \in 1..Len(log[j]) : log[j][i] \in Event
<1>1. log[j] \in Seq(Event)
  BY DEF TypeOK
<1>2. QED
  BY <1>1

\* A worker that is generating holds a job, which no other worker holds or has queued.
LEMMA Separate ==
    ASSUME Inv, NEW m \in Models, thread[m] \in Holding
    PROVE  /\ current[m] \in Jobs
           /\ target[current[m]] = m
           /\ ticket[current[m]] \in {"open", "dropped"}
           /\ \A n \in Models : n # m => current[n] # current[m]
           /\ \A n \in Models : \A i \in 1..Len(queue[n]) : queue[n][i] # current[m]
<1>1. current[m] \in Jobs /\ target[current[m]] = m
  BY WorkerTypes DEF Inv, ThreadsHold, ThreadHolds, JobsPlaced, OwnJob
<1>2. ticket[current[m]] \in {"open", "dropped"}
  <2>1. Targeted(current[m]) /\ target[current[m]] # NoModel /\ ticket[current[m]] \in Tickets
    BY <1>1, JobTypes, RuntimeAssumption DEF Inv, JobsPlaced
  <2>2. QED
    BY <2>1 DEF Targeted, Tickets
<1>3. \A n \in Models : n # m => current[n] # current[m]
  BY <1>1, RuntimeAssumption DEF Inv, JobsPlaced, OwnJob
<1>4. \A n \in Models : \A i \in 1..Len(queue[n]) : queue[n][i] # current[m]
  BY <1>1 DEF Inv, JobsPlaced, OwnQueue
<1>5. QED
  BY <1>1, <1>2, <1>3, <1>4

\* The model an issued job was accepted for.
LEMMA IssuedTarget ==
    ASSUME Inv, NEW j \in Jobs, ticket[j] \notin {"unused", "refused"} \/ ended[j]
    PROVE  target[j] \in Models
<1>1. Targeted(j) /\ target[j] \in Models \cup {NoModel}
  BY JobTypes DEF Inv, JobsPlaced
<1>2. target[j] # NoModel
  BY <1>1 DEF Targeted
<1>3. QED
  BY <1>1, <1>2
-----------------------------------------------------------------------------
(***************************************************************************)
(* The actions by what they do to the parts of the invariant beyond        *)
(* TypeOK and ThreadsHold.                                                 *)
(***************************************************************************)
\* Steps that move no job and send no event.
LEMMA QuietKeepsInv ==
    ASSUME Inv, TypeOK', ThreadsHold',
           UNCHANGED <<queue, current, target, log>>,
           \A n \in Models :
              \/ thread'[n] = thread[n]
              \/ thread[n] \notin Holding \cup {"panicked"} /\ thread'[n] \notin Holding
              \/ thread[n] \in Holding \ {"release"} /\ thread'[n] \in Holding \ {"release"},
           \A n \in Models : gen'[n].sent = gen[n].sent,
           \A k \in Jobs :
              \/ ticket'[k] = ticket[k]
              \/ ticket[k] = "open" /\ ticket'[k] = "dropped"
              \/ ticket[k] = "unused" /\ ticket'[k] = "refused",
           \A k \in Jobs : ended'[k] => \/ ended[k]
                                        \/ target[k] # NoModel /\ (Answered(k) \/ thread[target[k]] = "panicked")
    PROVE  Inv'
<1>1. JobsPlaced'
  <2>1. ASSUME NEW m \in Models PROVE (OwnJob(m) /\ OwnQueue(m))'
    BY DEF Inv, JobsPlaced, OwnJob, OwnQueue
  <2>2. ASSUME NEW j \in Jobs PROVE Targeted(j)'
    BY DEF Inv, JobsPlaced, Targeted
  <2>3. QED
    BY <2>1, <2>2 DEF JobsPlaced
<1>2. StreamsOpen'
  <2> SUFFICES ASSUME NEW m \in Models PROVE StreamOpen(m)'
    BY DEF StreamsOpen
  <2>1. thread'[m] \in Generating => thread[m] \in Generating /\ current[m] \in Jobs
    BY Separate DEF Generating, Holding, Decoding
  <2>2. QED
    BY <2>1 DEF Inv, StreamsOpen, StreamOpen
<1>3. StreamWellFormed'
  BY DEF Inv, StreamWellFormed
<1>4. Released'
  <2> SUFFICES ASSUME NEW j \in Jobs, ticket'[j] = "open" PROVE AnsweredOrOwned(j)'
    BY DEF Released, AnsweredOrOwned
  <2>1. ticket[j] = "open" /\ target[j] \in Models
    BY IssuedTarget
  <2>2. AnsweredOrOwned(j) /\ ThreadHolds(target[j])
    BY <2>1 DEF Inv, Released, ThreadsHold
  <2>3. current[target[j]] = j => thread[target[j]] \in Holding
    BY <2>1, <2>2, RuntimeAssumption DEF ThreadHolds
  <2>4. QED
    BY <2>1, <2>2, <2>3 DEF AnsweredOrOwned, Answered, Queued, Holding, Decoding
<1>5. NoSilentClose'
  <2> SUFFICES ASSUME NEW j \in Jobs, ended'[j]
               PROVE  Answered(j)' \/ thread'[target'[j]] = "panicked"
    BY DEF NoSilentClose
  <2>1. target[j] \in Models /\ (Answered(j) \/ thread[target[j]] = "panicked")
    <3>1. CASE ended[j]
      BY <3>1, IssuedTarget DEF Inv, NoSilentClose
    <3>2. CASE ~ended[j]
      BY <3>2, JobTypes DEF Inv
    <3>3. QED
      BY <3>1, <3>2
  <2>2. QED
    BY <2>1 DEF Answered, Holding, Decoding
<1>6. QED
  BY <1>1, <1>2, <1>3, <1>4, <1>5 DEF Inv

\* A new job is queued behind the others.
LEMMA SubmitKeepsInv ==
    ASSUME Inv, TypeOK', ThreadsHold', NEW j \in Jobs, NEW m \in Models,
           NEW s \in SessionIds \cup {NoSession}, Submit(j, m, s)
    PROVE  Inv'
<1>1. /\ queue' = [queue EXCEPT ![m] = Append(queue[m], j)]
      /\ ticket' = [ticket EXCEPT ![j] = "open"]
      /\ target' = [target EXCEPT ![j] = m]
      /\ UNCHANGED <<current, gen, log, ended>>
      /\ ticket[j] = "unused" /\ thread[m] # "panicked"
  BY DEF Submit, CanQueue
<1>2. \/ UNCHANGED thread
      \/ thread[m] = "none" /\ thread' = [thread EXCEPT ![m] = "loading"]
  BY DEF Submit, Workers, Goto
<1>3. TypeOK
  BY DEF Inv
<1>4. /\ queue'[m] \in Seq(Jobs)
      /\ Len(queue'[m]) = Len(queue[m]) + 1
      /\ queue'[m][Len(queue[m]) + 1] = j
      /\ \A i \in 1..Len(queue[m]) : queue'[m][i] = queue[m][i]
      /\ \A n \in Models : n # m => queue'[n] = queue[n]
  BY <1>1, <1>3, WorkerTypes DEF TypeOK
<1>5. target[j] = NoModel /\ log[j] = <<>> /\ ~ended[j]
  <2>1. Targeted(j)
    BY DEF Inv, JobsPlaced
  <2>2. QED
    BY <1>1, <2>1 DEF Targeted
<1>6. \A k \in Jobs : k # j => target'[k] = target[k] /\ ticket'[k] = ticket[k]
  BY <1>1, <1>3 DEF TypeOK
<1>7. target'[j] = m /\ ticket'[j] = "open"
  BY <1>1, <1>3 DEF TypeOK
<1>8. \A n \in Models : current[n] # j /\ \A i \in 1..Len(queue[n]) : queue[n][i] # j
  <2> SUFFICES ASSUME NEW n \in Models
               PROVE  current[n] # j /\ \A i \in 1..Len(queue[n]) : queue[n][i] # j
    OBVIOUS
  <2>1. OwnJob(n) /\ OwnQueue(n)
    BY DEF Inv, JobsPlaced
  <2>2. QED
    BY <1>5, <2>1, RuntimeAssumption DEF OwnJob, OwnQueue
<1>9. JobsPlaced'
  <2>1. ASSUME NEW n \in Models PROVE OwnJob(n)'
    <3>1. OwnJob(n) /\ current[n] \in Jobs \cup {NoJob} /\ current[n] # j
      BY <1>3, <1>8, WorkerTypes DEF Inv, JobsPlaced
    <3>2. QED
      BY <1>1, <1>6, <3>1 DEF OwnJob
  <2>2. ASSUME NEW n \in Models PROVE OwnQueue(n)'
    <3>1. /\ OwnQueue(n) /\ current[n] # j
          /\ Len(queue[n]) \in Nat
          /\ \A i \in 1..Len(queue[n]) : queue[n][i] \in Jobs /\ queue[n][i] # j
      BY <1>3, <1>8, WorkerTypes DEF Inv, JobsPlaced
    <3>2. CASE n # m
      BY <1>1, <1>4, <1>6, <3>1, <3>2 DEF OwnQueue
    <3>3. CASE n = m
      <4>1. \A i \in 1..Len(queue'[m]) : i \in 1..Len(queue[m]) \/ i = Len(queue[m]) + 1
        BY <1>4, <3>1, <3>3
      <4>2. \A i \in 1..Len(queue'[m]) : /\ target'[queue'[m][i]] = m
                                        /\ queue'[m][i] # current'[m]
                                        /\ log'[queue'[m][i]] = <<>>
        BY <1>1, <1>4, <1>5, <1>6, <1>7, <3>1, <3>3, <4>1 DEF OwnQueue
      <4>3. \A i, k \in 1..Len(queue'[m]) : queue'[m][i] = queue'[m][k] => i = k
        BY <1>4, <3>1, <3>3, <4>1 DEF OwnQueue
      <4>4. QED
        BY <3>3, <4>2, <4>3 DEF OwnQueue
    <3>4. QED
      BY <3>2, <3>3
  <2>3. ASSUME NEW k \in Jobs PROVE Targeted(k)'
    <3>1. CASE k = j
      BY <1>7, <3>1, RuntimeAssumption DEF Targeted
    <3>2. CASE k # j
      BY <1>1, <1>6, <3>2 DEF Inv, JobsPlaced, Targeted
    <3>3. QED
      BY <3>1, <3>2
  <2>4. QED
    BY <2>1, <2>2, <2>3 DEF JobsPlaced
<1>10. StreamsOpen'
  <2> SUFFICES ASSUME NEW n \in Models, thread'[n] \in Generating
               PROVE  StreamOpen(n)'
    BY DEF StreamsOpen, StreamOpen
  <2>1. thread[n] \in Generating
    BY <1>2, <1>3 DEF TypeOK, Generating, Decoding
  <2>2. current[n] \in Jobs /\ current[n] # j
    BY <1>8, <2>1, Separate DEF Generating, Holding
  <2>3. StreamOpen(n)
    BY DEF Inv, StreamsOpen
  <2>4. QED
    BY <1>1, <1>6, <2>1, <2>2, <2>3 DEF StreamOpen
<1>11. StreamWellFormed'
  BY <1>1 DEF Inv, StreamWellFormed
<1>12. Released'
  <2> SUFFICES ASSUME NEW k \in Jobs, ticket'[k] = "open" PROVE AnsweredOrOwned(k)'
    BY DEF Released, AnsweredOrOwned
  <2>1. CASE k = j
    BY <1>4, <1>7, <1>3, <2>1, WorkerTypes DEF AnsweredOrOwned, Queued
  <2>2. CASE k # j
    <3>1. target[k] \in Models /\ AnsweredOrOwned(k) /\ ticket[k] = "open" /\ target'[k] = target[k]
      BY <1>6, <2>2, IssuedTarget DEF Inv, Released
    <3>2. Queued(k, target[k]) => Queued(k, target[k])'
      <4>1. Len(queue[target[k]]) \in Nat
        BY <1>3, <3>1, WorkerTypes
      <4>2. QED
        BY <1>4, <3>1, <4>1 DEF Queued
    <3>3. thread'[target[k]] = thread[target[k]] \/ thread[target[k]] = "none"
      <4>1. thread \in [Models -> Threads]
        BY <1>3 DEF TypeOK
      <4>2. CASE UNCHANGED thread
        BY <4>2
      <4>3. CASE thread[m] = "none" /\ thread' = [thread EXCEPT ![m] = "loading"]
        BY <4>1, <4>3, <3>1
      <4>4. QED
        BY <1>2, <4>2, <4>3
    <3>4. current[target[k]] = k => thread[target[k]] # "none"
      <4>1. ThreadHolds(target[k])
        BY <3>1 DEF Inv, ThreadsHold
      <4>2. QED
        BY <4>1, RuntimeAssumption DEF ThreadHolds, Holding, Decoding
    <3>5. thread[target[k]] = "panicked" => thread'[target[k]] = "panicked"
      BY <3>3
    <3>6. current[target[k]] = k /\ thread[target[k]] # "release" => thread'[target[k]] # "release"
      BY <3>3, <3>4
    <3>7. QED
      BY <1>1, <3>1, <3>2, <3>5, <3>6 DEF AnsweredOrOwned, Answered
  <2>3. QED
    BY <2>1, <2>2
<1>13. NoSilentClose'
  <2> SUFFICES ASSUME NEW k \in Jobs, ended'[k]
               PROVE  Answered(k)' \/ thread'[target'[k]] = "panicked"
    BY DEF NoSilentClose
  <2>1. ended[k] /\ k # j
    BY <1>1, <1>5
  <2>2. target[k] \in Models /\ target'[k] = target[k]
    BY <1>6, <2>1, IssuedTarget
  <2>3. Answered(k) \/ thread[target[k]] = "panicked"
    BY <2>1 DEF Inv, NoSilentClose
  <2>4. QED
    BY <1>1, <1>2, <1>3, <2>2, <2>3 DEF Answered, TypeOK
<1>14. QED
  BY <1>9, <1>10, <1>11, <1>12, <1>13 DEF Inv

\* A worker takes the job at the head of its queue.
LEMMA TakeKeepsInv ==
    ASSUME Inv, TypeOK', ThreadsHold', NEW m \in Models, Take(m),
           thread[m] \in {"recv", "failed"}, NEW p \in {"dequeued", "reject"}, Goto(m, p),
           UNCHANGED <<gen, target, ticket, log, ended>>
    PROVE  Inv'
<1> DEFINE j == queue[m][1]
<1>1. /\ queue[m] # <<>> /\ queue[m] \in Seq(Jobs) /\ Len(queue[m]) \in Nat
      /\ thread \in [Models -> Threads] /\ current \in [Models -> Jobs \cup {NoJob}]
      /\ queue \in [Models -> Seq(Jobs)]
  BY WorkerTypes DEF Take, Inv, TypeOK
<1>2. /\ current' = [current EXCEPT ![m] = j]
      /\ queue' = [queue EXCEPT ![m] = Tail(queue[m])]
      /\ thread' = [thread EXCEPT ![m] = p]
  BY <1>1 DEF Take, Goto
<1>3. /\ Len(queue'[m]) = Len(queue[m]) - 1 /\ Len(queue[m]) >= 1
      /\ \A i \in 1..Len(queue'[m]) : i + 1 \in 1..Len(queue[m]) /\ queue'[m][i] = queue[m][i + 1]
      /\ \A n \in Models : n # m => /\ queue'[n] = queue[n]
                                    /\ current'[n] = current[n]
                                    /\ thread'[n] = thread[n]
      /\ current'[m] = j /\ thread'[m] = p
      /\ 1 \in 1..Len(queue[m])
  BY <1>1, <1>2
<1>4. OwnQueue(m) /\ ThreadHolds(m)
  BY DEF Inv, JobsPlaced, ThreadsHold
<1>5. /\ target[j] = m /\ log[j] = <<>>
      /\ \A i \in 1..Len(queue'[m]) : queue'[m][i] # j
  BY <1>3, <1>4 DEF OwnQueue
<1>6. j \in Jobs /\ gen[m].sent = 0
  BY <1>1, <1>3, <1>4 DEF ThreadHolds, Fresh, Decoding
<1>7. JobsPlaced'
  <2>1. ASSUME NEW n \in Models PROVE OwnJob(n)'
    BY <1>3, <1>5 DEF Inv, JobsPlaced, OwnJob
  <2>2. ASSUME NEW n \in Models PROVE OwnQueue(n)'
    <3>1. CASE n # m
      BY <1>3, <3>1 DEF Inv, JobsPlaced, OwnQueue
    <3>2. CASE n = m
      <4>1. \A i \in 1..Len(queue'[m]) : target'[queue'[m][i]] = m /\ log'[queue'[m][i]] = <<>>
        BY <1>3, <1>4 DEF OwnQueue
      <4>2. \A i, k \in 1..Len(queue'[m]) : queue'[m][i] = queue'[m][k] => i = k
        <5> SUFFICES ASSUME NEW i \in 1..Len(queue'[m]), NEW k \in 1..Len(queue'[m]),
                            queue'[m][i] = queue'[m][k]
                     PROVE  i = k
          OBVIOUS
        <5>1. i + 1 = k + 1
          BY <1>3, <1>4 DEF OwnQueue
        <5>2. QED
          BY <5>1, <1>1, <1>3
      <4>3. QED
        BY <1>3, <1>5, <3>2, <4>1, <4>2 DEF OwnQueue
    <3>3. QED
      BY <3>1, <3>2
  <2>3. ASSUME NEW k \in Jobs PROVE Targeted(k)'
    BY DEF Inv, JobsPlaced, Targeted
  <2>4. QED
    BY <2>1, <2>2, <2>3 DEF JobsPlaced
<1>8. StreamsOpen'
  <2>1. ASSUME NEW n \in Models, n # m PROVE StreamOpen(n)'
    BY <1>3, <2>1 DEF Inv, StreamsOpen, StreamOpen
  <2>2. StreamOpen(m)'
    BY <1>3, <1>5, <1>6 DEF StreamOpen
  <2>3. QED
    BY <2>1, <2>2 DEF StreamsOpen
<1>9. StreamWellFormed'
  BY DEF Inv, StreamWellFormed
<1>10. Released'
  <2> SUFFICES ASSUME NEW k \in Jobs, ticket[k] = "open" PROVE AnsweredOrOwned(k)'
    BY DEF Released, AnsweredOrOwned
  <2>1. target[k] \in Models /\ AnsweredOrOwned(k)
    BY IssuedTarget DEF Inv, Released
  <2>2. CASE target[k] # m
    BY <1>3, <2>1, <2>2 DEF AnsweredOrOwned, Answered, Queued
  <2>3. CASE target[k] = m /\ k = j
    BY <1>3, <2>3 DEF AnsweredOrOwned
  <2>4. CASE target[k] = m /\ k # j
    <3>1. current[m] # k
      BY <1>4, RuntimeAssumption DEF ThreadHolds, Holding, Decoding
    <3>2. Answered(k) \/ Queued(k, m)
      BY <2>1, <2>4, <3>1 DEF AnsweredOrOwned
    <3>3. ASSUME Queued(k, m) PROVE Queued(k, m)'
      <4>1. PICK i \in 1..Len(queue[m]) : queue[m][i] = k
        BY <3>3 DEF Queued
      <4>2. i - 1 \in 1..Len(queue'[m]) /\ (i - 1) + 1 = i
        BY <1>1, <1>3, <2>4, <4>1
      <4>3. queue'[m][i - 1] = k
        BY <1>3, <4>1, <4>2
      <4>4. QED
        BY <4>2, <4>3 DEF Queued
    <3>4. QED
      BY <2>4, <3>2, <3>3 DEF AnsweredOrOwned, Answered
  <2>5. QED
    BY <2>2, <2>3, <2>4
<1>11. NoSilentClose'
  <2> SUFFICES ASSUME NEW k \in Jobs, ended[k]
               PROVE  Answered(k)' \/ thread'[target[k]] = "panicked"
    BY DEF NoSilentClose
  <2>1. target[k] \in Models /\ (Answered(k) \/ thread[target[k]] = "panicked")
    BY IssuedTarget DEF Inv, NoSilentClose
  <2>2. QED
    BY <1>3, <2>1 DEF Answered
<1>12. QED
  BY <1>7, <1>8, <1>9, <1>10, <1>11 DEF Inv

\* A piece of text is no terminal event.
LEMMA TokenKind == \A n : Token(n).kind = "token" /\ Token(n).kind \notin Terminals
BY DEF Token, Terminals

\* A worker that generates appends one event to the stream of its job, and to no other.
LEMMA EventAppended ==
    ASSUME Inv, NEW m \in Models, thread[m] \in Generating, NEW ev \in Event,
           log' = [log EXCEPT ![current[m]] = Append(log[current[m]], ev)]
    PROVE  /\ Len(log'[current[m]]) = Len(log[current[m]]) + 1
           /\ Len(log[current[m]]) \in Nat
           /\ log'[current[m]][Len(log[current[m]]) + 1] = ev
           /\ \A i \in 1..Len(log[current[m]]) : log'[current[m]][i] = Token(i)
           /\ \A k \in Jobs : k # current[m] => log'[k] = log[k]
           /\ \A k \in Jobs : Answered(k) => k # current[m]
<1> DEFINE j == current[m]
<1>1. j \in Jobs
  BY Separate DEF Generating, Holding
<1>2. log[j] \in Seq(Event) /\ Len(log[j]) \in Nat /\ log \in [Jobs -> Seq(Event)]
  BY <1>1, LogTypes DEF Inv, TypeOK
<1>3. \A i \in 1..Len(log[j]) : log[j][i] = Token(i)
  BY DEF Inv, StreamsOpen, StreamOpen
<1>4. log'[j] = Append(log[j], ev)
  BY <1>1, <1>2
<1>5. /\ Len(log'[j]) = Len(log[j]) + 1 /\ log'[j][Len(log[j]) + 1] = ev
      /\ \A i \in 1..Len(log[j]) : log'[j][i] = log[j][i]
  BY <1>2, <1>4
<1>6. ~Answered(j)
  <2> SUFFICES ASSUME log[j] # <<>> PROVE log[j][Len(log[j])].kind \notin Terminals
    BY DEF Answered
  <2>1. Len(log[j]) \in 1..Len(log[j])
    BY <1>2
  <2>2. log[j][Len(log[j])] = Token(Len(log[j]))
    BY <1>3, <2>1
  <2>3. QED
    BY <2>2, TokenKind
<1>7. QED
  BY <1>2, <1>3, <1>5, <1>6

\* The event is the next piece, or ends the stream: the stream stays well formed.
LEMMA EventKeepsStream ==
    ASSUME Inv, NEW m \in Models, thread[m] \in Generating, NEW ev \in Event,
           log' = [log EXCEPT ![current[m]] = Append(log[current[m]], ev)],
           ev = Token(Len(log[current[m]]) + 1) \/ ev.kind \in Terminals
    PROVE  StreamWellFormed'
<1> DEFINE j == current[m]
<1> SUFFICES ASSUME NEW k \in Jobs, NEW i \in 1..Len(log'[k])
             PROVE  \/ log'[k][i] = Token(i)
                    \/ i = Len(log'[k]) /\ log'[k][i].kind \in Terminals
  BY DEF StreamWellFormed, Token, Terminals
<1>0. /\ Len(log'[j]) = Len(log[j]) + 1 /\ Len(log[j]) \in Nat
      /\ log'[j][Len(log[j]) + 1] = ev
      /\ \A a \in 1..Len(log[j]) : log'[j][a] = Token(a)
  BY EventAppended
<1>1. CASE k # j
  BY <1>1, EventAppended DEF Inv, StreamWellFormed
<1>2. CASE k = j
  <2>1. i \in 1..Len(log[j]) \/ i = Len(log[j]) + 1
    BY <1>2, <1>0
  <2>2. CASE i \in 1..Len(log[j])
    BY <1>2, <2>2, <1>0
  <2>3. CASE i = Len(log[j]) + 1
    <3>1. log'[k][i] = ev /\ Len(log'[k]) = i
      BY <1>2, <2>3, <1>0
    <3>2. QED
      BY <2>3, <3>1
  <2>4. QED
    BY <2>1, <2>2, <2>3
<1>3. QED
  BY <1>1, <1>2

\* Placement when the log of the worker's job may have grown and the worker may have
\* dropped its job.
LEMMA LogKeepsPlaced ==
    ASSUME Inv, TypeOK', NEW m \in Models, thread[m] \in Holding,
           UNCHANGED <<queue, target, ticket, ended>>,
           current' = current \/ current' = [current EXCEPT ![m] = NoJob],
           \A k \in Jobs : k # current[m] => log'[k] = log[k]
    PROVE  JobsPlaced'
<1>1. \A n \in Models : current'[n] = current[n] \/ current'[n] = NoJob
  BY DEF Inv, TypeOK
<1>2. current[m] \in Jobs /\ target[current[m]] = m
  BY Separate
<1>3. ASSUME NEW n \in Models PROVE OwnJob(n)'
  BY <1>1 DEF Inv, JobsPlaced, OwnJob
<1>4. ASSUME NEW n \in Models PROVE OwnQueue(n)'
  <2>1. \A i \in 1..Len(queue[n]) : queue[n][i] \in Jobs /\ queue[n][i] # current[m]
    BY Separate, WorkerTypes DEF Inv
  <2>2. \A i \in 1..Len(queue[n]) : queue[n][i] # current'[n] /\ log'[queue[n][i]] = log[queue[n][i]]
    BY <1>1, <2>1, RuntimeAssumption DEF Inv, JobsPlaced, OwnQueue
  <2>3. QED
    BY <2>2 DEF Inv, JobsPlaced, OwnQueue
<1>5. ASSUME NEW k \in Jobs PROVE Targeted(k)'
  <2>1. Targeted(k)
    BY DEF Inv, JobsPlaced
  <2>2. k = current[m] => target[k] # NoModel
    BY <1>2, RuntimeAssumption
  <2>3. QED
    BY <2>1, <2>2 DEF Targeted
<1>6. QED
  BY <1>3, <1>4, <1>5 DEF JobsPlaced

\* on_token: the next piece is sent, or the ticket is gone and nothing is.
LEMMA PieceKeepsInv ==
    ASSUME Inv, TypeOK', ThreadsHold', NEW m \in Models, thread[m] \in {"send", "flush"},
           SendPiece(m), gen'[m].sent = gen[m].sent + 1,
           \A n \in Models : n # m => gen'[n] = gen[n] /\ thread'[n] = thread[n],
           thread'[m] \in {"forward", "flush", "finish"},
           UNCHANGED <<queue, current, target, ticket, ended>>
    PROVE  Inv'
<1> DEFINE j == current[m]
           ev == Token(gen[m].sent + 1)
<1>1. thread[m] \in Generating /\ thread[m] \in Holding
  BY DEF Generating, Holding, Decoding
<1>2. j \in Jobs /\ target[j] = m /\ StreamOpen(m)
  BY <1>1, Separate DEF Inv, StreamsOpen
<1>3. gen[m].sent \in Nat /\ ev \in Event
  BY DEF Inv, TypeOK, Event, Token
<1>4. /\ ticket[j] = "open" => Len(log'[j]) = gen[m].sent + 1
      /\ \A i \in 1..Len(log'[j]) : log'[j][i] = Token(i)
      /\ \A k \in Jobs : k # j => log'[k] = log[k]
      /\ \A k \in Jobs : Answered(k) => log'[k] = log[k]
      /\ StreamWellFormed'
  <2>1. CASE ticket[j] = "open" /\ log' = [log EXCEPT ![j] = Append(log[j], ev)]
    <3>1. Len(log[j]) = gen[m].sent
      BY <1>1, <1>2, <2>1 DEF StreamOpen
    <3>2. Len(log'[j]) = gen[m].sent + 1 /\ log'[j][gen[m].sent + 1] = ev
      <4>1. Len(log'[j]) = Len(log[j]) + 1 /\ log'[j][Len(log[j]) + 1] = ev
        BY <1>1, <1>3, <2>1, EventAppended
      <4>2. QED
        BY <3>1, <4>1
    <3>3. \A i \in 1..gen[m].sent : log'[j][i] = Token(i)
      <4>1. \A i \in 1..Len(log[j]) : log'[j][i] = Token(i)
        BY <1>1, <1>3, <2>1, EventAppended
      <4>2. QED
        BY <3>1, <4>1
    <3>4. \A i \in 1..(gen[m].sent + 1) : i \in 1..gen[m].sent \/ i = gen[m].sent + 1
      BY <1>3
    <3>5. \A i \in 1..Len(log'[j]) : log'[j][i] = Token(i)
      BY <3>2, <3>3, <3>4
    <3>6. \A k \in Jobs : k # j => log'[k] = log[k]
      BY <1>1, <1>3, <2>1, EventAppended
    <3>7. \A k \in Jobs : Answered(k) => k # j
      BY <1>1, <1>3, <2>1, EventAppended
    <3>8. StreamWellFormed'
      BY <1>1, <1>3, <2>1, <3>1, EventKeepsStream
    <3>9. QED
      BY <3>2, <3>5, <3>6, <3>7, <3>8
  <2>2. CASE ticket[j] = "dropped" /\ log' = log
    BY <1>1, <1>2, <2>2 DEF Inv, StreamOpen, StreamWellFormed
  <2>3. QED
    BY <2>1, <2>2 DEF SendPiece
<1>5. JobsPlaced'
  BY <1>1, <1>4, LogKeepsPlaced
<1>6. StreamsOpen'
  <2>1. ASSUME NEW n \in Models, n # m PROVE StreamOpen(n)'
    <3> SUFFICES ASSUME thread[n] \in Generating PROVE StreamOpen(n)'
      BY <2>1 DEF StreamOpen
    <3>1. current[n] \in Jobs /\ current[n] # j
      BY <1>1, <2>1, Separate DEF Generating, Holding
    <3>2. QED
      BY <1>4, <2>1, <3>1 DEF Inv, StreamsOpen, StreamOpen
  <2>2. StreamOpen(m)'
    BY <1>4 DEF StreamOpen
  <2>3. QED
    BY <2>1, <2>2 DEF StreamsOpen
<1>7. Released'
  <2> SUFFICES ASSUME NEW k \in Jobs, ticket[k] = "open" PROVE AnsweredOrOwned(k)'
    BY DEF Released, AnsweredOrOwned
  <2>1. target[k] \in Models /\ AnsweredOrOwned(k)
    BY IssuedTarget DEF Inv, Released
  <2>2. CASE target[k] = m
    BY <1>1, <1>4, <2>1, <2>2 DEF AnsweredOrOwned, Answered, Queued, Generating
  <2>3. CASE target[k] # m
    BY <1>4, <2>1, <2>3 DEF AnsweredOrOwned, Answered, Queued
  <2>4. QED
    BY <2>2, <2>3
<1>8. NoSilentClose'
  <2> SUFFICES ASSUME NEW k \in Jobs, ended[k]
               PROVE  Answered(k)' \/ thread'[target[k]] = "panicked"
    BY DEF NoSilentClose
  <2>1. target[k] \in Models /\ (Answered(k) \/ thread[target[k]] = "panicked")
    BY IssuedTarget DEF Inv, NoSilentClose
  <2>2. QED
    BY <1>4, <2>1 DEF Answered
<1>9. QED
  BY <1>4, <1>5, <1>6, <1>7, <1>8 DEF Inv

\* blocking_send of the terminal event; afterwards the worker holds its job in "release"
\* or has dropped it.
LEMMA EndKeepsInv ==
    ASSUME Inv, TypeOK', ThreadsHold', NEW m \in Models, thread[m] \in {"finish", "reject"},
           SendEnd(m), thread'[m] \in {"release", "failed"},
           \A n \in Models : n # m => gen'[n] = gen[n] /\ thread'[n] = thread[n],
           current' = current \/ current' = [current EXCEPT ![m] = NoJob],
           UNCHANGED <<queue, target, ticket, ended>>
    PROVE  Inv'
<1> DEFINE j == current[m]
           ev == End(outcome[m])
<1>1. thread[m] \in Generating /\ thread[m] \in Holding
  BY DEF Generating, Holding, Decoding
<1>2. j \in Jobs /\ target[j] = m
  BY <1>1, Separate
<1>3. ev \in Event /\ ev.kind \in Terminals
  BY DEF Inv, ThreadsHold, ThreadHolds, Event, End
<1>4. /\ \A k \in Jobs : k = j /\ ticket[k] = "open" => Answered(k)'
      /\ \A k \in Jobs : k # j => log'[k] = log[k]
      /\ \A k \in Jobs : Answered(k) => log'[k] = log[k]
      /\ StreamWellFormed'
  <2>1. CASE ticket[j] = "open" /\ log' = [log EXCEPT ![j] = Append(log[j], ev)]
    <3>1. /\ log'[j][Len(log'[j])] = ev /\ Len(log'[j]) # 0
          /\ \A k \in Jobs : k # j => log'[k] = log[k]
      <4>1. /\ Len(log'[j]) = Len(log[j]) + 1 /\ Len(log[j]) \in Nat
            /\ log'[j][Len(log[j]) + 1] = ev
            /\ \A k \in Jobs : k # j => log'[k] = log[k]
        BY <1>1, <1>3, <2>1, EventAppended
      <4>2. QED
        BY <4>1
    <3>2. \A k \in Jobs : Answered(k) => k # j
      BY <1>1, <1>3, <2>1, EventAppended
    <3>3. StreamWellFormed'
      BY <1>1, <1>3, <2>1, EventKeepsStream
    <3>4. log'[j] # <<>>
      BY <3>1
    <3>5. \A k \in Jobs : k = j => Answered(k)'
      BY <1>3, <3>1, <3>4 DEF Answered
    <3>6. QED
      BY <3>1, <3>2, <3>3, <3>5
  <2>2. CASE ticket[j] = "dropped" /\ log' = log
    BY <2>2 DEF Inv, StreamWellFormed
  <2>3. QED
    BY <2>1, <2>2 DEF SendEnd
<1>5. JobsPlaced'
  BY <1>1, <1>4, LogKeepsPlaced
<1>6. \A n \in Models : n # m => current'[n] = current[n]
  BY DEF Inv, TypeOK
<1>7. StreamsOpen'
  <2>1. ASSUME NEW n \in Models, n # m PROVE StreamOpen(n)'
    <3> SUFFICES ASSUME thread[n] \in Generating PROVE StreamOpen(n)'
      BY <2>1 DEF StreamOpen
    <3>1. current[n] \in Jobs /\ current[n] # j
      BY <1>1, <2>1, Separate DEF Generating, Holding
    <3>2. QED
      BY <1>4, <1>6, <2>1, <3>1 DEF Inv, StreamsOpen, StreamOpen
  <2>2. StreamOpen(m)'
    BY DEF StreamOpen, Generating, Decoding
  <2>3. QED
    BY <2>1, <2>2 DEF StreamsOpen
<1>8. Released'
  <2> SUFFICES ASSUME NEW k \in Jobs, ticket[k] = "open" PROVE AnsweredOrOwned(k)'
    BY DEF Released, AnsweredOrOwned
  <2>1. target[k] \in Models /\ AnsweredOrOwned(k)
    BY IssuedTarget DEF Inv, Released
  <2>2. CASE k = j
    <3>1. Answered(k)'
      BY <1>4, <2>2
    <3>2. QED
      BY <3>1 DEF AnsweredOrOwned
  <2>3. CASE k # j /\ target[k] = m
    BY <1>1, <1>4, <2>1, <2>3 DEF AnsweredOrOwned, Answered, Queued, Generating
  <2>4. CASE target[k] # m
    BY <1>4, <1>6, <2>1, <2>4 DEF AnsweredOrOwned, Answered, Queued
  <2>5. QED
    BY <2>2, <2>3, <2>4
<1>9. NoSilentClose'
  <2> SUFFICES ASSUME NEW k \in Jobs, ended[k]
               PROVE  Answered(k)' \/ thread'[target[k]] = "panicked"
    BY DEF NoSilentClose
  <2>1. target[k] \in Models /\ (Answered(k) \/ thread[target[k]] = "panicked")
    BY IssuedTarget DEF Inv, NoSilentClose
  <2>2. QED
    BY <1>4, <2>1 DEF Answered
<1>10. QED
  BY <1>4, <1>5, <1>7, <1>8, <1>9 DEF Inv

\* A job leaves its worker: after it was answered, or because the thread panicked and
\* took its queue with it.
LEMMA DropKeepsInv ==
    ASSUME Inv, TypeOK', ThreadsHold', NEW m \in Models,
           \/ thread[m] = "release" /\ thread'[m] = "recv" /\ UNCHANGED queue
           \/ /\ thread[m] \in {"loading", "forward", "decode"} /\ thread'[m] = "panicked"
              /\ queue' = [queue EXCEPT ![m] = <<>>],
           Forget(m),
           \A n \in Models : n # m => thread'[n] = thread[n],
           UNCHANGED <<target, ticket, log, ended>>
    PROVE  Inv'
<1>1. /\ current'[m] = NoJob
      /\ \A n \in Models : n # m => /\ current'[n] = current[n]
                                    /\ gen'[n] = gen[n]
                                    /\ queue'[n] = queue[n]
      /\ queue'[m] = queue[m] \/ (queue'[m] = <<>> /\ thread'[m] = "panicked")
  <2>1. current \in [Models -> Jobs \cup {NoJob}] /\ queue \in [Models -> Seq(Jobs)]
        /\ DOMAIN gen = Models
    BY DEF Inv, TypeOK
  <2>2. current' = [current EXCEPT ![m] = NoJob] /\ gen' = [gen EXCEPT ![m] = Fresh]
    BY DEF Forget
  <2>3. queue' = queue \/ (queue' = [queue EXCEPT ![m] = <<>>] /\ thread'[m] = "panicked")
    OBVIOUS
  <2>4. \A n \in Models : n # m => current'[n] = current[n] /\ gen'[n] = gen[n] /\ current'[m] = NoJob
    BY <2>1, <2>2
  <2>5. \A n \in Models : n # m => queue'[n] = queue[n]
    BY <2>1, <2>3
  <2>6. queue'[m] = queue[m] \/ (queue'[m] = <<>> /\ thread'[m] = "panicked")
    BY <2>1, <2>3
  <2>7. QED
    BY <2>1, <2>2, <2>4, <2>5, <2>6
<1>2. JobsPlaced'
  <2>1. ASSUME NEW n \in Models PROVE OwnJob(n)'
    BY <1>1 DEF Inv, JobsPlaced, OwnJob
  <2>2. ASSUME NEW n \in Models PROVE OwnQueue(n)'
    <3>1. OwnQueue(n) /\ \A i \in 1..Len(queue[n]) : queue[n][i] # NoJob
      BY WorkerTypes, RuntimeAssumption DEF Inv, JobsPlaced
    <3>2. CASE queue'[n] = <<>>
      BY <3>2 DEF OwnQueue
    <3>3. CASE queue'[n] = queue[n]
      BY <1>1, <3>1, <3>3 DEF OwnQueue
    <3>4. QED
      BY <1>1, <3>2, <3>3
  <2>3. ASSUME NEW k \in Jobs PROVE Targeted(k)'
    BY DEF Inv, JobsPlaced, Targeted
  <2>4. QED
    BY <2>1, <2>2, <2>3 DEF JobsPlaced
<1>3. StreamsOpen'
  <2> SUFFICES ASSUME NEW n \in Models PROVE StreamOpen(n)'
    BY DEF StreamsOpen
  <2>1. CASE n = m
    BY <2>1 DEF StreamOpen, Generating, Decoding
  <2>2. CASE n # m
    BY <1>1, <2>2 DEF Inv, StreamsOpen, StreamOpen
  <2>3. QED
    BY <2>1, <2>2
<1>4. StreamWellFormed'
  BY DEF Inv, StreamWellFormed
<1>5. Released'
  <2> SUFFICES ASSUME NEW k \in Jobs, ticket[k] = "open" PROVE AnsweredOrOwned(k)'
    BY DEF Released, AnsweredOrOwned
  <2>1. target[k] \in Models /\ AnsweredOrOwned(k)
    BY IssuedTarget DEF Inv, Released
  <2>2. CASE target[k] # m
    BY <1>1, <2>1, <2>2 DEF AnsweredOrOwned, Answered, Queued
  <2>3. CASE target[k] = m /\ thread'[m] = "panicked"
    BY <2>3 DEF AnsweredOrOwned
  <2>4. CASE target[k] = m /\ thread[m] = "release" /\ queue' = queue
    BY <1>1, <2>1, <2>4 DEF AnsweredOrOwned, Answered, Queued
  <2>5. QED
    BY <2>2, <2>3, <2>4
<1>6. NoSilentClose'
  <2> SUFFICES ASSUME NEW k \in Jobs, ended[k]
               PROVE  Answered(k)' \/ thread'[target[k]] = "panicked"
    BY DEF NoSilentClose
  <2>1. target[k] \in Models /\ (Answered(k) \/ thread[target[k]] = "panicked")
    BY IssuedTarget DEF Inv, NoSilentClose
  <2>2. QED
    BY <2>1 DEF Answered
<1>7. QED
  BY <1>2, <1>3, <1>4, <1>5, <1>6 DEF Inv
-----------------------------------------------------------------------------
(***************************************************************************)
(* TypeOK and ThreadsHold, action by action.                               *)
(***************************************************************************)
\* An accepted submission keeps the types and gives no thread a job.
LEMMA SubmitTypes ==
    ASSUME Inv, NEW j \in Jobs, NEW m \in Models, NEW s \in SessionIds \cup {NoSession},
           Submit(j, m, s)
    PROVE  TypeOK' /\ ThreadsHold'
<1>1. /\ queue' = [queue EXCEPT ![m] = Append(queue[m], j)]
      /\ accepted' = [accepted EXCEPT ![m] = Append(accepted[m], j)]
      /\ ticket' = [ticket EXCEPT ![j] = "open"]
      /\ target' = [target EXCEPT ![j] = m]
      /\ session' = [session EXCEPT ![j] = s]
      /\ UNCHANGED <<service, current, sessions, clock, gen, outcome, cancel, log, read,
                     ended, late>>
      /\ service = "open" /\ thread[m] # "panicked"
  BY DEF Submit, CanQueue
<1>2. \/ UNCHANGED <<status, thread>> /\ thread[m] # "none"
      \/ /\ thread[m] = "none"
         /\ status' = [status EXCEPT ![m] = "loading"]
         /\ thread' = [thread EXCEPT ![m] = "loading"]
  BY DEF Submit, Workers, Goto
<1>3. TypeOK
  BY DEF Inv
<1>4. TypeOK'
  <2>1. queue' \in [Models -> Seq(Jobs)] /\ accepted' \in [Models -> Seq(Jobs)]
    BY <1>1, <1>3 DEF TypeOK
  <2>2. thread' \in [Models -> Threads] /\ status' \in [Models -> Statuses]
    BY <1>2, <1>3 DEF TypeOK, Threads, Statuses
  <2>3. /\ ticket' \in [Jobs -> Tickets] /\ target' \in [Jobs -> Models \cup {NoModel}]
        /\ session' \in [Jobs -> SessionIds \cup {NoSession}]
    BY <1>1, <1>3 DEF TypeOK, Tickets
  <2>4. QED
    BY <1>1, <1>3, <2>1, <2>2, <2>3 DEF TypeOK
<1>5. ThreadsHold'
  <2> SUFFICES ASSUME NEW n \in Models PROVE ThreadHolds(n)'
    BY DEF ThreadsHold
  <2>1. ThreadHolds(n) /\ ThreadHolds(m)
    BY DEF Inv, ThreadsHold
  <2>2. CASE n # m
    BY <1>1, <1>2, <1>3, <2>1, <2>2 DEF ThreadHolds, TypeOK
  <2>3. CASE n = m
    BY <1>1, <1>2, <1>3, <2>1, <2>3 DEF ThreadHolds, TypeOK, Holding, Decoding
  <2>4. QED
    BY <2>2, <2>3
<1>6. QED
  BY <1>4, <1>5

\* A step that concerns worker m keeps what ThreadsHold says of the others.
LEMMA OthersHold ==
    ASSUME Inv, NEW m \in Models, ThreadHolds(m)', UNCHANGED service,
           \A n \in Models : n # m => /\ thread'[n] = thread[n]
                                      /\ current'[n] = current[n]
                                      /\ queue'[n] = queue[n]
                                      /\ gen'[n] = gen[n]
                                      /\ outcome'[n] = outcome[n]
    PROVE  ThreadsHold'
<1> SUFFICES ASSUME NEW n \in Models, n # m PROVE ThreadHolds(n)'
  BY DEF ThreadsHold
<1>1. ThreadHolds(n)
  BY DEF Inv, ThreadsHold
<1>2. QED
  BY <1>1 DEF ThreadHolds

\* Taking a job from the queue keeps the types.
LEMMA TakeTypes ==
    ASSUME TypeOK, NEW m \in Models, Take(m)
    PROVE  /\ queue' \in [Models -> Seq(Jobs)]
           /\ current' \in [Models -> Jobs \cup {NoJob}]
<1>1. queue \in [Models -> Seq(Jobs)] /\ current \in [Models -> Jobs \cup {NoJob}]
  BY DEF TypeOK
<1>2. Head(queue[m]) \in Jobs /\ Tail(queue[m]) \in Seq(Jobs)
  BY <1>1 DEF Take
<1>3. QED
  BY <1>1, <1>2 DEF Take

\* Dropping the current job keeps the types.
LEMMA ForgetTypes ==
    ASSUME TypeOK, NEW m \in Models, Forget(m)
    PROVE  /\ current' \in [Models -> Jobs \cup {NoJob}]
           /\ gen' \in [Models -> [i : 0..MaxTokens, sent : Nat, pending : BOOLEAN]]
           /\ outcome' \in [Models -> Terminals \cup {"undecided"}]
<1>1. Fresh \in [i : 0..MaxTokens, sent : Nat, pending : BOOLEAN]
  BY RuntimeAssumption DEF Fresh
<1>2. current' \in [Models -> Jobs \cup {NoJob}]
  BY DEF TypeOK, Forget
<1>3. gen' \in [Models -> [i : 0..MaxTokens, sent : Nat, pending : BOOLEAN]]
  BY <1>1 DEF TypeOK, Forget
<1>4. outcome' \in [Models -> Terminals \cup {"undecided"}]
  BY DEF TypeOK, Forget
<1>5. QED
  BY <1>2, <1>3, <1>4

\* Sending the terminal event keeps the types.
LEMMA EndTypes ==
    ASSUME TypeOK, NEW m \in Models, SendEnd(m), outcome[m] \in Terminals,
           current[m] \in Jobs
    PROVE  log' \in [Jobs -> Seq(Event)]
<1>1. End(outcome[m]) \in Event /\ log \in [Jobs -> Seq(Event)]
  BY DEF End, Event, TypeOK
<1>2. CASE UNCHANGED log
  BY <1>1, <1>2
<1>3. CASE log' = [log EXCEPT ![current[m]] = Append(@, End(outcome[m]))]
  BY <1>1, <1>3
<1>4. QED
  BY <1>2, <1>3 DEF SendEnd

\* The decode loop's record after one of its updates.
Loops == [i : 0..MaxTokens, sent : Nat, pending : BOOLEAN]

\* The updates of the decode loop stay within its bounds.
LEMMA LoopUpdates ==
    ASSUME NEW r \in Loops, NEW a \in 0..MaxTokens, NEW b \in Nat, NEW c \in BOOLEAN
    PROVE  /\ [r EXCEPT !.i = a, !.sent = b] \in Loops
           /\ [r EXCEPT !.sent = b, !.pending = c] \in Loops
           /\ [r EXCEPT !.i = a, !.pending = c] \in Loops
           /\ [r EXCEPT !.pending = c] \in Loops
BY DEF Loops

\* The loop of each worker is of that type.
LEMMA LoopTypes ==
    ASSUME TypeOK, NEW m \in Models, NEW r \in Loops,
           \/ gen' = gen
           \/ gen' = [gen EXCEPT ![m] = r]
    PROVE  gen' \in [Models -> Loops]
BY DEF TypeOK, Loops

\* Sending a piece keeps the types.
LEMMA PieceTypes ==
    ASSUME TypeOK, NEW m \in Models, SendPiece(m), current[m] \in Jobs
    PROVE  /\ log' \in [Jobs -> Seq(Event)]
           /\ late' \in [Jobs -> Nat]
           /\ cancel' \in [Jobs -> BOOLEAN]
<1> DEFINE ev == Token(gen[m].sent + 1)
<1>1. /\ gen[m].sent \in Nat /\ log \in [Jobs -> Seq(Event)]
      /\ late \in [Jobs -> Nat] /\ cancel \in [Jobs -> BOOLEAN]
  BY DEF TypeOK
<1>2. ev \in Event
  BY <1>1 DEF Event, Token
<1>3. CASE /\ log' = [log EXCEPT ![current[m]] = Append(@, ev)]
           /\ late' = [late EXCEPT ![current[m]] = IF cancel[current[m]] THEN @ + 1 ELSE @]
           /\ UNCHANGED cancel
  BY <1>1, <1>2, <1>3
<1>4. CASE cancel' = [cancel EXCEPT ![current[m]] = TRUE] /\ UNCHANGED <<log, late>>
  BY <1>1, <1>4
<1>5. QED
  BY <1>3, <1>4 DEF SendPiece

\* Every step of a worker keeps TypeOK.
LEMMA WorkerTypesStep ==
    ASSUME Inv, NEW m \in Models, WorkerStep(m) \/ Panic(m)
    PROVE  TypeOK'
<1> USE DEF Goto, Conclude
<1>1. TypeOK /\ ThreadHolds(m)
  BY DEF Inv, ThreadsHold
<1>2. CASE LoadSucceeds(m)
  BY <1>1, <1>2 DEF LoadSucceeds, TypeOK, jobVars, history, Threads, Statuses
<1>3. CASE LoadFails(m)
  BY <1>1, <1>3 DEF LoadFails, TypeOK, jobVars, history, Threads, Statuses
<1>4. CASE DequeueFailed(m)
  <2>1. Take(m)
    BY <1>4 DEF DequeueFailed
  <2>2. QED
    BY <1>1, <1>4, <2>1, TakeTypes
    DEF DequeueFailed, TypeOK, jobVars, history, Threads, Holding, Terminals
<1>5. CASE Dequeue(m)
  <2>1. Take(m)
    BY <1>5 DEF Dequeue
  <2>2. QED
    BY <1>1, <1>5, <2>1, TakeTypes
    DEF Dequeue, TypeOK, jobVars, history, Threads, Holding, Statuses
<1>6. CASE Exit(m)
  BY <1>1, <1>6 DEF Exit, TypeOK, jobVars, history, Threads, Statuses
<1>7. CASE SkipCancelled(m)
  BY <1>1, <1>7 DEF SkipCancelled, TypeOK, jobVars, history, Threads, Holding, Terminals
<1>8. CASE BeginResident(m)
  BY <1>1, <1>8
  DEF BeginResident, TypeOK, jobVars, history, Admit, Touch, Pools, Resident, Threads,
      Holding, Decoding
<1>9. CASE BeginNew(m)
  <2>1. PICK left \in AfterEviction(sessions[m]) :
          \/ Admit(m, left)
          \/ /\ sessions' = [sessions EXCEPT ![m] = left]
             /\ Conclude(m, "error")
    BY <1>9 DEF BeginNew
  <2>2. sessions[m] \in Pools /\ clock[m] \in Nat /\ session[current[m]] \in SessionIds
    BY <1>1, <1>9 DEF BeginNew, TypeOK
  <2>3. left \in Pools
    BY <2>2, EvictionShape
  <2>4. Touch(left, session[current[m]], clock[m] + 1) \in Pools
    BY <2>2, <2>3, TouchResident
  <2>5. sessions' \in [Models -> Pools]
    <3>1. sessions \in [Models -> Pools]
      BY <1>1 DEF TypeOK
    <3>2. CASE Admit(m, left)
      BY <2>4, <3>1, <3>2 DEF Admit
    <3>3. CASE sessions' = [sessions EXCEPT ![m] = left]
      BY <2>3, <3>1, <3>3
    <3>4. QED
      BY <2>1, <3>2, <3>3
  <2>6. thread' \in [Models -> Threads] /\ outcome' \in [Models -> Terminals \cup {"undecided"}]
    BY <1>1, <2>1 DEF TypeOK, Admit, Threads, Holding, Decoding, Terminals
  <2>7. /\ clock' = [clock EXCEPT ![m] = @ + 1]
        /\ UNCHANGED <<service, status, queue, current, gen, jobVars, history>>
    BY <1>9 DEF BeginNew
  <2>8. QED
    BY <1>1, <2>5, <2>6, <2>7 DEF TypeOK, jobVars, history
<1>10. CASE BeginTransient(m)
  BY <1>1, <1>10 DEF BeginTransient, TypeOK, jobVars, history, Threads, Holding, Decoding
<1>11. CASE Forward(m)
  BY <1>1, <1>11
  DEF Forward, TypeOK, jobVars, history, CancelKinds, Threads, Holding, Decoding, Terminals
<1>12. CASE Decode(m)
  <2>1. gen[m].i < MaxTokens
    BY <1>1, <1>12 DEF Decode, ThreadHolds
  <2>2. gen' \in [Models -> [i : 0..MaxTokens, sent : Nat, pending : BOOLEAN]]
    <3>1. gen[m] \in Loops /\ gen \in [Models -> Loops]
      BY <1>1 DEF TypeOK, Loops
    <3>2. CASE UNCHANGED gen
      BY <3>1, <3>2 DEF Loops
    <3>3. ASSUME NEW left \in BOOLEAN, gen' = [gen EXCEPT ![m].pending = left]
          PROVE  gen' \in [Models -> Loops]
      <4>1. [gen[m] EXCEPT !.pending = left] \in Loops
        BY <3>1 DEF Loops
      <4>2. gen' = [gen EXCEPT ![m] = [gen[m] EXCEPT !.pending = left]]
        BY <3>1, <3>3
      <4>3. QED
        BY <1>1, <4>1, <4>2, LoopTypes
    <3>4. CASE gen' = [gen EXCEPT ![m].i = @ + 1, ![m].pending = TRUE]
      <4>1. [gen[m] EXCEPT !.i = @ + 1, !.pending = TRUE] \in Loops
        <5>1. gen[m].i + 1 \in 0..MaxTokens
          BY <2>1, <3>1, RuntimeAssumption DEF Loops
        <5>2. QED
          BY <3>1, <5>1, LoopUpdates
      <4>2. gen' = [gen EXCEPT ![m] = [gen[m] EXCEPT !.i = @ + 1, !.pending = TRUE]]
        BY <3>1, <3>4
      <4>3. QED
        BY <1>1, <4>1, <4>2, LoopTypes DEF Loops
    <3>5. QED
      BY <1>12, <3>2, <3>3, <3>4 DEF Decode, Loops
  <2>3. thread' \in [Models -> Threads] /\ outcome' \in [Models -> Terminals \cup {"undecided"}]
    <3>1. thread \in [Models -> Threads] /\ outcome \in [Models -> Terminals \cup {"undecided"}]
      BY <1>1 DEF TypeOK
    <3>2. \/ thread' = [thread EXCEPT ![m] = "finish"]
          \/ thread' = [thread EXCEPT ![m] = "flush"]
          \/ thread' = [thread EXCEPT ![m] = "send"]
          \/ thread' = [thread EXCEPT ![m] = "forward"]
      BY <1>12 DEF Decode, NextIteration
    <3>3. \/ outcome' = outcome
          \/ outcome' = [outcome EXCEPT ![m] = "cancelled"]
          \/ outcome' = [outcome EXCEPT ![m] = "error"]
      BY <1>12 DEF Decode
    <3>4. QED
      BY <3>1, <3>2, <3>3 DEF Threads, Holding, Decoding, Terminals
  <2>4. QED
    BY <1>1, <1>12, <2>2, <2>3 DEF Decode, TypeOK, jobVars, history
<1>13. CASE Send(m)
  <2>1. SendPiece(m) /\ gen[m].i < MaxTokens /\ NextIteration(m) /\ current[m] \in Jobs
    BY <1>1, <1>13, WorkerTypes DEF Send, ThreadHolds, Holding, Decoding
  <2>2. gen' \in [Models -> [i : 0..MaxTokens, sent : Nat, pending : BOOLEAN]]
    <3>1. gen[m] \in Loops /\ gen \in [Models -> Loops]
      BY <1>1 DEF TypeOK, Loops
    <3>2. [gen[m] EXCEPT !.i = @ + 1, !.sent = @ + 1] \in Loops
      <4>1. gen[m].sent + 1 \in Nat /\ gen[m].i + 1 \in 0..MaxTokens
        BY <2>1, <3>1, RuntimeAssumption DEF Loops
      <4>2. QED
        BY <3>1, <4>1, LoopUpdates
    <3>3. gen' = [gen EXCEPT ![m] = [gen[m] EXCEPT !.i = @ + 1, !.sent = @ + 1]]
      BY <1>13, <3>1 DEF Send
    <3>4. QED
      BY <1>1, <3>2, <3>3, LoopTypes DEF Loops
  <2>3. thread' \in [Models -> Threads]
    BY <1>1, <2>1 DEF NextIteration, TypeOK, Threads, Holding, Decoding
  <2>4. QED
    BY <1>1, <1>13, <2>1, <2>2, <2>3, PieceTypes DEF Send, TypeOK
<1>14. CASE Flush(m)
  <2>1. gen' \in [Models -> [i : 0..MaxTokens, sent : Nat, pending : BOOLEAN]]
    <3>1. gen[m] \in Loops /\ gen \in [Models -> Loops]
      BY <1>1 DEF TypeOK, Loops
    <3>2. [gen[m] EXCEPT !.sent = @ + 1, !.pending = FALSE] \in Loops
      <4>1. gen[m].sent + 1 \in Nat /\ gen[m].i \in 0..MaxTokens
        BY <3>1 DEF Loops
      <4>2. \A c \in BOOLEAN : [gen[m] EXCEPT !.sent = @ + 1, !.pending = c] \in Loops
        BY <3>1, <4>1, LoopUpdates
      <4>3. QED
        BY <4>2
    <3>3. \/ gen' = gen
          \/ gen' = [gen EXCEPT ![m] = [gen[m] EXCEPT !.sent = @ + 1, !.pending = FALSE]]
      BY <1>14, <3>1 DEF Flush
    <3>4. QED
      BY <1>1, <3>2, <3>3, LoopTypes DEF Loops
  <2>0. current[m] \in Jobs
    BY <1>1, <1>14, WorkerTypes DEF Flush, ThreadHolds, Holding, Decoding
  <2>2. /\ log' \in [Jobs -> Seq(Event)] /\ late' \in [Jobs -> Nat]
        /\ cancel' \in [Jobs -> BOOLEAN]
    <3>1. CASE gen[m].pending
      BY <1>1, <1>14, <2>0, <3>1, PieceTypes DEF Flush
    <3>2. CASE ~gen[m].pending
      BY <1>1, <1>14, <3>2 DEF Flush, TypeOK
    <3>3. QED
      BY <3>1, <3>2
  <2>3. QED
    BY <1>1, <1>14, <2>1, <2>2 DEF Flush, TypeOK, Threads, Holding, Terminals
<1>15. CASE Finish(m)
  <2>1. SendEnd(m) /\ outcome[m] \in Terminals /\ current[m] \in Jobs
    BY <1>1, <1>15, WorkerTypes DEF Finish, ThreadHolds, Holding
  <2>2. QED
    BY <1>1, <1>15, <2>1, EndTypes DEF Finish, TypeOK, history, Threads, Holding
<1>16. CASE Release(m)
  <2>1. Forget(m)
    BY <1>16 DEF Release
  <2>2. QED
    BY <1>1, <1>16, <2>1, ForgetTypes DEF Release, TypeOK, jobVars, history, Threads, Statuses
<1>17. CASE Reject(m)
  <2>1. Forget(m) /\ SendEnd(m) /\ outcome[m] \in Terminals /\ current[m] \in Jobs
    BY <1>1, <1>17, WorkerTypes DEF Reject, ThreadHolds, Holding
  <2>2. QED
    BY <1>1, <1>17, <2>1, ForgetTypes, EndTypes DEF Reject, TypeOK, history, Threads
<1>18. CASE Panic(m)
  <2>1. Forget(m)
    BY <1>18 DEF Panic
  <2>2. queue' \in [Models -> Seq(Jobs)] /\ sessions' \in [Models -> Pools]
    BY <1>1, <1>18 DEF Panic, TypeOK, EmptyPool, Pools
  <2>3. QED
    BY <1>1, <1>18, <2>1, <2>2, ForgetTypes DEF Panic, TypeOK, jobVars, history, Threads
<1>19. QED
  BY <1>2, <1>3, <1>4, <1>5, <1>6, <1>7, <1>8, <1>9, <1>10, <1>11, <1>12, <1>13, <1>14,
     <1>15, <1>16, <1>17, <1>18
  DEF WorkerStep

\* A worker that moves on within the job it generates.
LEMMA MovesHold ==
    ASSUME TypeOK, NEW m \in Models, ThreadHolds(m),
           thread[m] \in {"dequeued", "forward", "decode", "send"},
           UNCHANGED <<service, queue, current>>,
           \A n \in Models : n # m => gen'[n] = gen[n],
           NEW p \in {"forward", "decode", "send", "flush", "finish"},
           Goto(m, p),
           \/ UNCHANGED outcome /\ p # "finish"
           \/ \E kind \in Terminals : outcome' = [outcome EXCEPT ![m] = kind],
           p \in {"forward", "decode", "send"} => gen'[m].i < MaxTokens
    PROVE  /\ \A n \in Models : n # m => /\ thread'[n] = thread[n]
                                         /\ current'[n] = current[n]
                                         /\ queue'[n] = queue[n]
                                         /\ gen'[n] = gen[n]
                                         /\ outcome'[n] = outcome[n]
           /\ ThreadHolds(m)'
<1>1. thread \in [Models -> Threads] /\ outcome \in [Models -> Terminals \cup {"undecided"}]
  BY DEF TypeOK
<1>2. /\ thread'[m] = p
      /\ \A n \in Models : n # m => thread'[n] = thread[n]
  BY <1>1 DEF Goto
<1>3. /\ p = "finish" => outcome'[m] \in Terminals
      /\ \A n \in Models : n # m => outcome'[n] = outcome[n]
  BY <1>1
<1>4. ThreadHolds(m)'
  BY <1>2, <1>3 DEF ThreadHolds, Holding, Decoding
<1>5. QED
  BY <1>2, <1>3, <1>4

\* Every step of a worker keeps what the place of a thread says of its job.
LEMMA WorkerHoldsStep ==
    ASSUME Inv, NEW m \in Models, WorkerStep(m) \/ Panic(m)
    PROVE  ThreadsHold'
<1> USE DEF Goto, Conclude
<1> DEFINE Others(n) == /\ thread'[n] = thread[n]
                        /\ current'[n] = current[n]
                        /\ queue'[n] = queue[n]
                        /\ gen'[n] = gen[n]
                        /\ outcome'[n] = outcome[n]
<1> SUFFICES /\ UNCHANGED service
             /\ \A n \in Models : n # m => Others(n)
             /\ ThreadHolds(m)'
  BY OthersHold
<1>1. TypeOK /\ ThreadHolds(m)
  BY DEF Inv, ThreadsHold
<1>2. CASE LoadSucceeds(m)
  BY <1>1, <1>2, RuntimeAssumption
  DEF LoadSucceeds, TypeOK, ThreadHolds, Holding, Decoding, Terminals
<1>3. CASE LoadFails(m)
  BY <1>1, <1>3, RuntimeAssumption
  DEF LoadFails, TypeOK, ThreadHolds, Holding, Decoding, Terminals
<1>4. CASE DequeueFailed(m)
  BY <1>1, <1>4, RuntimeAssumption
  DEF DequeueFailed, Take, TypeOK, ThreadHolds, Holding, Decoding, Terminals
<1>5. CASE Dequeue(m)
  BY <1>1, <1>5, RuntimeAssumption
  DEF Dequeue, Take, TypeOK, ThreadHolds, Holding, Decoding, Terminals
<1>6. CASE Exit(m)
  BY <1>1, <1>6, RuntimeAssumption DEF Exit, TypeOK, ThreadHolds, Holding, Decoding, Terminals
<1>7. CASE SkipCancelled(m)
  BY <1>1, <1>7, RuntimeAssumption
  DEF SkipCancelled, TypeOK, ThreadHolds, Holding, Decoding, Terminals
<1>8. CASE BeginResident(m)
  <2>1. /\ thread[m] = "dequeued" /\ UNCHANGED <<service, queue, current, gen>>
        /\ \/ thread' = [thread EXCEPT ![m] = "forward"] /\ UNCHANGED outcome
           \/ /\ thread' = [thread EXCEPT ![m] = "finish"]
              /\ outcome' = [outcome EXCEPT ![m] = "error"]
    BY <1>8 DEF BeginResident, Admit
  <2>2. gen'[m].i < MaxTokens
    BY <1>1, <2>1, RuntimeAssumption DEF ThreadHolds, Fresh, Decoding
  <2>3. CASE thread' = [thread EXCEPT ![m] = "forward"] /\ UNCHANGED outcome
    BY <1>1, <2>1, <2>2, <2>3, MovesHold
  <2>4. CASE /\ thread' = [thread EXCEPT ![m] = "finish"]
            /\ outcome' = [outcome EXCEPT ![m] = "error"]
    BY <1>1, <2>1, <2>4, MovesHold DEF Terminals
  <2>5. QED
    BY <2>1, <2>3, <2>4
<1>9. CASE BeginNew(m)
  <2>1. /\ thread[m] = "dequeued" /\ UNCHANGED <<service, queue, current, gen>>
        /\ \/ thread' = [thread EXCEPT ![m] = "forward"] /\ UNCHANGED outcome
           \/ /\ thread' = [thread EXCEPT ![m] = "finish"]
              /\ outcome' = [outcome EXCEPT ![m] = "error"]
    BY <1>9 DEF BeginNew, Admit
  <2>2. gen'[m].i < MaxTokens
    BY <1>1, <2>1, RuntimeAssumption DEF ThreadHolds, Fresh, Decoding
  <2>3. CASE thread' = [thread EXCEPT ![m] = "forward"] /\ UNCHANGED outcome
    BY <1>1, <2>1, <2>2, <2>3, MovesHold
  <2>4. CASE /\ thread' = [thread EXCEPT ![m] = "finish"]
            /\ outcome' = [outcome EXCEPT ![m] = "error"]
    BY <1>1, <2>1, <2>4, MovesHold DEF Terminals
  <2>5. QED
    BY <2>1, <2>3, <2>4
<1>10. CASE BeginTransient(m)
  <2>1. /\ thread[m] = "dequeued" /\ UNCHANGED <<service, queue, current, gen>>
        /\ \/ thread' = [thread EXCEPT ![m] = "forward"] /\ UNCHANGED outcome
           \/ /\ thread' = [thread EXCEPT ![m] = "finish"]
              /\ outcome' = [outcome EXCEPT ![m] = "error"]
    BY <1>10 DEF BeginTransient, Admit
  <2>2. gen'[m].i < MaxTokens
    BY <1>1, <2>1, RuntimeAssumption DEF ThreadHolds, Fresh, Decoding
  <2>3. CASE thread' = [thread EXCEPT ![m] = "forward"] /\ UNCHANGED outcome
    BY <1>1, <2>1, <2>2, <2>3, MovesHold
  <2>4. CASE /\ thread' = [thread EXCEPT ![m] = "finish"]
            /\ outcome' = [outcome EXCEPT ![m] = "error"]
    BY <1>1, <2>1, <2>4, MovesHold DEF Terminals
  <2>5. QED
    BY <2>1, <2>3, <2>4
<1>11. CASE Forward(m)
  <2>1. /\ thread[m] = "forward" /\ UNCHANGED <<service, queue, current, gen>>
        /\ \/ thread' = [thread EXCEPT ![m] = "decode"] /\ UNCHANGED outcome
           \/ /\ thread' = [thread EXCEPT ![m] = "finish"]
              /\ \E kind \in Terminals : outcome' = [outcome EXCEPT ![m] = kind]
    BY <1>11 DEF Forward, CancelKinds, Terminals
  <2>2. gen'[m].i < MaxTokens
    BY <1>1, <2>1 DEF ThreadHolds
  <2>3. CASE thread' = [thread EXCEPT ![m] = "decode"] /\ UNCHANGED outcome
    BY <1>1, <2>1, <2>2, <2>3, MovesHold
  <2>4. CASE /\ thread' = [thread EXCEPT ![m] = "finish"]
            /\ \E kind \in Terminals : outcome' = [outcome EXCEPT ![m] = kind]
    BY <1>1, <2>1, <2>4, MovesHold
  <2>5. QED
    BY <2>1, <2>3, <2>4
<1>12. CASE Decode(m)
  <2>1. /\ thread[m] = "decode" /\ UNCHANGED <<service, queue, current>>
        /\ \/ UNCHANGED gen
           \/ \E left \in BOOLEAN : gen' = [gen EXCEPT ![m].pending = left]
           \/ gen' = [gen EXCEPT ![m].i = @ + 1, ![m].pending = TRUE]
    BY <1>12 DEF Decode
  <2>2. /\ \A n \in Models : n # m => gen'[n] = gen[n]
        /\ gen'[m].i = gen[m].i \/ gen'[m].i = gen[m].i + 1
        /\ thread \in [Models -> Threads] /\ outcome \in [Models -> Terminals \cup {"undecided"}]
    BY <1>1, <2>1 DEF TypeOK
  <2>3. \/ /\ thread' = [thread EXCEPT ![m] = "finish"]
           /\ \E kind \in Terminals : outcome' = [outcome EXCEPT ![m] = kind]
        \/ thread' = [thread EXCEPT ![m] = "flush"] /\ UNCHANGED outcome
        \/ /\ thread' = [thread EXCEPT ![m] = "send"] /\ UNCHANGED outcome
           /\ gen'[m].i = gen[m].i
        \/ /\ thread' = [thread EXCEPT ![m] = "forward"] /\ UNCHANGED outcome
           /\ gen'[m].i < MaxTokens
    <3>1. CASE NextIteration(m) /\ UNCHANGED outcome /\ gen' = [gen EXCEPT ![m].i = @ + 1, ![m].pending = TRUE]
      BY <1>1, <3>1 DEF NextIteration, TypeOK
    <3>2. CASE Goto(m, "send") /\ UNCHANGED outcome /\ \E left \in BOOLEAN : gen' = [gen EXCEPT ![m].pending = left]
      BY <1>1, <3>2 DEF TypeOK
    <3>3. CASE Conclude(m, "cancelled") \/ Conclude(m, "error")
      BY <3>3 DEF Terminals
    <3>4. CASE Goto(m, "flush") /\ UNCHANGED outcome
      BY <3>4
    <3>5. QED
      BY <1>12, <3>1, <3>2, <3>3, <3>4 DEF Decode
  <2>4. gen[m].i < MaxTokens
    BY <1>1, <2>1 DEF ThreadHolds
  <2>5. CASE /\ thread' = [thread EXCEPT ![m] = "finish"]
             /\ \E kind \in Terminals : outcome' = [outcome EXCEPT ![m] = kind]
    BY <1>1, <2>1, <2>2, <2>5, MovesHold
  <2>6. CASE thread' = [thread EXCEPT ![m] = "flush"] /\ UNCHANGED outcome
    BY <1>1, <2>1, <2>2, <2>6, MovesHold
  <2>7. CASE /\ thread' = [thread EXCEPT ![m] = "send"] /\ UNCHANGED outcome
             /\ gen'[m].i = gen[m].i
    BY <1>1, <2>1, <2>2, <2>4, <2>7, MovesHold
  <2>8. CASE /\ thread' = [thread EXCEPT ![m] = "forward"] /\ UNCHANGED outcome
             /\ gen'[m].i < MaxTokens
    BY <1>1, <2>1, <2>2, <2>8, MovesHold
  <2>9. QED
    BY <2>1, <2>3, <2>5, <2>6, <2>7, <2>8
<1>13. CASE Send(m)
  <2>1. /\ thread[m] = "send" /\ UNCHANGED <<service, queue, current, outcome>>
        /\ gen' = [gen EXCEPT ![m].i = @ + 1, ![m].sent = @ + 1]
        /\ NextIteration(m)
    BY <1>13 DEF Send
  <2>2. /\ \A n \in Models : n # m => gen'[n] = gen[n]
        /\ gen'[m].i = gen[m].i + 1
    BY <1>1, <2>1 DEF TypeOK
  <2>3. \/ thread' = [thread EXCEPT ![m] = "flush"]
        \/ /\ thread' = [thread EXCEPT ![m] = "forward"]
           /\ gen'[m].i < MaxTokens
    BY <2>1, <2>2 DEF NextIteration
  <2>4. CASE thread' = [thread EXCEPT ![m] = "flush"]
    BY <1>1, <2>1, <2>2, <2>4, MovesHold
  <2>5. CASE thread' = [thread EXCEPT ![m] = "forward"] /\ gen'[m].i < MaxTokens
    BY <1>1, <2>1, <2>2, <2>5, MovesHold
  <2>6. QED
    BY <2>1, <2>3, <2>4, <2>5
<1>14. CASE Flush(m)
  BY <1>1, <1>14, RuntimeAssumption
  DEF Flush, TypeOK, ThreadHolds, Holding, Decoding, Terminals
<1>15. CASE Finish(m)
  BY <1>1, <1>15, RuntimeAssumption
  DEF Finish, TypeOK, ThreadHolds, Holding, Decoding, Terminals
<1>16. CASE Release(m)
  BY <1>1, <1>16, RuntimeAssumption
  DEF Release, Forget, Fresh, TypeOK, ThreadHolds, Holding, Decoding, Terminals
<1>17. CASE Reject(m)
  BY <1>1, <1>17, RuntimeAssumption
  DEF Reject, Forget, Fresh, TypeOK, ThreadHolds, Holding, Decoding, Terminals
<1>18. CASE Panic(m)
  BY <1>1, <1>18, RuntimeAssumption
  DEF Panic, Forget, Fresh, TypeOK, ThreadHolds, Holding, Decoding, Terminals
<1>19. QED
  BY <1>2, <1>3, <1>4, <1>5, <1>6, <1>7, <1>8, <1>9, <1>10, <1>11, <1>12, <1>13, <1>14,
     <1>15, <1>16, <1>17, <1>18
  DEF WorkerStep
-----------------------------------------------------------------------------
\* A step of a worker, with the part of the invariant it concerns.
LEMMA WorkerKeepsInv ==
    ASSUME Inv, NEW m \in Models, WorkerStep(m) \/ Panic(m)
    PROVE  Inv'
<1>1. TypeOK /\ TypeOK' /\ ThreadsHold'
  BY WorkerTypesStep, WorkerHoldsStep DEF Inv
<1>2. thread \in [Models -> Threads] /\ gen \in [Models -> Loops]
  BY <1>1 DEF TypeOK, Loops
<1>3. CASE LoadSucceeds(m) \/ LoadFails(m) \/ Exit(m)
  <2>1. /\ thread[m] \in {"loading", "recv", "failed"}
        /\ \E p \in {"recv", "failed", "exited"} : thread' = [thread EXCEPT ![m] = p]
        /\ UNCHANGED <<queue, current, gen, target, ticket, log, ended>>
    BY <1>3 DEF LoadSucceeds, LoadFails, Exit, Goto, jobVars
  <2>2. \A n \in Models :
           \/ thread'[n] = thread[n]
           \/ thread[n] \notin Holding \cup {"panicked"} /\ thread'[n] \notin Holding
    BY <1>2, <2>1 DEF Holding, Decoding
  <2>3. QED
    BY <1>1, <2>1, <2>2, QuietKeepsInv
<1>4. CASE DequeueFailed(m) \/ Dequeue(m)
  <2>1. /\ thread[m] \in {"recv", "failed"} /\ Take(m)
        /\ \E p \in {"dequeued", "reject"} : Goto(m, p)
        /\ UNCHANGED <<gen, target, ticket, log, ended>>
    BY <1>4 DEF DequeueFailed, Dequeue, jobVars
  <2>2. QED
    BY <1>1, <2>1, TakeKeepsInv
<1>5. CASE \/ SkipCancelled(m) \/ BeginResident(m) \/ BeginNew(m) \/ BeginTransient(m)
           \/ Forward(m) \/ Decode(m)
  <2>1. /\ thread[m] \in {"dequeued", "forward", "decode"}
        /\ \E p \in {"forward", "decode", "send", "flush", "finish"} :
              thread' = [thread EXCEPT ![m] = p]
        /\ UNCHANGED <<queue, current, target, ticket, log, ended>>
    BY <1>5 DEF SkipCancelled, BeginResident, BeginNew, BeginTransient, Forward, Decode,
                Admit, NextIteration, Conclude, Goto, jobVars
  <2>2. \/ UNCHANGED gen
        \/ \E left \in BOOLEAN : gen' = [gen EXCEPT ![m].pending = left]
        \/ gen' = [gen EXCEPT ![m].i = @ + 1, ![m].pending = TRUE]
    BY <1>5 DEF SkipCancelled, BeginResident, BeginNew, BeginTransient, Forward, Decode
  <2>3. \A n \in Models : gen'[n].sent = gen[n].sent
    BY <1>2, <2>2 DEF Loops
  <2>4. \A n \in Models :
           \/ thread'[n] = thread[n]
           \/ thread[n] \in Holding \ {"release"} /\ thread'[n] \in Holding \ {"release"}
    BY <1>2, <2>1 DEF Holding, Decoding
  <2>5. QED
    BY <1>1, <2>1, <2>3, <2>4, QuietKeepsInv
<1>6. CASE Send(m) \/ (Flush(m) /\ gen[m].pending)
  <2>1. /\ thread[m] \in {"send", "flush"} /\ SendPiece(m)
        /\ \E p \in {"forward", "flush", "finish"} : thread' = [thread EXCEPT ![m] = p]
        /\ \/ gen' = [gen EXCEPT ![m].i = @ + 1, ![m].sent = @ + 1]
           \/ gen' = [gen EXCEPT ![m].sent = @ + 1, ![m].pending = FALSE]
        /\ UNCHANGED <<queue, current, target, ticket, ended>>
    BY <1>6 DEF Send, Flush, NextIteration, Conclude, Goto
  <2>2. /\ gen'[m].sent = gen[m].sent + 1
        /\ \A n \in Models : n # m => gen'[n] = gen[n] /\ thread'[n] = thread[n]
        /\ thread'[m] \in {"forward", "flush", "finish"}
    BY <1>2, <2>1 DEF Loops
  <2>3. QED
    BY <1>1, <2>1, <2>2, PieceKeepsInv
<1>7. CASE Flush(m) /\ ~gen[m].pending
  <2>1. /\ thread[m] = "flush" /\ thread' = [thread EXCEPT ![m] = "finish"]
        /\ UNCHANGED <<queue, current, gen, target, ticket, log, ended>>
    BY <1>7 DEF Flush, Conclude, Goto
  <2>2. \A n \in Models :
           \/ thread'[n] = thread[n]
           \/ thread[n] \in Holding \ {"release"} /\ thread'[n] \in Holding \ {"release"}
    BY <1>2, <2>1 DEF Holding, Decoding
  <2>3. QED
    BY <1>1, <2>1, <2>2, QuietKeepsInv
<1>8. CASE Finish(m) \/ Reject(m)
  <2>1. /\ thread[m] \in {"finish", "reject"} /\ SendEnd(m)
        /\ thread' = [thread EXCEPT ![m] = "release"] \/ thread' = [thread EXCEPT ![m] = "failed"]
        /\ gen' = gen \/ gen' = [gen EXCEPT ![m] = Fresh]
        /\ current' = current \/ current' = [current EXCEPT ![m] = NoJob]
        /\ UNCHANGED <<queue, target, ticket, ended>>
    BY <1>8 DEF Finish, Reject, Forget, Goto
  <2>2. /\ thread'[m] \in {"release", "failed"}
        /\ \A n \in Models : n # m => gen'[n] = gen[n] /\ thread'[n] = thread[n]
    BY <1>2, <2>1
  <2>3. QED
    BY <1>1, <2>1, <2>2, EndKeepsInv
<1>9. CASE Release(m) \/ Panic(m)
  <2>1. /\ Forget(m) /\ UNCHANGED <<target, ticket, log, ended>>
        /\ \/ thread[m] = "release" /\ thread' = [thread EXCEPT ![m] = "recv"] /\ UNCHANGED queue
           \/ /\ thread[m] \in {"loading", "forward", "decode"}
              /\ thread' = [thread EXCEPT ![m] = "panicked"]
              /\ queue' = [queue EXCEPT ![m] = <<>>]
    BY <1>9 DEF Release, Panic, Goto, jobVars
  <2>2. \A n \in Models : n # m => thread'[n] = thread[n]
    BY <1>2, <2>1
  <2>3. \/ thread[m] = "release" /\ thread'[m] = "recv" /\ UNCHANGED queue
        \/ /\ thread[m] \in {"loading", "forward", "decode"} /\ thread'[m] = "panicked"
           /\ queue' = [queue EXCEPT ![m] = <<>>]
    BY <1>2, <2>1
  <2>4. QED
    BY <1>1, <2>1, <2>2, <2>3, DropKeepsInv
<1>10. QED
  BY <1>3, <1>4, <1>5, <1>6, <1>7, <1>8, <1>9 DEF WorkerStep

\* Steps of the clients and of the thread that drops the service.
LEMMA ClientKeepsInv ==
    ASSUME Inv,
           \/ \E j \in Jobs : ClientStep(j) \/ \E m \in Models : Refuse(j, m)
           \/ DropService \/ Join \/ UNCHANGED vars
    PROVE  Inv'
<1>1. TypeOK /\ ThreadsHold
  BY DEF Inv
<1>2. UNCHANGED <<thread, queue, current, gen, outcome, target, log>>
  BY DEF ClientStep, Recv, RecvNone, Cancel, DropTicket, Refuse, DropService, Join, vars,
         workerVars, jobVars
<1>3. TypeOK'
  <2>1. CASE \E j \in Jobs : ClientStep(j)
    <3>1. PICK j \in Jobs : ClientStep(j)
      BY <2>1
    <3>2. CASE Recv(j)
      BY <1>1, <3>2 DEF TypeOK, Recv, workerVars, history
    <3>3. CASE RecvNone(j)
      BY <1>1, <3>3 DEF TypeOK, RecvNone, workerVars, history
    <3>4. CASE Cancel(j)
      BY <1>1, <3>4 DEF TypeOK, Cancel, workerVars, history
    <3>5. CASE DropTicket(j)
      BY <1>1, <3>5 DEF TypeOK, DropTicket, workerVars, history, Tickets
    <3>6. QED
      BY <3>1, <3>2, <3>3, <3>4, <3>5 DEF ClientStep
  <2>2. CASE \E j \in Jobs, m \in Models : Refuse(j, m)
    BY <1>1, <2>2 DEF TypeOK, Refuse, workerVars, history, Tickets
  <2>3. CASE DropService \/ Join
    BY <1>1, <2>3 DEF TypeOK, DropService, Join, workerVars, jobVars, history
  <2>4. CASE UNCHANGED vars
    BY <1>1, <2>4 DEF TypeOK, vars, workerVars, jobVars, history
  <2>5. QED
    BY <2>1, <2>2, <2>3, <2>4
<1>4. /\ service = "open" => service' \in {"open", "dropping"}
      /\ service # "open" => service' # "open"
      /\ service' = "gone" => \/ service = "gone"
                              \/ \A m \in Workers : thread[m] \in {"exited", "panicked"}
  BY DEF ClientStep, Recv, RecvNone, Cancel, DropTicket, Refuse, DropService, Join, vars
<1>5. ThreadsHold'
  <2> SUFFICES ASSUME NEW n \in Models PROVE ThreadHolds(n)'
    BY DEF ThreadsHold
  <2>1. ThreadHolds(n)
    BY <1>1 DEF ThreadsHold
  <2>2. service' = "gone" => thread[n] \in {"none", "exited", "panicked"}
    BY <1>4, <2>1 DEF ThreadHolds, Workers
  <2>3. QED
    BY <1>2, <1>4, <2>1, <2>2 DEF ThreadHolds
<1>6. \A k \in Jobs :
         \/ ticket'[k] = ticket[k]
         \/ ticket[k] = "open" /\ ticket'[k] = "dropped"
         \/ ticket[k] = "unused" /\ ticket'[k] = "refused"
  BY <1>1 DEF ClientStep, Recv, RecvNone, Cancel, DropTicket, Refuse, DropService, Join,
              vars, jobVars, TypeOK
<1>7. ASSUME NEW k \in Jobs, ended'[k]
      PROVE  \/ ended[k]
             \/ target[k] # NoModel /\ (Answered(k) \/ thread[target[k]] = "panicked")
  <2>1. CASE RecvNone(k)
    <3>1. ticket[k] = "open" /\ ~Owned(k) /\ target[k] \in Models
      BY <2>1, IssuedTarget DEF RecvNone
    <3>2. AnsweredOrOwned(k)
      BY DEF Inv, Released
    <3>3. QED
      BY <3>1, <3>2, RuntimeAssumption DEF AnsweredOrOwned, Owned
  <2>2. CASE UNCHANGED ended
    BY <1>7, <2>2
  <2>3. ASSUME NEW j \in Jobs, RecvNone(j), j # k PROVE ended[k]
    BY <1>1, <1>7, <2>3 DEF RecvNone, TypeOK
  <2>4. QED
    BY <2>1, <2>2, <2>3 DEF ClientStep, Recv, Cancel, DropTicket, Refuse, DropService, Join,
                            vars, jobVars
<1>8. QED
  BY <1>1, <1>2, <1>3, <1>5, <1>6, <1>7, QuietKeepsInv

\* Every step of the scheduler keeps the invariant.
LEMMA InvStep == Inv /\ [Next]_vars => Inv'
<1> SUFFICES ASSUME Inv, [Next]_vars PROVE Inv'
  OBVIOUS
<1>1. ASSUME NEW j \in Jobs, NEW m \in Models, NEW s \in SessionIds \cup {NoSession},
             Submit(j, m, s)
      PROVE  Inv'
  BY <1>1, SubmitTypes, SubmitKeepsInv
<1>2. ASSUME NEW m \in Models, WorkerStep(m) \/ Panic(m) PROVE Inv'
  BY <1>2, WorkerKeepsInv
<1>3. CASE \/ \E j \in Jobs : ClientStep(j) \/ \E m \in Models : Refuse(j, m)
           \/ DropService \/ Join \/ UNCHANGED vars
  BY <1>3, ClientKeepsInv
<1>4. QED
  BY <1>1, <1>2, <1>3 DEF Next

\* The invariant holds in every reachable state.
THEOREM Invariance == Spec => []Inv
BY InvInit, InvStep, PTL DEF Spec

\* Every variable of the scheduler keeps its type; the decode loop never exceeds
\* maximum_new_tokens.
THEOREM TypeCorrect == Spec => []TypeOK
<1>1. Inv => TypeOK
  BY DEF Inv
<1>2. QED
  BY <1>1, Invariance, PTL

\* Every stream is a gapless run of pieces with at most one terminal event, at its end.
THEOREM StreamsWellFormed == Spec => []StreamWellFormed
<1>1. Inv => StreamWellFormed
  BY DEF Inv
<1>2. QED
  BY <1>1, Invariance, PTL

\* No stream closes without a terminal event unless its worker panicked.
THEOREM ClosesAnswered == Spec => []NoSilentClose
<1>1. Inv => NoSilentClose
  BY DEF Inv
<1>2. QED
  BY <1>1, Invariance, PTL

\* When the service is gone, every job whose client stayed was answered.
THEOREM ShutdownDrains == Spec => []DrainedAtShutdown
<1>1. Inv => DrainedAtShutdown
  <2> SUFFICES ASSUME Inv, service = "gone", NEW j \in Jobs, ticket[j] = "open"
               PROVE  Answered(j) \/ thread[target[j]] = "panicked"
    BY DEF DrainedAtShutdown
  <2>1. target[j] \in Models /\ AnsweredOrOwned(j)
    BY IssuedTarget DEF Inv, Released
  <2>2. ThreadHolds(target[j])
    BY <2>1 DEF Inv, ThreadsHold
  <2>3. current[target[j]] # j
    BY <2>2, RuntimeAssumption DEF ThreadHolds, Holding, Decoding
  <2>4. ~Queued(j, target[j])
    BY <2>2 DEF ThreadHolds, Queued
  <2>5. QED
    BY <2>1, <2>3, <2>4 DEF AnsweredOrOwned
<1>2. QED
  BY <1>1, Invariance, PTL
=============================================================================
