--------------------------- MODULE RuntimeService ---------------------------
(***************************************************************************)
(* The shared scheduler of src/runtime.rs: RuntimeService::generate_with_  *)
(* session submits a job to the bounded queue of a per-model worker thread *)
(* (spawn_model_worker, run_model_worker), the worker streams events back  *)
(* through a bounded per-ticket channel, and dropping the last handle of   *)
(* the service (RuntimeServiceInner::drop) drains and joins every worker.  *)
(*                                                                         *)
(* A worker thread, every client and the dropping thread interleave.  One  *)
(* step of a worker is one stretch of code between two points where the    *)
(* other threads can see a difference: a channel operation, a read of the  *)
(* cancellation flag, a status write.                                      *)
(***************************************************************************)
EXTENDS SessionLru, Sequences

CONSTANTS
    Models,         \* resolved model paths, the keys of the workers map
    Jobs,           \* identities of submissions; each is used once
    NoModel, NoSession, NoJob,
    MaxLoaded,      \* RuntimeLimits.maximum_loaded_models
    QueueCap,       \* RuntimeLimits.request_queue
    TokenBuf,       \* RuntimeLimits.token_buffer
    MaxTokens,      \* GenerationOptions.maximum_new_tokens of every job
    StreamedExperts,\* whether a cancellation can surface from an expert cache
    Panics          \* whether engine code may panic

ASSUME RuntimeAssumption ==
    /\ NoModel \notin Models
    /\ NoSession \notin SessionIds
    /\ NoJob \notin Jobs
    /\ IsFiniteSet(Models)
    /\ MaxLoaded \in Nat \ {0}
    /\ QueueCap \in Nat \ {0}
    /\ TokenBuf \in Nat \ {0}
    /\ MaxTokens \in Nat \ {0}
    /\ StreamedExperts \in BOOLEAN
    /\ Panics \in BOOLEAN

VARIABLES
    service,    \* the last RuntimeService handle: open, dropping or gone
    status,     \* WorkerStatus of each worker; "absent" without a worker
    thread,     \* where each worker thread stands
    queue,      \* the request queue of each worker
    current,    \* the job the worker thread holds
    sessions,   \* last_used of each resident session, 0 when not resident
    clock,      \* session_clock
    gen,        \* the decode loop: iteration, pieces sent, bytes pending
    outcome,    \* the terminal event of the current job, once decided
    target,     \* the model a job was accepted for
    session,    \* the session a job names, or NoSession
    ticket,     \* the client's GenerationTicket
    cancel,     \* the job's CancellationFlag
    log,        \* every event sent into the ticket's channel
    read,       \* how many of them the client has received
    ended,      \* the client's recv returned None
    accepted,   \* history: the jobs each worker accepted, in order
    late        \* history: token events sent after the flag was set

workerVars == <<status, thread, queue, current, sessions, clock, gen, outcome>>
jobVars    == <<target, session, ticket, cancel, log, read, ended>>
history    == <<accepted, late>>
vars == <<service, workerVars, jobVars, history>>

Statuses  == {"absent", "loading", "ready", "busy", "failed", "stopped"}
Terminals == {"complete", "error", "cancelled"}
Decoding  == {"forward", "decode", "send", "flush"}
Holding   == Decoding \cup {"dequeued", "finish", "release", "reject"}
Threads   == Holding \cup {"none", "loading", "recv", "failed", "exited", "panicked"}
Tickets   == {"unused", "refused", "open", "dropped"}

Event == [kind : {"token"} \cup Terminals, n : Nat]

Token(n) == [kind |-> "token", n |-> n]
End(k)   == [kind |-> k, n |-> 0]

Fresh == [i |-> 0, sent |-> 0, pending |-> FALSE]

(***************************************************************************)
(* The entries of the workers map, the jobs a worker still owns (their     *)
(* event sender is alive) and the state of a ticket's channel.             *)
(***************************************************************************)
Workers == {m \in Models : thread[m] # "none"}

Queued(j, m) == \E i \in 1..Len(queue[m]) : queue[m][i] = j

\* Mutant of Owned: the sender is dropped as soon as the worker takes the job.
OwnedWhileQueued(j) == \E m \in Models : Queued(j, m)

Owned(j) == \E m \in Models : current[m] = j \/ Queued(j, m)

HasRoom(j) == Len(log[j]) - read[j] < TokenBuf

\* Mutant of CancelSeen: the worker holds a copy of the flag instead of sharing it.
CancelCopied(j) == j \in Jobs /\ FALSE

\* CancellationFlag::is_cancelled, read by the worker and at every check of the engines.
CancelSeen(j) == cancel[j]

Goto(m, place) == thread' = [thread EXCEPT ![m] = place]
-----------------------------------------------------------------------------
Init ==
    /\ service = "open"
    /\ status = [m \in Models |-> "absent"]
    /\ thread = [m \in Models |-> "none"]
    /\ queue = [m \in Models |-> <<>>]
    /\ current = [m \in Models |-> NoJob]
    /\ sessions = [m \in Models |-> EmptyPool]
    /\ clock = [m \in Models |-> 0]
    /\ gen = [m \in Models |-> Fresh]
    /\ outcome = [m \in Models |-> "undecided"]
    /\ target = [j \in Jobs |-> NoModel]
    /\ session = [j \in Jobs |-> NoSession]
    /\ ticket = [j \in Jobs |-> "unused"]
    /\ cancel = [j \in Jobs |-> FALSE]
    /\ log = [j \in Jobs |-> <<>>]
    /\ read = [j \in Jobs |-> 0]
    /\ ended = [j \in Jobs |-> FALSE]
    /\ accepted = [m \in Models |-> <<>>]
    /\ late = [j \in Jobs |-> 0]
-----------------------------------------------------------------------------
(***************************************************************************)
(* Submission, under the lock of the workers map.  Requests refused before *)
(* the lock is taken (invalid options, unknown model) change nothing.      *)
(***************************************************************************)
CanLoad(m) == m \in Workers \/ Cardinality(Workers) < MaxLoaded

\* Mutant of CanQueue: one request too many.
CanQueueLast(m) == thread[m] # "panicked" /\ Len(queue[m]) <= QueueCap

\* try_send on the bounded queue.
CanQueue(m) == thread[m] # "panicked" /\ Len(queue[m]) < QueueCap

\* A worker is created, inserted and given its first request in one step: the lock is held.
Submit(j, m, s) ==
    /\ service = "open" /\ ticket[j] = "unused"
    /\ CanLoad(m) /\ CanQueue(m)
    /\ IF m \in Workers
       THEN UNCHANGED <<status, thread>>
       ELSE /\ status' = [status EXCEPT ![m] = "loading"]
            /\ Goto(m, "loading")
    /\ queue' = [queue EXCEPT ![m] = Append(@, j)]
    /\ accepted' = [accepted EXCEPT ![m] = Append(@, j)]
    /\ ticket' = [ticket EXCEPT ![j] = "open"]
    /\ target' = [target EXCEPT ![j] = m]
    /\ session' = [session EXCEPT ![j] = s]
    /\ UNCHANGED <<service, current, sessions, clock, gen, outcome, cancel, log,
                   read, ended, late>>

\* ModelLimit, QueueFull, WorkerStopped or SpawnWorker (the system has no thread for a new worker,
\* and nothing is inserted): no ticket, and the job is dropped.
Refuse(j, m) ==
    /\ service = "open" /\ ticket[j] = "unused"
    /\ ~CanLoad(m) \/ m \notin Workers \/ ~CanQueue(m)
    /\ ticket' = [ticket EXCEPT ![j] = "refused"]
    /\ UNCHANGED <<service, workerVars, target, session, cancel, log, read, ended,
                   history>>
-----------------------------------------------------------------------------
(***************************************************************************)
(* The worker thread: spawn_model_worker opens the engine, and the loop of *)
(* a worker whose engine failed answers every job with the load error.     *)
(***************************************************************************)
LoadSucceeds(m) ==
    /\ thread[m] = "loading"
    /\ status' = [status EXCEPT ![m] = "ready"]
    /\ Goto(m, "recv")
    /\ UNCHANGED <<service, queue, current, sessions, clock, gen, outcome, jobVars,
                   history>>

LoadFails(m) ==
    /\ thread[m] = "loading"
    /\ status' = [status EXCEPT ![m] = "failed"]
    /\ Goto(m, "failed")
    /\ UNCHANGED <<service, queue, current, sessions, clock, gen, outcome, jobVars,
                   history>>

\* Mutant of Take: the newest request first.
TakeNewest(m) ==
    /\ queue[m] # <<>>
    /\ current' = [current EXCEPT ![m] = queue[m][Len(queue[m])]]
    /\ queue' = [queue EXCEPT ![m] = SubSeq(@, 1, Len(@) - 1)]

\* The receiver yields a job as long as one is queued, even after the sender is gone.
Take(m) ==
    /\ queue[m] # <<>>
    /\ current' = [current EXCEPT ![m] = Head(queue[m])]
    /\ queue' = [queue EXCEPT ![m] = Tail(@)]

\* The locals of one iteration of the loop go out of scope, and the job with them.
Forget(m) ==
    /\ current' = [current EXCEPT ![m] = NoJob]
    /\ gen' = [gen EXCEPT ![m] = Fresh]
    /\ outcome' = [outcome EXCEPT ![m] = "undecided"]

DequeueFailed(m) ==
    /\ thread[m] = "failed"
    /\ Take(m)
    /\ outcome' = [outcome EXCEPT ![m] = "error"]
    /\ Goto(m, "reject")
    /\ UNCHANGED <<service, status, sessions, clock, gen, jobVars, history>>

\* run_model_worker: recv, then status = Busy.
Dequeue(m) ==
    /\ thread[m] = "recv"
    /\ Take(m)
    /\ status' = [status EXCEPT ![m] = "busy"]
    /\ Goto(m, "dequeued")
    /\ UNCHANGED <<service, sessions, clock, gen, outcome, jobVars, history>>

\* Mutant of Exit: the worker leaves as soon as the sender is gone.
ExitUndrained(m) ==
    /\ thread[m] \in {"recv", "failed"} /\ service # "open"
    /\ status' = [status EXCEPT ![m] = "stopped"]
    /\ Goto(m, "exited")
    /\ UNCHANGED <<service, queue, current, sessions, clock, gen, outcome, jobVars,
                   history>>

\* Mutant of Exit: only a worker whose engine loaded watches for the end of its queue.
ExitLoaded(m) ==
    /\ thread[m] = "recv"
    /\ queue[m] = <<>> /\ service # "open"
    /\ status' = [status EXCEPT ![m] = "stopped"]
    /\ Goto(m, "exited")
    /\ UNCHANGED <<service, queue, current, sessions, clock, gen, outcome, jobVars,
                   history>>

\* The sender was dropped and nothing is queued: the loop ends.
Exit(m) ==
    /\ thread[m] \in {"recv", "failed"}
    /\ queue[m] = <<>> /\ service # "open"
    /\ status' = [status EXCEPT ![m] = "stopped"]
    /\ Goto(m, "exited")
    /\ UNCHANGED <<service, queue, current, sessions, clock, gen, outcome, jobVars,
                   history>>

\* Decides the terminal event; blocking_send follows in Finish.
Conclude(m, kind) ==
    /\ outcome' = [outcome EXCEPT ![m] = kind]
    /\ Goto(m, "finish")

\* A job whose flag is set when it is dequeued is answered without touching a session.
SkipCancelled(m) ==
    /\ thread[m] = "dequeued" /\ CancelSeen(current[m])
    /\ Conclude(m, "cancelled")
    /\ UNCHANGED <<service, status, queue, current, sessions, clock, gen, jobVars,
                   history>>
-----------------------------------------------------------------------------
\* The job's session is resident (Touch), or is created once room has been made for it;
\* when the engine cannot build it, the evicted session is lost all the same.
Admit(m, pool) ==
    /\ sessions' = [sessions EXCEPT ![m] = Touch(pool, session[current[m]], clock[m] + 1)]
    /\ Goto(m, "forward")
    /\ UNCHANGED outcome

BeginResident(m) ==
    /\ thread[m] = "dequeued" /\ ~CancelSeen(current[m])
    /\ session[current[m]] \in Resident(sessions[m])
    /\ clock' = [clock EXCEPT ![m] = @ + 1]
    /\ Admit(m, sessions[m])
    /\ UNCHANGED <<service, status, queue, current, gen, jobVars, history>>

BeginNew(m) ==
    /\ thread[m] = "dequeued" /\ ~CancelSeen(current[m])
    /\ session[current[m]] \in SessionIds \ Resident(sessions[m])
    /\ clock' = [clock EXCEPT ![m] = @ + 1]
    /\ \E left \in AfterEviction(sessions[m]) :
         \/ Admit(m, left)
         \/ /\ sessions' = [sessions EXCEPT ![m] = left]
            /\ Conclude(m, "error")
    /\ UNCHANGED <<service, status, queue, current, gen, jobVars, history>>

BeginTransient(m) ==
    /\ thread[m] = "dequeued" /\ ~CancelSeen(current[m])
    /\ session[current[m]] = NoSession
    /\ Goto(m, "forward")
    /\ UNCHANGED <<service, status, queue, current, sessions, clock, gen, outcome,
                   jobVars, history>>
-----------------------------------------------------------------------------
(***************************************************************************)
(* The generation loop common to the four engines, as the worker sees it:  *)
(* prefill or one decode forward, the check of the flag and the sampling   *)
(* of a token, the blocking send of its text.  A piece may be withheld     *)
(* until its UTF-8 bytes are complete and is then flushed after the loop.  *)
(***************************************************************************)
CancelKinds == IF StreamedExperts THEN {"cancelled", "error"} ELSE {"cancelled"}

Forward(m) ==
    /\ thread[m] = "forward"
    /\ \/ /\ CancelSeen(current[m])
          /\ \E kind \in CancelKinds : Conclude(m, kind)
       \/ /\ ~CancelSeen(current[m])
          /\ Goto(m, "decode") /\ UNCHANGED outcome
       \/ /\ ~CancelSeen(current[m])
          /\ Conclude(m, "error")
    /\ UNCHANGED <<service, status, queue, current, sessions, clock, gen, jobVars,
                   history>>

\* After a token's piece: another forward unless it was the last iteration.
NextIteration(m) ==
    IF gen[m].i + 1 < MaxTokens THEN Goto(m, "forward") ELSE Goto(m, "flush")

Decode(m) ==
    /\ thread[m] = "decode"
    /\ \/ /\ CancelSeen(current[m])
          /\ Conclude(m, "cancelled") /\ UNCHANGED gen
       \/ /\ ~CancelSeen(current[m])
          /\ \/ Conclude(m, "error") /\ UNCHANGED gen          \* select failed
             \/ /\ Goto(m, "flush") /\ UNCHANGED <<gen, outcome>>  \* stop token
             \/ /\ Goto(m, "send") /\ UNCHANGED outcome
                /\ \E left \in BOOLEAN : gen' = [gen EXCEPT ![m].pending = left]
             \/ /\ NextIteration(m) /\ UNCHANGED outcome
                /\ gen' = [gen EXCEPT ![m].i = @ + 1, ![m].pending = TRUE]
    /\ UNCHANGED <<service, status, queue, current, sessions, clock, jobVars, history>>

\* Mutant of SendPiece: try_send, a full channel loses the piece.
SendPieceOrSkip(m) ==
    LET j == current[m] IN
    IF ticket[j] = "open" /\ HasRoom(j)
    THEN /\ log' = [log EXCEPT ![j] = Append(@, Token(gen[m].sent + 1))]
         /\ late' = [late EXCEPT ![j] = IF cancel[j] THEN @ + 1 ELSE @]
         /\ UNCHANGED cancel
    ELSE UNCHANGED <<log, late, cancel>>

\* Mutant of SendPiece: the send does not notice that the receiver is gone.
SendPieceToLiving(m) ==
    LET j == current[m] IN
    /\ ticket[j] = "open" /\ HasRoom(j)
    /\ log' = [log EXCEPT ![j] = Append(@, Token(gen[m].sent + 1))]
    /\ late' = [late EXCEPT ![j] = IF cancel[j] THEN @ + 1 ELSE @]
    /\ UNCHANGED cancel

\* on_token: blocking_send of the next piece; a dropped receiver sets the flag.
SendPiece(m) ==
    LET j == current[m] IN
    \/ /\ ticket[j] = "open" /\ HasRoom(j)
       /\ log' = [log EXCEPT ![j] = Append(@, Token(gen[m].sent + 1))]
       /\ late' = [late EXCEPT ![j] = IF cancel[j] THEN @ + 1 ELSE @]
       /\ UNCHANGED cancel
    \/ /\ ticket[j] = "dropped"
       /\ cancel' = [cancel EXCEPT ![j] = TRUE]
       /\ UNCHANGED <<log, late>>

Send(m) ==
    /\ thread[m] = "send"
    /\ SendPiece(m)
    /\ gen' = [gen EXCEPT ![m].i = @ + 1, ![m].sent = @ + 1]
    /\ NextIteration(m)
    /\ UNCHANGED <<service, status, queue, current, sessions, clock, outcome, target,
                   session, ticket, read, ended, accepted>>

Flush(m) ==
    /\ thread[m] = "flush"
    /\ IF gen[m].pending
       THEN /\ SendPiece(m)
            /\ gen' = [gen EXCEPT ![m].sent = @ + 1, ![m].pending = FALSE]
       ELSE UNCHANGED <<log, late, cancel, gen>>
    /\ Conclude(m, "complete")
    /\ UNCHANGED <<service, status, queue, current, sessions, clock, target, session,
                   ticket, read, ended, accepted>>

\* Mutant of SendEnd: try_send, a full channel loses the terminal event.
SendEndOrSkip(m) ==
    LET j == current[m] IN
    IF ticket[j] = "open" /\ HasRoom(j)
    THEN log' = [log EXCEPT ![j] = Append(@, End(outcome[m]))]
    ELSE UNCHANGED log

\* blocking_send of the terminal event; its failure is ignored.
SendEnd(m) ==
    LET j == current[m] IN
    \/ /\ ticket[j] = "open" /\ HasRoom(j)
       /\ log' = [log EXCEPT ![j] = Append(@, End(outcome[m]))]
    \/ /\ ticket[j] = "dropped"
       /\ UNCHANGED log

Finish(m) ==
    /\ thread[m] = "finish"
    /\ SendEnd(m)
    /\ Goto(m, "release")
    /\ UNCHANGED <<service, status, queue, current, sessions, clock, gen, outcome,
                   target, session, ticket, cancel, read, ended, history>>

\* status = Ready, and the end of the iteration drops the job with its sender.
Release(m) ==
    /\ thread[m] = "release"
    /\ status' = [status EXCEPT ![m] = "ready"]
    /\ Forget(m)
    /\ Goto(m, "recv")
    /\ UNCHANGED <<service, queue, sessions, clock, jobVars, history>>

\* The failed worker's loop body: send the load error and drop the job.
Reject(m) ==
    /\ thread[m] = "reject"
    /\ SendEnd(m)
    /\ Forget(m)
    /\ Goto(m, "failed")
    /\ UNCHANGED <<service, status, queue, sessions, clock, target, session, ticket,
                   cancel, read, ended, history>>

\* A panic in engine code unwinds the thread: its job, its queue and its sessions are
\* dropped, and nothing rewrites the status.
Panic(m) ==
    /\ Panics
    /\ thread[m] \in {"loading", "forward", "decode"}
    /\ Goto(m, "panicked")
    /\ queue' = [queue EXCEPT ![m] = <<>>]
    /\ Forget(m)
    /\ sessions' = [sessions EXCEPT ![m] = EmptyPool]
    /\ UNCHANGED <<service, status, clock, jobVars, history>>

WorkerStep(m) ==
    \/ LoadSucceeds(m) \/ LoadFails(m) \/ DequeueFailed(m) \/ Dequeue(m) \/ Exit(m)
    \/ SkipCancelled(m) \/ BeginResident(m) \/ BeginNew(m) \/ BeginTransient(m)
    \/ Forward(m) \/ Decode(m) \/ Send(m) \/ Flush(m) \/ Finish(m) \/ Release(m)
    \/ Reject(m)
-----------------------------------------------------------------------------
(***************************************************************************)
(* The client side: GenerationTicket.                                      *)
(***************************************************************************)
Recv(j) ==
    /\ ticket[j] = "open" /\ read[j] < Len(log[j])
    /\ read' = [read EXCEPT ![j] = @ + 1]
    /\ UNCHANGED <<service, workerVars, target, session, ticket, cancel, log, ended,
                   history>>

\* Every sender is gone and the channel is empty: recv returns None.
RecvNone(j) ==
    /\ ticket[j] = "open" /\ ~ended[j]
    /\ read[j] = Len(log[j]) /\ ~Owned(j)
    /\ ended' = [ended EXCEPT ![j] = TRUE]
    /\ UNCHANGED <<service, workerVars, target, session, ticket, cancel, log, read,
                   history>>

Cancel(j) ==
    /\ ticket[j] = "open" /\ ~cancel[j]
    /\ cancel' = [cancel EXCEPT ![j] = TRUE]
    /\ UNCHANGED <<service, workerVars, target, session, ticket, log, read, ended,
                   history>>

\* Dropping the ticket cancels the job and closes the receiver.
DropTicket(j) ==
    /\ ticket[j] = "open"
    /\ ticket' = [ticket EXCEPT ![j] = "dropped"]
    /\ cancel' = [cancel EXCEPT ![j] = TRUE]
    /\ UNCHANGED <<service, workerVars, target, session, log, read, ended, history>>

ClientStep(j) == Recv(j) \/ RecvNone(j) \/ Cancel(j) \/ DropTicket(j)
-----------------------------------------------------------------------------
(***************************************************************************)
(* RuntimeServiceInner::drop: drop every sender, then join every thread.   *)
(***************************************************************************)
DropService ==
    /\ service = "open"
    /\ service' = "dropping"
    /\ UNCHANGED <<workerVars, jobVars, history>>

Join ==
    /\ service = "dropping"
    /\ \A m \in Workers : thread[m] \in {"exited", "panicked"}
    /\ service' = "gone"
    /\ UNCHANGED <<workerVars, jobVars, history>>

Next ==
    \/ \E j \in Jobs, m \in Models :
         \/ \E s \in SessionIds \cup {NoSession} : Submit(j, m, s)
         \/ Refuse(j, m)
    \/ \E m \in Models : WorkerStep(m) \/ Panic(m)
    \/ \E j \in Jobs : ClientStep(j)
    \/ DropService
    \/ Join

(***************************************************************************)
(* Fairness: worker threads run, the joining thread runs, and a client     *)
(* that keeps its ticket keeps receiving (both clients in the repository,  *)
(* chat.rs and server.rs, loop on recv or drop the ticket).  Nobody is     *)
(* obliged to submit, cancel, drop a ticket or drop the service.           *)
(***************************************************************************)
Spec == Init /\ [][Next]_vars

Fairness ==
    /\ \A m \in Models : WF_vars(WorkerStep(m))
    /\ \A j \in Jobs : WF_vars(Recv(j)) /\ WF_vars(RecvNone(j))
    /\ WF_vars(Join)

FairSpec == Spec /\ Fairness
-----------------------------------------------------------------------------
(* Properties.                                                             *)

\* The types of all variables; in particular the decode loop never runs past
\* maximum_new_tokens (run_model_worker and the engines' generation loops).
TypeOK ==
    /\ service \in {"open", "dropping", "gone"}
    /\ status \in [Models -> Statuses]
    /\ thread \in [Models -> Threads]
    /\ queue \in [Models -> Seq(Jobs)]
    /\ current \in [Models -> Jobs \cup {NoJob}]
    /\ sessions \in [Models -> Pools]
    /\ clock \in [Models -> Nat]
    /\ gen \in [Models -> [i : 0..MaxTokens, sent : Nat, pending : BOOLEAN]]
    /\ outcome \in [Models -> Terminals \cup {"undecided"}]
    /\ target \in [Jobs -> Models \cup {NoModel}]
    /\ session \in [Jobs -> SessionIds \cup {NoSession}]
    /\ ticket \in [Jobs -> Tickets]
    /\ cancel \in [Jobs -> BOOLEAN]
    /\ log \in [Jobs -> Seq(Event)]
    /\ read \in [Jobs -> Nat]
    /\ ended \in [Jobs -> BOOLEAN]
    /\ accepted \in [Models -> Seq(Jobs)]
    /\ late \in [Jobs -> Nat]

\* README: "The service bounds model count, request queues, token buffers, sessions":
\* whatever the interleaving of submissions, workers and clients, none of the four
\* limits of RuntimeLimits is exceeded.
ResourcesBounded ==
    /\ Cardinality(Workers) <= MaxLoaded
    /\ \A m \in Models : /\ Len(queue[m]) <= QueueCap
                         /\ Cardinality(Resident(sessions[m])) <= MaxSess
    /\ \A j \in Jobs : Len(log[j]) - read[j] <= TokenBuf

Answered(j) == log[j] # <<>> /\ log[j][Len(log[j])].kind \in Terminals

\* The stream of a ticket: pieces numbered 1, 2, ... with none missing or repeated, and
\* a terminal event only at the very end, so there is at most one.
StreamWellFormed ==
    \A j \in Jobs : \A i \in 1..Len(log[j]) :
        \/ log[j][i] = Token(i)
        \/ i = Len(log[j]) /\ log[j][i].kind \in Terminals

\* server.rs turns recv() = None without a final event into "closed without a final
\* response"; that happens only when the worker panicked, never by a race between the
\* worker's last send, the drop of its sender and a shutdown.
NoSilentClose ==
    \A j \in Jobs : ended[j] => Answered(j) \/ thread[target[j]] = "panicked"

\* README: shutdown "drains the HTTP server and joins model-owning worker threads": when
\* the join is over, every job accepted before the drop was answered, unless its client
\* left or its worker panicked.
DrainedAtShutdown ==
    service = "gone" =>
        \A j \in Jobs : ticket[j] = "open" =>
            Answered(j) \/ thread[target[j]] = "panicked"

\* After the cancellation flag is set at most the piece in flight and the flushed rest of
\* its UTF-8 bytes are still streamed, whichever step the worker was in.
FewLateTokens == \A j \in Jobs : late[j] <= 2

\* A model generates for one job at a time and in submission order: a later job's stream
\* stays empty until every earlier job of that worker has been released.
SerialInOrder ==
    \A m \in Models : \A b \in 1..Len(accepted[m]) : \A a \in 1..(b - 1) :
        log[accepted[m][b]] # <<>> => ~Owned(accepted[m][a])

\* Every accepted job comes to an end its client can see, whatever the other clients do,
\* as long as the clients that keep their tickets keep receiving.
TicketEnds ==
    \A j \in Jobs : ticket[j] = "open" ~>
        \/ ticket[j] = "dropped"
        \/ ended[j]
        \/ Answered(j) /\ read[j] = Len(log[j])

\* RuntimeServiceInner::drop returns: every worker thread leaves its loop.
ShutdownJoins == service = "dropping" ~> service = "gone"

(***************************************************************************)
(* The scheduler implements what a ticket promises.                        *)
(***************************************************************************)
LastRead(j) == IF read[j] = 0 THEN End("none") ELSE log[j][read[j]]

PiecesRead(j) ==
    IF LastRead(j).kind = "token" THEN LastRead(j).n
    ELSE IF read[j] <= 1 THEN 0 ELSE log[j][read[j] - 1].n

Tickets_ == INSTANCE GenerationTicket WITH
    held   <- [j \in Jobs |-> IF ticket[j] \in {"unused", "refused"} THEN "none" ELSE ticket[j]],
    pieces <- [j \in Jobs |-> PiecesRead(j)],
    end    <- [j \in Jobs |-> IF LastRead(j).kind \in Terminals THEN LastRead(j).kind ELSE "none"],
    closed <- ended,
    broken <- [j \in Jobs |-> target[j] \in Models /\ thread[target[j]] = "panicked"]

\* Seen by its client, every ticket behaves as GenerationTicket says.
ImplementsTicket == Tickets_!Spec
=============================================================================
