------------------------------- MODULE Clients -------------------------------
(***************************************************************************)
(* The two front ends of the runtime: the interactive chat (src/chat.rs)   *)
(* and the HTTP server (src/server.rs).  They hold tickets and see nothing *)
(* else of the scheduler, so what stands behind a ticket is the abstract   *)
(* GenerationTicket, which the scheduler implements.  A process runs one   *)
(* of the two; a job is a turn of the chat or a request to the server.     *)
(***************************************************************************)
EXTENDS Naturals, Sequences

CONSTANTS
    Turns,      \* the turns the chat may have
    Requests,   \* the requests to the server
    NoJob,    \* the chat has no turn
    MaxPieces   \* bound on the pieces of an answer

Jobs == Turns \union Requests
Terminals == {"complete", "error", "cancelled"}

ASSUME ClientsAssumption ==
    /\ Turns \intersect Requests = {}
    /\ NoJob \notin Turns
    /\ MaxPieces \in Nat

VARIABLES
    command,    \* "run" or "serve"
    held, pieces, end, closed, broken,  \* the tickets
    terminal,   \* the chat: "prompt", "turn", "decided" (the inner loop is left) or "ended"
    turn,       \* its turn
    verdict,    \* of the turn: "none", "cancelled" or "complete"
    dialogue,   \* its history: [role, turn]
    server,     \* "serving", "draining" or "returned"
    stage,      \* of a request: "idle", "reading", "refused", "open", "answered" or "left"
    streams,    \* whether the accepted request asked for a stream
    lines,      \* the lines of a streamed body: "piece", "done" or "error"
    text,       \* the pieces in the text of one answer
    status      \* the HTTP status, 0 before there is one

tickets   == <<held, pieces, end, closed, broken>>
chatVars  == <<terminal, turn, verdict, dialogue>>
httpVars  == <<server, stage, streams, lines, text, status>>
clientVars == <<command, tickets, chatVars, httpVars>>

Ticket == INSTANCE GenerationTicket

ClientsInit ==
    /\ command \in {"run", "serve"}
    /\ Ticket!Init
    /\ terminal = "prompt" /\ turn = NoJob /\ verdict = "none" /\ dialogue = <<>>
    /\ server = "serving"
    /\ stage = [r \in Requests |-> "idle"]
    /\ streams = [r \in Requests |-> FALSE]
    /\ lines = [r \in Requests |-> <<>>]
    /\ text = [r \in Requests |-> 0]
    /\ status = [r \in Requests |-> 0]

-----------------------------------------------------------------------------
(* The chat.                                                               *)

\* A line that is no command: the history gets it before the runtime accepts the turn.
Enter ==
    /\ terminal = "prompt"
    /\ \E t \in Turns :
          /\ Ticket!Issue(t)
          /\ turn' = t
          /\ dialogue' = Append(dialogue, [role |-> "user", turn |-> t])
    /\ terminal' = "turn" /\ verdict' = "none"
    /\ UNCHANGED httpVars

\* generate_in_session fails: the chat ends.
Rejected ==
    /\ terminal = "prompt"
    /\ \E t \in Turns :
          /\ held[t] = "none"
          /\ dialogue' = Append(dialogue, [role |-> "user", turn |-> t])
    /\ terminal' = "ended"
    /\ UNCHANGED <<tickets, turn, verdict, httpVars>>

\* The standard input ends, or the user says so.
Leave ==
    /\ terminal = "prompt"
    /\ terminal' = "ended"
    /\ UNCHANGED <<tickets, turn, verdict, dialogue, httpVars>>

Clear ==
    /\ terminal = "prompt"
    /\ dialogue' = <<>>
    /\ UNCHANGED <<tickets, terminal, turn, verdict, httpVars>>

Show ==
    /\ terminal = "turn" /\ pieces[turn] < MaxPieces
    /\ Ticket!Piece(turn)
    /\ UNCHANGED <<chatVars, httpVars>>

\* A terminal event; an error that is no cancellation ends the chat.
Decide ==
    /\ terminal = "turn"
    /\ Ticket!Finish(turn)
    /\ terminal' = IF end'[turn] = "error" THEN "ended" ELSE "decided"
    /\ verdict' = end'[turn]
    /\ UNCHANGED <<turn, dialogue, httpVars>>

\* recv gives None.
Lost ==
    /\ terminal = "turn"
    /\ Ticket!Close(turn)
    /\ terminal' = "ended"
    /\ UNCHANGED <<turn, verdict, dialogue, httpVars>>

\* Ctrl-C during the turn, also when an event is there too: select! takes any branch that is
\* ready.
Interrupt ==
    /\ terminal = "turn"
    /\ terminal' = "decided" /\ verdict' = "cancelled"
    /\ UNCHANGED <<tickets, turn, dialogue, httpVars>>

\* The terminal cannot be written: run_model returns.
Unwritable ==
    /\ terminal \in {"turn", "decided"}
    /\ terminal' = "ended"
    /\ UNCHANGED <<tickets, turn, verdict, dialogue, httpVars>>

\* Mutant of Settled: the question of a cancelled turn stays.
SettledKeeping ==
    IF verdict = "cancelled" THEN dialogue
    ELSE Append(dialogue, [role |-> "assistant", turn |-> turn])

\* The history after a turn that did not end the chat.
Settled ==
    IF verdict = "cancelled" THEN SubSeq(dialogue, 1, Len(dialogue) - 1)
    ELSE Append(dialogue, [role |-> "assistant", turn |-> turn])

\* The end of the loop: the ticket is dropped.
EndTurn ==
    /\ terminal = "decided"
    /\ Ticket!Abandon(turn)
    /\ dialogue' = Settled
    /\ terminal' = "prompt" /\ turn' = NoJob
    /\ UNCHANGED <<verdict, httpVars>>

\* run_model has returned: its ticket is dropped.
EndChat ==
    /\ terminal = "ended" /\ turn # NoJob
    /\ Ticket!Abandon(turn)
    /\ turn' = NoJob
    /\ UNCHANGED <<terminal, verdict, dialogue, httpVars>>

ChatNext ==
    \/ Enter \/ Rejected \/ Leave \/ Clear \/ Show \/ Decide \/ Lost
    \/ Interrupt \/ Unwritable \/ EndTurn \/ EndChat

-----------------------------------------------------------------------------
(* The server.                                                             *)

\* A connection is taken; its request is still being read.
Connect(r) ==
    /\ server = "serving" /\ stage[r] = "idle"
    /\ stage' = [stage EXCEPT ![r] = "reading"]
    /\ UNCHANGED <<tickets, chatVars, server, streams, lines, text, status>>

\* The client is gone before its request is complete: the handler never runs.
Withdraw(r) ==
    /\ stage[r] = "reading"
    /\ stage' = [stage EXCEPT ![r] = "left"]
    /\ UNCHANGED <<tickets, chatVars, server, streams, lines, text, status>>

\* chat: the body or the options are invalid, or the runtime refuses.  A request that was being
\* read when the signal came is handled like any other.
Refuse(r) ==
    /\ stage[r] = "reading"
    /\ stage' = [stage EXCEPT ![r] = "refused"]
    /\ \E code \in {400, 404, 429, 503, 500} : status' = [status EXCEPT ![r] = code]
    /\ UNCHANGED <<tickets, chatVars, server, streams, lines, text>>

\* A ticket; a streamed answer begins at once with its status.
Accept(r) ==
    /\ stage[r] = "reading"
    /\ Ticket!Issue(r)
    /\ stage' = [stage EXCEPT ![r] = "open"]
    /\ \E wanted \in BOOLEAN :
          /\ streams' = [streams EXCEPT ![r] = wanted]
          /\ status' = [status EXCEPT ![r] = IF wanted THEN 200 ELSE 0]
    /\ UNCHANGED <<chatVars, server, lines, text>>

\* The body has its last line.
Finished(r) == lines[r] # <<>> /\ lines[r][Len(lines[r])] # "piece"

\* Mutant of Line: the connection sees only whether the stream goes on.
LineOfEnd(r) == IF end'[r] = "none" THEN "piece" ELSE "done"

\* streaming_response: the line for an event.
Line(r) ==
    CASE end'[r] = "none"     -> "piece"
      [] end'[r] = "complete" -> "done"
      [] OTHER                -> "error"

StreamLine(r) ==
    /\ stage[r] = "open" /\ streams[r] /\ ~Finished(r)
    /\ (pieces[r] < MaxPieces /\ Ticket!Piece(r)) \/ Ticket!Finish(r)
    /\ lines' = [lines EXCEPT ![r] = Append(@, Line(r))]
    /\ UNCHANGED <<chatVars, server, stage, streams, text, status>>

\* recv gives None: the body ends without a last line.
StreamLost(r) ==
    /\ stage[r] = "open" /\ streams[r] /\ ~Finished(r)
    /\ Ticket!Close(r)
    /\ UNCHANGED <<chatVars, httpVars>>

\* non_streaming_response.
Gather(r) ==
    /\ stage[r] = "open" /\ ~streams[r] /\ status[r] = 0 /\ pieces[r] < MaxPieces
    /\ Ticket!Piece(r)
    /\ text' = [text EXCEPT ![r] = @ + 1]
    /\ UNCHANGED <<chatVars, server, stage, streams, lines, status>>

Answer(r) ==
    /\ stage[r] = "open" /\ ~streams[r] /\ status[r] = 0
    /\ Ticket!Finish(r)
    /\ status' = [status EXCEPT ![r] =
          CASE end'[r] = "complete"  -> 200
            [] end'[r] = "cancelled" -> 408
            [] end'[r] = "error"     -> 500]
    /\ UNCHANGED <<chatVars, server, stage, streams, lines, text>>

AnswerLost(r) ==
    /\ stage[r] = "open" /\ ~streams[r] /\ status[r] = 0
    /\ Ticket!Close(r)
    /\ status' = [status EXCEPT ![r] = 500]
    /\ UNCHANGED <<chatVars, server, stage, streams, lines, text>>

\* Mutant of EndResponse: a body without a last line is kept open.
EndResponseFinished(r) ==
    /\ stage[r] = "open"
    /\ IF streams[r] THEN Finished(r) ELSE status[r] # 0
    /\ Ticket!Abandon(r)
    /\ stage' = [stage EXCEPT ![r] = "answered"]
    /\ UNCHANGED <<chatVars, server, streams, lines, text, status>>

\* The response is out: the ticket is dropped.
EndResponse(r) ==
    /\ stage[r] = "open"
    /\ IF streams[r] THEN Finished(r) \/ closed[r] ELSE status[r] # 0
    /\ Ticket!Abandon(r)
    /\ stage' = [stage EXCEPT ![r] = "answered"]
    /\ UNCHANGED <<chatVars, server, streams, lines, text, status>>

\* Mutant of Disconnect: the handler runs on without its client.
DisconnectOnly(r) ==
    /\ stage[r] = "open"
    /\ stage' = [stage EXCEPT ![r] = "left"]
    /\ UNCHANGED <<tickets, chatVars, server, streams, lines, text, status>>

\* The connection is gone: the handler or the body is dropped with the ticket.
Disconnect(r) ==
    /\ stage[r] = "open"
    /\ Ticket!Abandon(r)
    /\ stage' = [stage EXCEPT ![r] = "left"]
    /\ UNCHANGED <<chatVars, server, streams, lines, text, status>>

\* shutdown_signal: no more connections.
Signal ==
    /\ server = "serving"
    /\ server' = "draining"
    /\ UNCHANGED <<tickets, chatVars, stage, streams, lines, text, status>>

\* with_graceful_shutdown: every connection has ended.
Drained == \A r \in Requests : stage[r] \notin {"reading", "open"}

ServeReturns ==
    /\ server = "draining" /\ Drained
    /\ server' = "returned"
    /\ UNCHANGED <<tickets, chatVars, stage, streams, lines, text, status>>

Receive(r) == Refuse(r) \/ Accept(r) \/ Withdraw(r)

Respond(r) ==
    StreamLine(r) \/ StreamLost(r) \/ Gather(r) \/ Answer(r) \/ AnswerLost(r) \/ EndResponse(r)

ServerNext ==
    \/ \E r \in Requests : Connect(r) \/ Receive(r) \/ Respond(r) \/ Disconnect(r)
    \/ Signal \/ ServeReturns

-----------------------------------------------------------------------------
\* A worker dies under all of the tickets it has.
WorkerDies ==
    /\ Ticket!Break
    /\ \A job \in Jobs : broken'[job] # broken[job] => held[job] = "open" /\ ~closed[job]
    /\ UNCHANGED <<chatVars, httpVars>>

ClientsNext ==
    /\ \/ command = "run" /\ ChatNext
       \/ command = "serve" /\ ServerNext
       \/ WorkerDies
    /\ UNCHANGED command

ClientsSpec == ClientsInit /\ [][ClientsNext]_clientVars

-----------------------------------------------------------------------------
\* README.md:63: "Ctrl-C cancels an in-flight turn and returns to the prompt": at the prompt the
\* history that goes into the next turn is whole turns, each question with the answer of its
\* own turn, and each answer complete; cancelled turns leave nothing, whatever event arrived
\* with the interrupt.
WholeTurns ==
    terminal = "prompt" =>
        /\ Len(dialogue) % 2 = 0
        /\ \A i \in 1..Len(dialogue) :
              dialogue[i].role = (IF i % 2 = 1 THEN "user" ELSE "assistant")
        /\ \A i \in 1..(Len(dialogue) \div 2) :
              LET asked == dialogue[2 * i - 1].turn IN
              dialogue[2 * i].turn = asked /\ end[asked] = "complete"

\* README.md:120: "newline-delimited JSON": the lines of a body are the pieces of the answer in
\* order and then at most one last line, which tells a complete answer from a failed or
\* cancelled one; a body without a last line means the worker died.  One JSON answer has all
\* pieces if its status is 200.
AnswersFramed ==
    \A r \in Requests :
        /\ \A i \in 1..(Len(lines[r]) - 1) : lines[r][i] = "piece"
        /\ Finished(r) =>
              /\ Len(lines[r]) = pieces[r] + 1
              /\ (lines[r][Len(lines[r])] = "done") = (end[r] = "complete")
        /\ stage[r] = "answered" /\ streams[r] => Finished(r) \/ broken[r]
        /\ stage[r] = "answered" /\ ~streams[r] =>
              /\ (status[r] = 200) = (end[r] = "complete")
              /\ status[r] = 200 => text[r] = pieces[r]

\* README.md:137: "Disconnects cancel generation": a job goes on only while somebody waits
\* for it; when the server returns and the runtime is dropped, nobody does.
OnlyAttended ==
    \A job \in Jobs : held[job] = "open" =>
        \/ job \in Requests /\ stage[job] = "open" /\ server # "returned"
        \/ job = turn

\* README.md:137: "Ctrl-C or SIGTERM drains the HTTP server": after the signal the server
\* returns, whatever streams are open and whichever worker dies.
ServerDrains == (server = "draining") ~> (server = "returned")
=============================================================================
