---------------------------- MODULE ClientsProofs ----------------------------
(***************************************************************************)
(* Proofs about the two front ends, for every set of turns and requests    *)
(* and every number of pieces: who holds an open ticket, what an answer    *)
(* looks like to its client, and what the chat sends with the next turn.   *)
(***************************************************************************)
EXTENDS Clients, SequenceTheorems, TLAPS

\* What the history of the chat is made of.
Said == [role : {"user", "assistant"}, turn : Turns]

TicketTypes ==
    /\ held \in [Jobs -> {"none", "open", "dropped"}]
    /\ pieces \in [Jobs -> Nat]
    /\ end \in [Jobs -> Terminals \union {"none"}]
    /\ closed \in [Jobs -> BOOLEAN]
    /\ broken \in [Jobs -> BOOLEAN]

ChatTypes ==
    /\ terminal \in {"prompt", "turn", "decided", "ended"}
    /\ turn \in Turns \union {NoJob}
    /\ verdict \in Terminals \union {"none"}
    /\ dialogue \in Seq(Said)
    /\ terminal = "prompt" => turn = NoJob
    /\ terminal \in {"turn", "decided"} => turn \in Turns

HttpTypes ==
    /\ server \in {"serving", "draining", "returned"}
    /\ stage \in [Requests -> {"idle", "reading", "refused", "open", "answered", "left"}]
    /\ streams \in [Requests -> BOOLEAN]
    /\ lines \in [Requests -> Seq({"piece", "done", "error"})]
    /\ text \in [Requests -> Nat]
    /\ status \in [Requests -> Nat]

ClientTypes == TicketTypes /\ ChatTypes /\ HttpTypes

\* What each operation on a ticket does, job by job.
LEMMA TicketSteps ==
    ASSUME TicketTypes, NEW j \in Jobs
    PROVE  /\ Ticket!Issue(j) => /\ TicketTypes' /\ held[j] = "none" /\ held'[j] = "open"
                                 /\ \A k \in Jobs : k # j => held'[k] = held[k]
                                 /\ UNCHANGED <<pieces, end, closed, broken>>
           /\ Ticket!Piece(j) => /\ TicketTypes' /\ held[j] = "open" /\ end[j] = "none"
                                 /\ ~closed[j] /\ pieces'[j] = pieces[j] + 1
                                 /\ \A k \in Jobs : k # j => pieces'[k] = pieces[k]
                                 /\ UNCHANGED <<held, end, closed, broken>>
           /\ Ticket!Finish(j) => /\ TicketTypes' /\ held[j] = "open" /\ end[j] = "none"
                                  /\ ~closed[j] /\ end'[j] \in Terminals
                                  /\ \A k \in Jobs : k # j => end'[k] = end[k]
                                  /\ UNCHANGED <<held, pieces, closed, broken>>
           /\ Ticket!Close(j) => /\ TicketTypes' /\ held[j] = "open" /\ ~closed[j]
                                 /\ end[j] # "none" \/ broken[j]
                                 /\ closed'[j]
                                 /\ \A k \in Jobs : k # j => closed'[k] = closed[k]
                                 /\ UNCHANGED <<held, pieces, end, broken>>
           /\ Ticket!Abandon(j) => /\ TicketTypes' /\ held[j] = "open" /\ held'[j] = "dropped"
                                   /\ \A k \in Jobs : k # j => held'[k] = held[k]
                                   /\ UNCHANGED <<pieces, end, closed, broken>>
<1> USE DEF TicketTypes, Ticket!Issue, Ticket!Piece, Ticket!Finish, Ticket!Close, Ticket!Abandon
<1>1. CASE Ticket!Issue(j)
  BY <1>1
<1>2. CASE Ticket!Piece(j)
  BY <1>2
<1>3. CASE Ticket!Finish(j)
  BY <1>3
<1>4. CASE Ticket!Close(j)
  BY <1>4
<1>5. CASE Ticket!Abandon(j)
  BY <1>5
<1> HIDE DEF TicketTypes, Ticket!Issue, Ticket!Piece, Ticket!Finish, Ticket!Close, Ticket!Abandon
<1>6. QED
  BY <1>1, <1>2, <1>3, <1>4, <1>5

\* A dying worker breaks open tickets and changes nothing else.
LEMMA BreakSteps ==
    ASSUME TicketTypes, WorkerDies
    PROVE  /\ TicketTypes'
           /\ \A j \in Jobs : broken[j] => broken'[j]
           /\ UNCHANGED <<held, pieces, end, closed, chatVars, httpVars>>
BY DEF TicketTypes, WorkerDies, Ticket!Break

\* A history without its last entry.
LEMMA DropLast ==
    ASSUME NEW S, NEW s \in Seq(S)
    PROVE  /\ SubSeq(s, 1, Len(s) - 1) \in Seq(S)
           /\ s # <<>> => Len(SubSeq(s, 1, Len(s) - 1)) = Len(s) - 1
           /\ \A i \in 1..(Len(s) - 1) : SubSeq(s, 1, Len(s) - 1)[i] = s[i]
<1>1. Len(s) \in Nat /\ Len(s) - 1 \in Int /\ \A i \in 1..(Len(s) - 1) : s[i] \in S
  OBVIOUS
<1>2. /\ SubSeq(s, 1, Len(s) - 1) \in Seq(S)
      /\ Len(SubSeq(s, 1, Len(s) - 1)) = IF 1 <= Len(s) - 1 THEN Len(s) - 1 - 1 + 1 ELSE 0
      /\ \A i \in 1..(Len(s) - 1 - 1 + 1) : SubSeq(s, 1, Len(s) - 1)[i] = s[1 + i - 1]
  BY <1>1, SubSeqProperties
<1>3. s # <<>> => Len(s) # 0
  OBVIOUS
<1>4. \A n \in Nat : /\ n # 0 => (IF 1 <= n - 1 THEN n - 1 - 1 + 1 ELSE 0) = n - 1
                     /\ \A i \in 1..(n - 1) : i \in 1..(n - 1 - 1 + 1) /\ 1 + i - 1 = i
  OBVIOUS
<1>5. s # <<>> => Len(SubSeq(s, 1, Len(s) - 1)) = Len(s) - 1
  BY <1>1, <1>2, <1>3, <1>4
<1>6. \A i \in 1..(Len(s) - 1) : SubSeq(s, 1, Len(s) - 1)[i] = s[i]
  BY <1>1, <1>2, <1>4
<1>7. QED
  BY <1>2, <1>5, <1>6

\* The types after a step of the chat.
LEMMA ChatKeepsTypes == ClientTypes /\ ChatNext => ClientTypes'
<1> SUFFICES ASSUME ClientTypes, ChatNext PROVE ClientTypes'
  OBVIOUS
<1> USE DEF ChatTypes, httpVars
<1>1. TicketTypes /\ ChatTypes /\ HttpTypes
  BY DEF ClientTypes
<1>2. UNCHANGED httpVars /\ HttpTypes'
  BY <1>1 DEF HttpTypes, ChatNext, Enter, Rejected, Leave, Clear, Show, Decide, Lost, Interrupt,
     Unwritable, EndTurn, EndChat, chatVars
<1>3. TicketTypes' /\ ChatTypes'
  <2>1. CASE Enter
    BY <1>1, <2>1, TicketSteps DEF Enter, Jobs, Terminals, Said
  <2>2. CASE Rejected \/ Leave \/ Clear \/ Interrupt \/ Unwritable
    <3>1. TicketTypes'
      BY <1>1, <2>2 DEF Rejected, Leave, Clear, Interrupt, Unwritable, tickets, TicketTypes
    <3>2. ChatTypes'
      <4>1. CASE Rejected
        <5>1. PICK t \in Turns : dialogue' = Append(dialogue, [role |-> "user", turn |-> t])
          BY <4>1 DEF Rejected
        <5>2. [role |-> "user", turn |-> t] \in Said
          BY DEF Said
        <5>3. QED
          BY <1>1, <4>1, <5>1, <5>2 DEF Rejected
      <4>2. CASE Leave \/ Clear
        <5>1. <<>> \in Seq(Said)
          OBVIOUS
        <5>2. QED
          BY <1>1, <4>2, <5>1 DEF Leave, Clear
      <4>3. CASE Interrupt \/ Unwritable
        BY <1>1, <4>3 DEF Interrupt, Unwritable, Terminals
      <4>4. QED
        BY <2>2, <4>1, <4>2, <4>3
    <3>3. QED
      BY <3>1, <3>2
  <2>3. CASE Show
    BY <1>1, <2>3, TicketSteps DEF Show, chatVars, Jobs
  <2>4. CASE Decide
    BY <1>1, <2>4, TicketSteps DEF Decide, Jobs
  <2>5. CASE Lost
    BY <1>1, <2>5, TicketSteps DEF Lost, Jobs
  <2>6. CASE EndTurn
    <3>1. Settled \in Seq(Said)
      <4>1. dialogue \in Seq(Said) /\ turn \in Turns
        BY <1>1, <2>6 DEF EndTurn
      <4>2. SubSeq(dialogue, 1, Len(dialogue) - 1) \in Seq(Said)
        BY <4>1, DropLast
      <4>3. [role |-> "assistant", turn |-> turn] \in Said
        BY <4>1 DEF Said
      <4>4. QED
        BY <4>1, <4>2, <4>3 DEF Settled
    <3>2. QED
      BY <1>1, <2>6, <3>1, TicketSteps DEF EndTurn, Jobs
  <2>7. CASE EndChat
    BY <1>1, <2>7, TicketSteps DEF EndChat, Jobs
  <2>8. QED
    BY <2>1, <2>2, <2>3, <2>4, <2>5, <2>6, <2>7 DEF ChatNext
<1>4. QED
  BY <1>2, <1>3 DEF ClientTypes

\* The types after a step of the server.
LEMMA ServerKeepsTypes == ClientTypes /\ ServerNext => ClientTypes'
<1> SUFFICES ASSUME ClientTypes, ServerNext PROVE ClientTypes'
  OBVIOUS
<1>1. TicketTypes /\ ChatTypes /\ HttpTypes
  BY DEF ClientTypes
<1>2. UNCHANGED chatVars /\ ChatTypes'
  BY <1>1 DEF ChatTypes, chatVars, ServerNext, Connect, Receive, Withdraw, Refuse, Accept,
      Respond, StreamLine, StreamLost, Gather, Answer, AnswerLost, EndResponse, Disconnect,
      Signal, ServeReturns, httpVars
<1>3. ASSUME NEW r \in Requests, Connect(r) \/ Receive(r) \/ Respond(r) \/ Disconnect(r)
      PROVE  TicketTypes' /\ HttpTypes'
  <2> USE DEF HttpTypes, Jobs
  <2>1. CASE Connect(r) \/ Withdraw(r) \/ Refuse(r)
    <3>1. TicketTypes'
      BY <1>1, <2>1 DEF Connect, Withdraw, Refuse, tickets, TicketTypes
    <3>2. HttpTypes'
      <4>1. CASE Connect(r) \/ Withdraw(r)
        BY <1>1, <4>1 DEF Connect, Withdraw
      <4>2. CASE Refuse(r)
        BY <1>1, <4>2 DEF Refuse
      <4>3. QED
        BY <2>1, <4>1, <4>2
    <3>3. QED
      BY <3>1, <3>2
  <2>2. CASE Accept(r)
    BY <1>1, <2>2, TicketSteps DEF Accept
  <2>3. CASE StreamLine(r)
    BY <1>1, <2>3, TicketSteps DEF StreamLine, Line
  <2>4. CASE StreamLost(r)
    BY <1>1, <2>4, TicketSteps DEF StreamLost, httpVars
  <2>5. CASE Gather(r)
    BY <1>1, <2>5, TicketSteps DEF Gather
  <2>6. CASE Answer(r)
    BY <1>1, <2>6, TicketSteps DEF Answer, Terminals
  <2>7. CASE AnswerLost(r)
    BY <1>1, <2>7, TicketSteps DEF AnswerLost
  <2>8. CASE EndResponse(r) \/ Disconnect(r)
    BY <1>1, <2>8, TicketSteps DEF EndResponse, Disconnect
  <2>9. QED
    BY <1>3, <2>1, <2>2, <2>3, <2>4, <2>5, <2>6, <2>7, <2>8 DEF Receive, Respond
<1>4. ASSUME Signal \/ ServeReturns PROVE TicketTypes' /\ HttpTypes'
  BY <1>1, <1>4 DEF Signal, ServeReturns, tickets, TicketTypes, HttpTypes
<1>5. TicketTypes' /\ HttpTypes'
  BY <1>3, <1>4 DEF ServerNext
<1>6. QED
  BY <1>2, <1>5 DEF ClientTypes
\* The client variables keep their types.
LEMMA ClientTypesHold == ClientsSpec => []ClientTypes
<1>1. ClientsInit => ClientTypes
  BY ClientsAssumption
  DEF ClientsInit, Ticket!Init, ClientTypes, TicketTypes, ChatTypes, HttpTypes, Terminals
<1>2. ClientTypes /\ [ClientsNext]_clientVars => ClientTypes'
  <2> SUFFICES ASSUME ClientTypes, [ClientsNext]_clientVars PROVE ClientTypes'
    OBVIOUS
  <2>1. CASE WorkerDies
    BY <2>1, BreakSteps DEF ClientTypes, ChatTypes, HttpTypes, chatVars, httpVars
  <2>2. CASE UNCHANGED clientVars
    BY <2>2 DEF clientVars, tickets, chatVars, httpVars, ClientTypes, TicketTypes, ChatTypes, HttpTypes
  <2>3. QED
    BY <2>1, <2>2, ChatKeepsTypes, ServerKeepsTypes DEF ClientsNext
<1>3. QED
  BY <1>1, <1>2, PTL DEF ClientsSpec
-----------------------------------------------------------------------------
(***************************************************************************)
(* Attendance.  A ticket is open only in the hands of the handler of its   *)
(* request or of the chat's current turn, and every end of a turn or of a  *)
(* response drops it.                                                      *)
(***************************************************************************)
Attended ==
    /\ \A t \in Turns : held[t] = "open" => t = turn
    /\ \A r \in Requests : held[r] = "open" => stage[r] = "open"
    /\ server = "returned" => Drained

LEMMA AttendedStep == ClientTypes /\ Attended /\ [ClientsNext]_clientVars => Attended'
<1> SUFFICES ASSUME ClientTypes, Attended, [ClientsNext]_clientVars PROVE Attended'
  OBVIOUS
<1>1. TicketTypes /\ ChatTypes /\ HttpTypes
  BY DEF ClientTypes
<1>2. CASE ChatNext
  <2>1. UNCHANGED <<server, stage>>
    BY <1>2 DEF ChatNext, Enter, Rejected, Leave, Clear, Show, Decide, Lost, Interrupt,
       Unwritable, EndTurn, EndChat, httpVars
  <2>2. \A r \in Requests : held'[r] = held[r]
    BY <1>1, <1>2, TicketSteps, ClientsAssumption
    DEF ChatNext, Enter, Rejected, Leave, Clear, Show, Decide, Lost, Interrupt,
       Unwritable, EndTurn, EndChat, tickets, ChatTypes, Jobs
  <2>3. \A t \in Turns : held'[t] = "open" => t = turn'
    BY <1>1, <1>2, TicketSteps, ClientsAssumption
    DEF ChatNext, Enter, Rejected, Leave, Clear, Show, Decide, Lost, Interrupt,
       Unwritable, EndTurn, EndChat, tickets, chatVars, ChatTypes, Jobs, Attended
  <2>4. QED
    BY <2>1, <2>2, <2>3 DEF Attended, Drained
<1>3. ASSUME NEW r \in Requests, Connect(r) \/ Receive(r) \/ Respond(r) \/ Disconnect(r)
      PROVE  Attended'
  <2>1. /\ r \in Jobs /\ r \notin Turns
        /\ stage \in [Requests -> {"idle", "reading", "refused", "open", "answered", "left"}]
    BY <1>1, ClientsAssumption DEF Jobs, HttpTypes
  <2>2. UNCHANGED <<server, turn>>
    BY <1>3 DEF Connect, Receive, Withdraw, Refuse, Accept, Respond, StreamLine, StreamLost,
        Gather, Answer, AnswerLost, EndResponse, Disconnect, chatVars, httpVars
  <2>3. CASE Connect(r) \/ Withdraw(r) \/ Refuse(r)
    BY <2>1, <2>2, <2>3 DEF Connect, Withdraw, Refuse, tickets, Attended, Drained
  <2>4. CASE Accept(r)
    BY <1>1, <2>1, <2>2, <2>4, TicketSteps DEF Accept, Attended, Drained, Jobs
  <2>5. CASE Respond(r) /\ ~EndResponse(r)
    BY <1>1, <2>1, <2>2, <2>5, TicketSteps
    DEF Respond, StreamLine, StreamLost, Gather, Answer, AnswerLost, Attended, Drained, httpVars
  <2>6. CASE EndResponse(r) \/ Disconnect(r)
    BY <1>1, <2>1, <2>2, <2>6, TicketSteps DEF EndResponse, Disconnect, Attended, Drained, Jobs
  <2>7. QED
    BY <1>3, <2>3, <2>4, <2>5, <2>6 DEF Receive
<1>4. CASE Signal \/ ServeReturns \/ WorkerDies \/ UNCHANGED clientVars
  BY <1>1, <1>4, BreakSteps
  DEF Signal, ServeReturns, tickets, chatVars, httpVars, clientVars, Attended, Drained
<1>5. QED
  BY <1>2, <1>3, <1>4 DEF ClientsNext, ServerNext

\* README.md:137: "Disconnects cancel generation": a job goes on only while somebody waits
\* for it.
THEOREM JobsAttended == ClientsSpec => []OnlyAttended
<1>1. ClientsInit => Attended
  BY DEF ClientsInit, Ticket!Init, Attended, Drained, Jobs
<1>2. ClientTypes /\ Attended => OnlyAttended
  BY DEF Attended, OnlyAttended, Drained, Jobs
<1>3. QED
  BY <1>1, <1>2, AttendedStep, ClientTypesHold, PTL DEF ClientsSpec
-----------------------------------------------------------------------------
(***************************************************************************)
(* Framing.  What a response has shown is tied, event by event, to what    *)
(* its ticket has delivered.                                               *)
(***************************************************************************)
Answering(r) == stage[r] \notin {"idle", "reading", "refused"}

StreamFramed(r) ==
    /\ Len(lines[r]) = IF end[r] = "none" THEN pieces[r] ELSE pieces[r] + 1
    /\ \A i \in 1..pieces[r] : lines[r][i] = "piece"
    /\ end[r] # "none" =>
         lines[r][pieces[r] + 1] = IF end[r] = "complete" THEN "done" ELSE "error"
    /\ stage[r] = "answered" => end[r] # "none" \/ closed[r]

JsonFramed(r) ==
    /\ lines[r] = <<>> /\ text[r] = pieces[r]
    /\ (status[r] = 200) = (end[r] = "complete")
    /\ (status[r] = 0) = (end[r] = "none" /\ ~closed[r])

Framed(r) ==
    /\ closed[r] => broken[r] /\ end[r] = "none"
    /\ ~Answering(r) => /\ pieces[r] = 0 /\ end[r] = "none" /\ ~closed[r]
                        /\ lines[r] = <<>> /\ text[r] = 0
    /\ stage[r] \in {"idle", "reading"} => status[r] = 0
    /\ Answering(r) /\ streams[r] => StreamFramed(r)
    /\ Answering(r) /\ ~streams[r] => JsonFramed(r)

AllFramed == \A r \in Requests : Framed(r)

\* A request whose ticket and response stay as they are.
LEMMA SameFramed ==
    ASSUME ClientTypes, NEW r \in Requests, Framed(r),
           pieces'[r] = pieces[r], end'[r] = end[r], closed'[r] = closed[r],
           broken[r] => broken'[r],
           stage'[r] = stage[r], streams'[r] = streams[r], lines'[r] = lines[r],
           text'[r] = text[r], status'[r] = status[r]
    PROVE  Framed(r)'
BY DEF Framed, Answering, StreamFramed, JsonFramed

\* The request that takes a step.
LEMMA ServerFrames ==
    ASSUME ClientTypes, NEW r \in Requests, Framed(r),
           Connect(r) \/ Receive(r) \/ Respond(r) \/ Disconnect(r)
    PROVE  Framed(r)'
<1>1. /\ TicketTypes /\ HttpTypes /\ r \in Jobs
      /\ lines[r] \in Seq({"piece", "done", "error"}) /\ Len(lines[r]) \in Nat
      /\ pieces[r] \in Nat /\ text[r] \in Nat
  BY DEF ClientTypes, HttpTypes, TicketTypes, Jobs
<1> USE DEF Framed, Answering
<1>2. CASE Refuse(r)
  BY <1>1, <1>2 DEF Refuse, tickets, JsonFramed, HttpTypes
<1>3. CASE Accept(r)
  <2>1. stage[r] = "reading" /\ stage'[r] = "open" /\ streams'[r] \in BOOLEAN
        /\ status'[r] = (IF streams'[r] THEN 200 ELSE 0)
        /\ UNCHANGED <<pieces, end, closed, broken, lines, text>>
    BY <1>1, <1>3, TicketSteps DEF Accept, HttpTypes
  <2>2. StreamFramed(r)' /\ (~streams'[r] => JsonFramed(r)')
    BY <1>1, <2>1 DEF StreamFramed, JsonFramed
  <2>3. QED
    BY <2>1, <2>2
<1>4. CASE StreamLine(r)
  <2>1. stage[r] = "open" /\ streams[r] /\ StreamFramed(r)
    BY <1>4 DEF StreamLine
  <2>2. /\ lines'[r] = Append(lines[r], Line(r))
        /\ UNCHANGED <<stage, streams, closed, broken>>
    BY <1>1, <1>4, TicketSteps DEF StreamLine, HttpTypes
  <2>3. \/ end[r] = "none" /\ end'[r] = "none" /\ pieces'[r] = pieces[r] + 1
        \/ end[r] = "none" /\ end'[r] \in Terminals /\ pieces'[r] = pieces[r]
    BY <1>1, <1>4, TicketSteps DEF StreamLine
  <2>4. ~closed[r]
    BY <1>1, <1>4, TicketSteps DEF StreamLine
  <2>5. Len(lines[r]) = pieces[r] /\ \A i \in 1..pieces[r] : lines[r][i] = "piece"
    BY <2>1, <2>3 DEF StreamFramed
  <2>6. Line(r) = IF end'[r] = "none" THEN "piece"
                  ELSE IF end'[r] = "complete" THEN "done" ELSE "error"
    BY <2>3 DEF Line, Terminals
  <2>7. /\ Len(lines'[r]) = pieces[r] + 1
        /\ lines'[r][pieces[r] + 1] = Line(r)
        /\ \A i \in 1..pieces[r] : lines'[r][i] = "piece"
    BY <1>1, <2>2, <2>5, <2>6
  <2>8. StreamFramed(r)'
    BY <1>1, <2>1, <2>2, <2>3, <2>6, <2>7 DEF StreamFramed, Terminals
  <2>9. QED
    BY <2>1, <2>2, <2>4, <2>8
<1>5. CASE StreamLost(r)
  <2>1. stage[r] = "open" /\ streams[r] /\ StreamFramed(r) /\ ~Finished(r)
        /\ UNCHANGED <<stage, streams, lines, text, status, pieces, end, broken>>
    BY <1>1, <1>5, TicketSteps DEF StreamLost, httpVars
  <2>2. end[r] = "none"
    BY <1>1, <2>1 DEF StreamFramed, Finished
  <2>3. end[r] # "none" \/ broken[r]
    BY <1>1, <1>5, TicketSteps DEF StreamLost
  <2>4. QED
    BY <2>1, <2>2, <2>3 DEF StreamFramed
<1>6. CASE Gather(r)
  <2>1. /\ stage[r] = "open" /\ ~streams[r] /\ JsonFramed(r)
        /\ pieces'[r] = pieces[r] + 1 /\ text'[r] = text[r] + 1
        /\ UNCHANGED <<stage, streams, lines, status, end, closed, broken>>
    BY <1>1, <1>6, TicketSteps DEF Gather, HttpTypes
  <2>2. QED
    BY <2>1 DEF JsonFramed
<1>7. CASE Answer(r)
  <2>1. /\ stage[r] = "open" /\ ~streams[r] /\ JsonFramed(r)
        /\ end'[r] \in Terminals
        /\ status'[r] = CASE end'[r] = "complete"  -> 200
                          [] end'[r] = "cancelled" -> 408
                          [] end'[r] = "error"     -> 500
        /\ ~closed[r]
        /\ UNCHANGED <<stage, streams, lines, text, pieces, closed, broken>>
    BY <1>1, <1>7, TicketSteps DEF Answer, HttpTypes
  <2>2. status'[r] # 0 /\ (status'[r] = 200) = (end'[r] = "complete") /\ end'[r] # "none"
    BY <2>1 DEF Terminals
  <2>3. QED
    BY <2>1, <2>2 DEF JsonFramed
<1>8. CASE AnswerLost(r)
  <2>1. /\ stage[r] = "open" /\ ~streams[r] /\ JsonFramed(r) /\ status[r] = 0
        /\ end[r] # "none" \/ broken[r]
        /\ closed'[r] /\ status'[r] = 500
        /\ UNCHANGED <<stage, streams, lines, text, pieces, end, broken>>
    BY <1>1, <1>8, TicketSteps DEF AnswerLost, HttpTypes
  <2>2. QED
    BY <2>1 DEF JsonFramed
<1>9. CASE EndResponse(r) \/ Disconnect(r)
  <2>1. /\ stage[r] = "open" /\ stage'[r] \in {"answered", "left"}
        /\ stage'[r] = "answered" /\ streams[r] => Finished(r) \/ closed[r]
        /\ UNCHANGED <<streams, lines, text, status, pieces, end, closed, broken>>
    BY <1>1, <1>9, TicketSteps DEF EndResponse, Disconnect, HttpTypes
  <2>2. ASSUME streams[r] PROVE StreamFramed(r)'
    <3>1. StreamFramed(r) /\ (Finished(r) => end[r] # "none")
      BY <1>1, <2>1, <2>2 DEF StreamFramed, Finished
    <3>2. QED
      BY <2>1, <2>2, <3>1 DEF StreamFramed
  <2>3. QED
    BY <2>1, <2>2 DEF JsonFramed
<1>10. CASE Connect(r) \/ Withdraw(r)
  <2>1. /\ stage[r] \in {"idle", "reading"} /\ stage'[r] \in {"reading", "left"}
        /\ UNCHANGED <<streams, lines, text, status, pieces, end, closed, broken>>
    BY <1>1, <1>10 DEF Connect, Withdraw, tickets, HttpTypes
  <2>2. QED
    BY <1>1, <2>1 DEF StreamFramed, JsonFramed
<1>11. QED
  BY <1>2, <1>3, <1>4, <1>5, <1>6, <1>7, <1>8, <1>9, <1>10 DEF Receive, Respond

\* Every step keeps every answer framed.
LEMMA FramedStep == ClientTypes /\ AllFramed /\ [ClientsNext]_clientVars => AllFramed'
<1> SUFFICES ASSUME ClientTypes, AllFramed, [ClientsNext]_clientVars, NEW q \in Requests
             PROVE  Framed(q)'
  BY DEF AllFramed
<1>1. /\ TicketTypes /\ ChatTypes /\ HttpTypes /\ Framed(q)
      /\ q \in Jobs /\ q \notin Turns /\ Turns \subseteq Jobs
  BY ClientsAssumption DEF ClientTypes, Jobs, AllFramed
<1>2. ASSUME NEW r \in Requests, Connect(r) \/ Receive(r) \/ Respond(r) \/ Disconnect(r)
      PROVE  Framed(q)'
  <2>1. CASE q = r
    BY <1>1, <1>2, <2>1, ServerFrames
  <2>2. CASE q # r
    <3>1. /\ pieces'[q] = pieces[q] /\ end'[q] = end[q] /\ closed'[q] = closed[q]
          /\ broken'[q] = broken[q]
      BY <1>1, <1>2, <2>2, TicketSteps
      DEF Connect, Receive, Withdraw, Refuse, Accept, Respond, StreamLine, StreamLost, Gather,
          Answer, AnswerLost, EndResponse, Disconnect, tickets, Jobs
    <3>2. /\ stage'[q] = stage[q] /\ streams'[q] = streams[q] /\ lines'[q] = lines[q]
          /\ text'[q] = text[q] /\ status'[q] = status[q]
      BY <1>1, <1>2, <2>2
      DEF Connect, Receive, Withdraw, Refuse, Accept, Respond, StreamLine, StreamLost, Gather,
          Answer, AnswerLost, EndResponse, Disconnect, HttpTypes, httpVars
    <3>3. QED
      BY <1>1, <3>1, <3>2, SameFramed
  <2>3. QED
    BY <2>1, <2>2
<1>3. CASE ChatNext
  <2>1. /\ pieces'[q] = pieces[q] /\ end'[q] = end[q] /\ closed'[q] = closed[q]
        /\ broken'[q] = broken[q]
    BY <1>1, <1>3, TicketSteps
    DEF ChatNext, Enter, Rejected, Leave, Clear, Show, Decide, Lost, Interrupt, Unwritable,
        EndTurn, EndChat, tickets, ChatTypes
  <2>2. UNCHANGED httpVars
    BY <1>3 DEF ChatNext, Enter, Rejected, Leave, Clear, Show, Decide, Lost, Interrupt,
       Unwritable, EndTurn, EndChat
  <2>3. QED
    BY <1>1, <2>1, <2>2, SameFramed DEF httpVars
<1>4. CASE Signal \/ ServeReturns \/ WorkerDies \/ UNCHANGED clientVars
  BY <1>1, <1>4, BreakSteps, SameFramed
  DEF Signal, ServeReturns, tickets, chatVars, httpVars, clientVars
<1>5. QED
  BY <1>2, <1>3, <1>4 DEF ClientsNext, ServerNext

\* README.md:120: "newline-delimited JSON": the pieces of the answer in order, then at most
\* one last line that tells a complete answer from the others; a body without one means
\* that the worker died.
THEOREM AnswersAreFramed == ClientsSpec => []AnswersFramed
<1>1. ClientsInit => AllFramed
  BY DEF ClientsInit, Ticket!Init, AllFramed, Framed, Answering, Jobs
<1>2. ClientTypes /\ AllFramed => AnswersFramed
  <2> SUFFICES ASSUME ClientTypes, AllFramed, NEW r \in Requests
               PROVE  /\ \A i \in 1..(Len(lines[r]) - 1) : lines[r][i] = "piece"
                      /\ Finished(r) =>
                            /\ Len(lines[r]) = pieces[r] + 1
                            /\ (lines[r][Len(lines[r])] = "done") = (end[r] = "complete")
                      /\ stage[r] = "answered" /\ streams[r] => Finished(r) \/ broken[r]
                      /\ stage[r] = "answered" /\ ~streams[r] =>
                            /\ (status[r] = 200) = (end[r] = "complete")
                            /\ status[r] = 200 => text[r] = pieces[r]
    BY DEF AnswersFramed
  <2>1. /\ Framed(r) /\ pieces[r] \in Nat
        /\ lines[r] \in Seq({"piece", "done", "error"}) /\ Len(lines[r]) \in Nat
    BY DEF AllFramed, ClientTypes, TicketTypes, HttpTypes, Jobs
  <2>2. CASE Answering(r) /\ streams[r]
    <3>1. StreamFramed(r) /\ (closed[r] => broken[r])
      BY <2>1, <2>2 DEF Framed
    <3>2. \A i \in 1..(Len(lines[r]) - 1) : lines[r][i] = "piece"
      BY <2>1, <3>1 DEF StreamFramed
    <3>3. Finished(r) <=> end[r] # "none"
      BY <2>1, <3>1 DEF StreamFramed, Finished
    <3>4. end[r] # "none" => (lines[r][Len(lines[r])] = "done") = (end[r] = "complete")
      BY <2>1, <3>1 DEF StreamFramed
    <3>5. QED
      BY <2>2, <3>1, <3>2, <3>3, <3>4 DEF StreamFramed
  <2>3. CASE ~(Answering(r) /\ streams[r])
    <3>1. lines[r] = <<>>
      BY <2>1, <2>3 DEF Framed, JsonFramed
    <3>2. ~Finished(r) /\ \A i \in 1..(Len(lines[r]) - 1) : lines[r][i] = "piece"
      BY <3>1 DEF Finished
    <3>3. QED
      BY <2>1, <2>3, <3>2 DEF Framed, JsonFramed, Answering
  <2>4. QED
    BY <2>2, <2>3
<1>3. QED
  BY <1>1, <1>2, FramedStep, ClientTypesHold, PTL DEF ClientsSpec
-----------------------------------------------------------------------------
(***************************************************************************)
(* The dialogue.  While a turn runs, its question is the last entry and    *)
(* everything before it is whole turns.                                    *)
(***************************************************************************)
Pairs(k) ==
    \A i \in 1..k :
        /\ dialogue[2 * i - 1].role = "user" /\ dialogue[2 * i].role = "assistant"
        /\ dialogue[2 * i].turn = dialogue[2 * i - 1].turn
        /\ end[dialogue[2 * i - 1].turn] = "complete"

Talk ==
    /\ terminal = "prompt" =>
         \E k \in 0..Len(dialogue) : Len(dialogue) = 2 * k /\ Pairs(k)
    /\ terminal \in {"turn", "decided"} =>
         \E k \in 0..Len(dialogue) :
            /\ Len(dialogue) = 2 * k + 1 /\ Pairs(k)
            /\ dialogue[2 * k + 1] = [role |-> "user", turn |-> turn]
    /\ terminal = "decided" =>
         verdict = "cancelled" \/ (verdict = "complete" /\ end[turn] = "complete")

\* A turn that is answered stays answered, and pairs stay as long as nothing before their
\* end is taken away.
LEMMA PairsStay ==
    ASSUME ClientTypes, NEW k \in Nat, 2 * k <= Len(dialogue), Pairs(k),
           \A i \in 1..(2 * k) : dialogue'[i] = dialogue[i],
           \A j \in Jobs : end[j] = "complete" => end'[j] = "complete"
    PROVE  Pairs(k)'
<1> SUFFICES ASSUME NEW i \in 1..k
             PROVE  /\ dialogue'[2 * i - 1].role = "user" /\ dialogue'[2 * i].role = "assistant"
                    /\ dialogue'[2 * i].turn = dialogue'[2 * i - 1].turn
                    /\ end'[dialogue'[2 * i - 1].turn] = "complete"
  BY DEF Pairs
<1>1. 2 * i - 1 \in 1..(2 * k) /\ 2 * i \in 1..(2 * k)
  OBVIOUS
<1>2. 2 * i - 1 \in 1..Len(dialogue) /\ dialogue \in Seq(Said)
  <2>1. dialogue \in Seq(Said) /\ Len(dialogue) \in Nat
    BY DEF ClientTypes, ChatTypes
  <2>2. QED
    BY <1>1, <2>1
<1>3. dialogue[2 * i - 1].turn \in Jobs
  <2>1. dialogue[2 * i - 1] \in Said
    BY <1>2
  <2>2. QED
    BY <2>1 DEF Said, Jobs
<1>4. QED
  BY <1>1, <1>3 DEF Pairs

\* A ticket that ended keeps its end.
LEMMA EndsStay ==
    ASSUME ClientTypes, [ClientsNext]_clientVars
    PROVE  \A j \in Jobs : end[j] # "none" => end'[j] = end[j]
<1>1. TicketTypes /\ (terminal = "turn" => turn \in Jobs)
  BY DEF ClientTypes, ChatTypes, Jobs
<1>2. CASE ChatNext
  BY <1>1, <1>2, TicketSteps
  DEF ChatNext, Enter, Rejected, Leave, Clear, Show, Decide, Lost, Interrupt, Unwritable,
      EndTurn, EndChat, tickets, Jobs, Ticket!Abandon
<1>3. CASE ServerNext
  BY <1>1, <1>3, TicketSteps
  DEF ServerNext, Connect, Receive, Withdraw, Refuse, Accept, Respond, StreamLine, StreamLost,
      Gather, Answer, AnswerLost, EndResponse, Disconnect, Signal, ServeReturns, tickets, Jobs
<1>4. CASE WorkerDies \/ UNCHANGED clientVars
  BY <1>1, <1>4, BreakSteps DEF clientVars, tickets
<1>5. QED
  BY <1>2, <1>3, <1>4 DEF ClientsNext

\* A turn in progress whose dialogue does not change.
Asked == \E k \in 0..Len(dialogue) :
            /\ Len(dialogue) = 2 * k + 1 /\ Pairs(k)
            /\ dialogue[2 * k + 1] = [role |-> "user", turn |-> turn]

LEMMA AskedStays ==
    ASSUME ClientTypes, Asked, [ClientsNext]_clientVars, UNCHANGED <<dialogue, turn>>
    PROVE  Asked'
<1>1. PICK k \in 0..Len(dialogue) :
        /\ Len(dialogue) = 2 * k + 1 /\ Pairs(k)
        /\ dialogue[2 * k + 1] = [role |-> "user", turn |-> turn]
  BY DEF Asked
<1>2. k \in Nat /\ 2 * k <= Len(dialogue)
  <2>1. Len(dialogue) \in Nat
    BY DEF ClientTypes, ChatTypes
  <2>2. QED
    BY <1>1, <2>1
<1>3. Pairs(k)'
  BY <1>1, <1>2, PairsStay, EndsStay
<1>4. QED
  BY <1>1, <1>3 DEF Asked

\* A question follows whole turns, and its answer or its withdrawal leaves whole turns.
LEMMA TalkStep == ClientTypes /\ Talk /\ [ClientsNext]_clientVars => Talk'
<1> SUFFICES ASSUME ClientTypes, Talk, [ClientsNext]_clientVars PROVE Talk'
  OBVIOUS
<1>1. /\ TicketTypes /\ ChatTypes
      /\ dialogue \in Seq(Said) /\ Len(dialogue) \in Nat
      /\ \A j \in Jobs : end[j] = "complete" => end'[j] = "complete"
  BY EndsStay DEF ClientTypes, ChatTypes
<1>2. CASE Enter
  <2>1. PICK t \in Turns :
          /\ turn' = t /\ dialogue' = Append(dialogue, [role |-> "user", turn |-> t])
    BY <1>2 DEF Enter
  <2>2. PICK k \in 0..Len(dialogue) : Len(dialogue) = 2 * k /\ Pairs(k)
    BY <1>2 DEF Enter, Talk
  <2>3. [role |-> "user", turn |-> t] \in Said
    BY DEF Said
  <2>4. /\ Len(dialogue') = 2 * k + 1 /\ k \in Nat /\ 2 * k <= Len(dialogue)
        /\ \A i \in 1..(2 * k) : dialogue'[i] = dialogue[i]
        /\ dialogue'[2 * k + 1] = [role |-> "user", turn |-> turn']
        /\ k \in 0..Len(dialogue')
    BY <1>1, <2>1, <2>2, <2>3
  <2>5. Pairs(k)'
    BY <1>1, <2>2, <2>4, PairsStay
  <2>6. QED
    BY <1>2, <2>4, <2>5 DEF Talk, Enter
<1>3. CASE Clear
  <2>1. dialogue' = <<>> /\ terminal' = "prompt"
    BY <1>3 DEF Clear
  <2>2. Len(dialogue') = 2 * 0 /\ Pairs(0)' /\ 0 \in 0..Len(dialogue')
    BY <2>1 DEF Pairs
  <2>3. QED
    BY <2>1, <2>2 DEF Talk
<1>4. CASE Show \/ Interrupt
  <2>1. terminal = "turn" /\ UNCHANGED <<dialogue, turn>>
    BY <1>4 DEF Show, Interrupt, chatVars
  <2>2. Asked'
    BY <2>1, AskedStays DEF Talk, Asked
  <2>3. QED
    BY <1>4, <2>1, <2>2 DEF Talk, Asked, Show, Interrupt, chatVars
<1>5. CASE Decide
  <2>1. terminal = "turn" /\ UNCHANGED <<dialogue, turn>> /\ turn \in Turns
        /\ terminal' = (IF end'[turn] = "error" THEN "ended" ELSE "decided")
        /\ verdict' = end'[turn]
    BY <1>1, <1>5 DEF Decide, ChatTypes
  <2>2. Asked'
    BY <2>1, AskedStays DEF Talk, Asked
  <2>3. end'[turn] \in Terminals
    BY <1>1, <1>5, <2>1, TicketSteps DEF Decide, Jobs
  <2>4. QED
    BY <2>1, <2>2, <2>3 DEF Talk, Asked, Terminals
<1>6. CASE EndTurn
  <2>1. /\ terminal = "decided" /\ terminal' = "prompt" /\ dialogue' = Settled
        /\ turn \in Turns
    BY <1>1, <1>6 DEF EndTurn, ChatTypes
  <2>2. PICK k \in 0..Len(dialogue) :
          /\ Len(dialogue) = 2 * k + 1 /\ Pairs(k)
          /\ dialogue[2 * k + 1] = [role |-> "user", turn |-> turn]
    BY <2>1 DEF Talk
  <2>3. k \in Nat /\ 2 * k <= Len(dialogue) /\ dialogue # <<>>
    BY <1>1, <2>2
  <2>4. CASE verdict = "cancelled"
    <3>1. dialogue' = SubSeq(dialogue, 1, Len(dialogue) - 1)
      BY <2>1, <2>4 DEF Settled
    <3>2. /\ Len(dialogue') = Len(dialogue) - 1
          /\ \A i \in 1..(Len(dialogue) - 1) : dialogue'[i] = dialogue[i]
      BY <1>1, <2>3, <3>1, DropLast
    <3>3. Len(dialogue') = 2 * k /\ k \in 0..Len(dialogue')
          /\ \A i \in 1..(2 * k) : dialogue'[i] = dialogue[i]
      BY <1>1, <2>2, <2>3, <3>2
    <3>4. Pairs(k)'
      BY <1>1, <2>2, <2>3, <3>3, PairsStay
    <3>5. QED
      BY <2>1, <3>3, <3>4 DEF Talk
  <2>5. CASE verdict = "complete" /\ end[turn] = "complete"
    <3> DEFINE said == [role |-> "assistant", turn |-> turn]
    <3>1. dialogue' = Append(dialogue, said) /\ said \in Said
      BY <2>1, <2>5 DEF Settled, Said
    <3>2. /\ Len(dialogue') = 2 * (k + 1) /\ k + 1 \in 0..Len(dialogue')
          /\ \A i \in 1..(2 * k + 1) : dialogue'[i] = dialogue[i]
          /\ \A i \in 1..(2 * k) : dialogue'[i] = dialogue[i]
          /\ dialogue'[2 * k + 2] = said
      BY <1>1, <2>2, <2>3, <3>1
    <3>3. Pairs(k)'
      BY <1>1, <2>2, <2>3, <3>2, PairsStay
    <3>4. end'[turn] = "complete"
      BY <1>1, <2>1, <2>5 DEF Jobs
    <3>5. /\ dialogue'[2 * (k + 1) - 1] = [role |-> "user", turn |-> turn]
          /\ dialogue'[2 * (k + 1)] = said
      <4>1. /\ 2 * (k + 1) - 1 = 2 * k + 1 /\ 2 * (k + 1) = 2 * k + 2
            /\ 2 * k + 1 \in 1..(2 * k + 1)
        BY <2>3
      <4>2. QED
        BY <2>2, <3>2, <4>1
    <3>6. Pairs(k + 1)'
      <4>1. \A i \in 1..(k + 1) : i \in 1..k \/ i = k + 1
        BY <2>3
      <4>2. QED
        BY <3>3, <3>4, <3>5, <4>1 DEF Pairs
    <3>7. QED
      BY <2>1, <3>2, <3>6 DEF Talk
  <2>6. QED
    BY <2>1, <2>4, <2>5 DEF Talk
<1>7. CASE Rejected \/ Leave \/ Lost \/ Unwritable \/ EndChat
  BY <1>7 DEF Rejected, Leave, Lost, Unwritable, EndChat, Talk
<1>8. CASE ServerNext \/ WorkerDies \/ UNCHANGED clientVars
  <2>1. UNCHANGED chatVars
    BY <1>1, <1>8, BreakSteps
    DEF clientVars, ServerNext, Connect, Receive, Withdraw, Refuse, Accept, Respond, StreamLine,
        StreamLost, Gather, Answer, AnswerLost, EndResponse, Disconnect, Signal, ServeReturns,
        httpVars, chatVars
  <2>2. CASE terminal = "prompt"
    <3>1. PICK k \in 0..Len(dialogue) : Len(dialogue) = 2 * k /\ Pairs(k)
      BY <2>2 DEF Talk
    <3>2. k \in Nat /\ 2 * k <= Len(dialogue)
      BY <1>1, <3>1
    <3>3. Pairs(k)'
      BY <1>1, <2>1, <3>1, <3>2, PairsStay DEF chatVars
    <3>4. QED
      BY <2>1, <2>2, <3>1, <3>3 DEF Talk, chatVars
  <2>3. CASE terminal \in {"turn", "decided"}
    <3>1. Asked'
      BY <2>1, <2>3, AskedStays DEF Talk, Asked, chatVars
    <3>2. terminal = "decided" => turn \in Jobs
      BY <1>1 DEF ChatTypes, Jobs
    <3>3. QED
      BY <1>1, <2>1, <2>3, <3>1, <3>2 DEF Talk, Asked, chatVars
  <2>4. CASE terminal = "ended"
    BY <2>1, <2>4 DEF Talk, chatVars
  <2>5. QED
    BY <1>1, <2>2, <2>3, <2>4 DEF ChatTypes
<1>9. QED
  BY <1>2, <1>3, <1>4, <1>5, <1>6, <1>7, <1>8 DEF ClientsNext, ChatNext

\* README.md:63: "Ctrl-C cancels an in-flight turn and returns to the prompt": what goes into
\* the next turn is whole turns, each with the complete answer of its own ticket.
THEOREM TurnsAreWhole == ClientsSpec => []WholeTurns
<1>1. ClientsInit => Talk
  <2> SUFFICES ASSUME ClientsInit PROVE Talk
    OBVIOUS
  <2>1. dialogue = <<>> /\ terminal = "prompt"
    BY DEF ClientsInit
  <2>2. Len(dialogue) = 2 * 0 /\ Pairs(0) /\ 0 \in 0..Len(dialogue)
    BY <2>1 DEF Pairs
  <2>3. QED
    BY <2>1, <2>2 DEF Talk
<1>2. ClientTypes /\ Talk => WholeTurns
  <2> SUFFICES ASSUME ClientTypes, Talk, terminal = "prompt"
               PROVE  /\ Len(dialogue) % 2 = 0
                      /\ \A i \in 1..Len(dialogue) :
                            dialogue[i].role = (IF i % 2 = 1 THEN "user" ELSE "assistant")
                      /\ \A i \in 1..(Len(dialogue) \div 2) :
                            /\ dialogue[2 * i].turn = dialogue[2 * i - 1].turn
                            /\ end[dialogue[2 * i - 1].turn] = "complete"
    BY DEF WholeTurns
  <2>1. PICK k \in 0..Len(dialogue) : Len(dialogue) = 2 * k /\ Pairs(k)
    BY DEF Talk
  <2>2. k \in Nat /\ (2 * k) % 2 = 0 /\ (2 * k) \div 2 = k
    <3>1. Len(dialogue) \in Nat
      BY DEF ClientTypes, ChatTypes
    <3>2. k \in Nat
      BY <3>1
    <3>3. QED
      BY <3>2
  <2>3. ASSUME NEW i \in 1..(2 * k)
        PROVE  dialogue[i].role = (IF i % 2 = 1 THEN "user" ELSE "assistant")
    <3>1. CASE i % 2 = 1
      <4>1. PICK h \in 1..k : i = 2 * h - 1
        <5>1. (i + 1) \div 2 \in 1..k /\ i = 2 * ((i + 1) \div 2) - 1
          BY <2>2, <3>1
        <5>2. QED
          BY <5>1
      <4>2. QED
        BY <2>1, <3>1, <4>1 DEF Pairs
    <3>2. CASE i % 2 # 1
      <4>1. PICK h \in 1..k : i = 2 * h
        <5>1. i \div 2 \in 1..k /\ i = 2 * (i \div 2)
          BY <2>2, <3>2
        <5>2. QED
          BY <5>1
      <4>2. QED
        BY <2>1, <3>2, <4>1 DEF Pairs
    <3>3. QED
      BY <3>1, <3>2
  <2>4. QED
    BY <2>1, <2>2, <2>3 DEF Pairs
<1>3. QED
  BY <1>1, <1>2, TalkStep, ClientTypesHold, PTL DEF ClientsSpec
=============================================================================
