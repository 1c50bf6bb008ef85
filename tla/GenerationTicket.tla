-------------------------- MODULE GenerationTicket --------------------------
(***************************************************************************)
(* What a GenerationTicket promises the client that holds it, whatever the *)
(* scheduler does behind it (src/runtime.rs, GenerationEvent and           *)
(* GenerationTicket): the pieces of one answer in order and without gaps,  *)
(* then exactly one terminal event, then the end of the stream.  Only a    *)
(* worker that died may end the stream without a terminal event.           *)
(***************************************************************************)
EXTENDS Naturals

CONSTANTS Jobs, Terminals

VARIABLES
    held,   \* the ticket: "none" (not issued), "open" or "dropped"
    pieces, \* the number of the last piece received
    end,    \* the terminal event received, or "none"
    closed, \* recv has returned None
    broken  \* the worker that owned the job died

tvars == <<held, pieces, end, closed, broken>>

Init ==
    /\ held = [j \in Jobs |-> "none"]
    /\ pieces = [j \in Jobs |-> 0]
    /\ end = [j \in Jobs |-> "none"]
    /\ closed = [j \in Jobs |-> FALSE]
    /\ broken = [j \in Jobs |-> FALSE]

Issue(j) ==
    /\ held[j] = "none"
    /\ held' = [held EXCEPT ![j] = "open"]
    /\ UNCHANGED <<pieces, end, closed, broken>>

Piece(j) ==
    /\ held[j] = "open" /\ end[j] = "none" /\ ~closed[j]
    /\ pieces' = [pieces EXCEPT ![j] = @ + 1]
    /\ UNCHANGED <<held, end, closed, broken>>

Finish(j) ==
    /\ held[j] = "open" /\ end[j] = "none" /\ ~closed[j]
    /\ \E kind \in Terminals : end' = [end EXCEPT ![j] = kind]
    /\ UNCHANGED <<held, pieces, closed, broken>>

Close(j) ==
    /\ held[j] = "open" /\ ~closed[j]
    /\ end[j] # "none" \/ broken[j]
    /\ closed' = [closed EXCEPT ![j] = TRUE]
    /\ UNCHANGED <<held, pieces, end, broken>>

Abandon(j) ==
    /\ held[j] = "open"
    /\ held' = [held EXCEPT ![j] = "dropped"]
    /\ UNCHANGED <<pieces, end, closed, broken>>

\* One worker serves several tickets, so several break together.
Break ==
    /\ \E dead \in SUBSET Jobs :
         broken' = [j \in Jobs |-> broken[j] \/ j \in dead]
    /\ UNCHANGED <<held, pieces, end, closed>>

Next ==
    \/ \E j \in Jobs : Issue(j) \/ Piece(j) \/ Finish(j) \/ Close(j) \/ Abandon(j)
    \/ Break

Spec == Init /\ [][Next]_tvars
=============================================================================
