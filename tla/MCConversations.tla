-------------------------- MODULE MCConversations ---------------------------
(***************************************************************************)
(* A conversation from its two ends, made small for TLC: the clients that  *)
(* hold tickets, the sessions a worker keeps resident, and one session     *)
(* turn by turn.  Each sees the others only through the scheduler          *)
(* (RuntimeService), so a behaviour is one of one part.                    *)
(***************************************************************************)
EXTENDS ModelSession, SessionPool, Clients

VARIABLE part  \* the part

conversationVars == <<part, vars, poolVars, clientVars>>

NoSession == architecture = "none" /\ Gemma!Init /\ Glm!Init /\ Qwen!Init

ConversationsInit ==
    \/ part = "session" /\ Init /\ PoolInit /\ ClientsInit /\ command = "run"
    \/ part = "pool" /\ PoolInit /\ NoSession /\ ClientsInit /\ command = "run"
    \/ part = "clients" /\ ClientsInit /\ NoSession /\ PoolInit

ConversationsNext ==
    \/ part = "session" /\ Next /\ UNCHANGED <<part, poolVars, clientVars>>
    \/ part = "pool" /\ PoolNext /\ UNCHANGED <<part, vars, clientVars>>
    \/ part = "clients" /\ ClientsNext /\ UNCHANGED <<part, vars, poolVars>>

\* A ticket that is read ends (TicketEnds of the scheduler) and every client of the server
\* sends the rest of its request or leaves, and reads the answer or leaves; the server goes on
\* while it can.
ConversationsFairness ==
    /\ \A r \in Requests :
          /\ WF_conversationVars(part = "clients" /\ command = "serve" /\ Receive(r)
                                 /\ UNCHANGED <<part, command, vars, poolVars>>)
          /\ WF_conversationVars(part = "clients" /\ command = "serve" /\ Respond(r)
                                 /\ UNCHANGED <<part, command, vars, poolVars>>)
    /\ WF_conversationVars(part = "clients" /\ command = "serve" /\ ServeReturns
                           /\ UNCHANGED <<part, command, vars, poolVars>>)

ConversationsSpec ==
    ConversationsInit /\ [][ConversationsNext]_conversationVars /\ ConversationsFairness
-----------------------------------------------------------------------------
CONSTANTS a, b, s1, s2, s3, s4

TwoTokens == {a, b}

FourSessions == {s1, s2, s3, s4}

\* A CPU cache, or a Metal cache whose window covers the context.
Unwrapped == <<4, 4>>

\* The schedule of the released model, shortened: full layers with shared ones between.
FullSharedFull == <<"full", "shared", "full">>

\* The pattern of the family, shortened: full attention closes a group of layers.
ThreeLayers == <<TRUE, TRUE, FALSE>>
=============================================================================
