----------------------------- MODULE QwenSession -----------------------------
(***************************************************************************)
(* A resident Qwen 3.5 session across chat turns (src/qwen35/cpu.rs).      *)
(* Three layers out of four are recurrent: a state of fixed size that      *)
(* absorbs one token after the other and cannot be cut back; the others    *)
(* append keys and values.  A session whose tokens are not a prefix of the *)
(* new prompt, or whose turn failed, is cleared as a whole.                *)
(*                                                                         *)
(* The state of a layer (convolution window and delta matrices, or keys    *)
(* and values) is represented by the tokens it has absorbed.               *)
(***************************************************************************)
EXTENDS SessionTurn

CONSTANT Recurrent  \* for each layer, whether it is recurrent, in layer order

VARIABLES
    absorbed,   \* per layer, the tokens its state has absorbed
    position    \* Qwen35State.position

stateVars == <<absorbed, position, tokens, logits>>
vars == <<turnVars, absorbed, position>>

Layers == DOMAIN Recurrent

Init ==
    /\ TurnInit
    /\ absorbed = [l \in Layers |-> <<>>]
    /\ position = 0
-----------------------------------------------------------------------------
\* Mutant of Clear: the recurrent layers keep their state.
ClearAttention ==
    /\ absorbed' = [l \in Layers |-> IF Recurrent[l] THEN absorbed[l] ELSE <<>>]
    /\ position' = 0
    /\ tokens' = <<>>
    /\ logits' = Nothing

\* Qwen35CpuSession::clear.
Clear ==
    /\ absorbed' = [l \in Layers |-> <<>>]
    /\ position' = 0
    /\ tokens' = <<>>
    /\ logits' = Nothing

\* The layers up to this one have absorbed the token.
Through(token, upto) ==
    [l \in Layers |-> IF l <= upto THEN Append(absorbed[l], token) ELSE absorbed[l]]

\* What the layers compute for a token that follows the session's tokens.
Computed(token) ==
    IF \A l \in Layers : absorbed[l] = tokens THEN Append(tokens, token) ELSE Corrupt

\* A forward pass reaches its end only in the right position; a full-attention layer
\* also checks how many keys it holds, a recurrent one cannot.
InPlace ==
    /\ position = Len(tokens)
    /\ \A l \in Layers : Recurrent[l] \/ Len(absorbed[l]) = Len(tokens)

Forward(token) ==
    /\ InPlace
    /\ absorbed' = Through(token, Len(Recurrent))
    /\ position' = position + 1
    /\ tokens' = Append(tokens, token)

\* Mutant of Fails: only the bookkeeping is rolled back, as in a cache that can be cut.
FailsInPlace ==
    /\ \E token \in Tokens, upto \in 0..Len(Recurrent) :
         absorbed' = Through(token, upto)
    /\ UNCHANGED <<position, tokens, logits>>
    /\ NoTurn /\ outcome' = "failed"

\* A read fails or the flag is seen, before, within or after a forward pass: whatever
\* the layers hold by then, the session is cleared.
Fails ==
    /\ Clear
    /\ NoTurn /\ outcome' = "failed"
-----------------------------------------------------------------------------
\* common_prefix_length(tokens, prompt) = tokens.len().
Extends(p) == IsPrefix(tokens, p)

\* Mutant of Prepare: a diverging session is cut back to the common prefix.
PrepareByCut(p) ==
    LET common == Len(LongestCommonPrefix({tokens, p})) IN
    /\ absorbed' = [l \in Layers |-> SubSeq(absorbed[l], 1, common)]
    /\ position' = common
    /\ tokens' = SubSeq(tokens, 1, common)
    /\ logits' = IF common = Len(tokens) THEN logits ELSE Nothing

\* A diverging prompt is rebuilt from token zero.
Prepare(p) == IF Extends(p) THEN UNCHANGED stateVars ELSE Clear

\* The whole prompt is cached but its logits are not: the turn fails and clears.
Missing(p) == tokens = p /\ logits = Nothing

BeginTurn(p, n) ==
    /\ phase = "idle" /\ Admissible(p, n)
    /\ IF Missing(p)
       THEN /\ Clear
            /\ NoTurn /\ outcome' = "missing_logits"
       ELSE /\ Prepare(p)
            /\ phase' = IF tokens' = p THEN "decode" ELSE "prefill"
            /\ current' = IF tokens' = p THEN logits' ELSE Nothing
            /\ prompt' = p /\ limit' = n /\ made' = <<>> /\ outcome' = "none"

\* One prompt token; logits are asked for only at the last one.
Prefill ==
    /\ phase = "prefill"
    /\ Forward(prompt[Len(tokens) + 1])
    /\ LET last == Len(tokens) + 1 = Len(prompt) IN
         /\ logits' = IF last THEN Computed(prompt[Len(prompt)]) ELSE Nothing
         /\ current' = logits'
         /\ phase' = IF last THEN "decode" ELSE "prefill"
    /\ UNCHANGED <<request, made, outcome>>

\* A generated token that is fed back for the next one.
Decode ==
    /\ phase = "decode" /\ Len(made) + 1 < limit
    /\ \E token \in Tokens :
         /\ Forward(token)
         /\ made' = Append(made, token)
         /\ logits' = Computed(token)
    /\ current' = logits'
    /\ UNCHANGED <<phase, request, outcome>>

TurnFails == phase # "idle" /\ Fails

\* A stop token, or the last token of the budget, which is not fed back.
EndTurn ==
    /\ phase = "decode"
    /\ NoTurn /\ outcome' = "complete"
    /\ UNCHANGED stateVars

Next ==
    \/ \E p \in Contexts, n \in 1..MaxContext : BeginTurn(p, n)
    \/ Prefill \/ Decode \/ TurnFails \/ EndTurn

Spec == Init /\ [][Next]_vars
-----------------------------------------------------------------------------
\* The types of the state.
StateTypeOK == absorbed \in [Layers -> Contexts] /\ position \in 0..MaxContext

\* Between turns every layer has absorbed exactly the session's tokens, and a session
\* that holds tokens holds their logits too; so a prompt that is cached as a whole can
\* always be answered, unlike in a cache that is cut back to a prefix.
SessionCoherent ==
    phase = "idle" =>
        /\ position = Len(tokens)
        /\ \A l \in Layers : absorbed[l] = tokens
        /\ logits = tokens
=============================================================================
