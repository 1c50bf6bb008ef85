------------------------------- MODULE KvTurn -------------------------------
(***************************************************************************)
(* A turn on a session that can be cut back: src/gemma4/cpu.rs,            *)
(* src/gemma4/metal.rs and src/glm52/cpu.rs keep the longest common prefix *)
(* of the cached tokens and the new prompt, and return to it when the turn *)
(* fails.                                                                  *)
(***************************************************************************)
EXTENDS SessionTurn

VARIABLES
    reusable,   \* the common prefix the turn started from
    stable      \* stable_logits

reuse == <<reusable, stable>>

KvInit == TurnInit /\ reusable = 0 /\ stable = Nothing

\* No turn is running, and its locals are gone.
KvOver == NoTurn /\ reusable' = 0 /\ stable' = Nothing

\* Mutant of Reuse: the prefix is taken from the lengths, not from the tokens.
ReuseByLength(p) == IF Len(tokens) < Len(p) THEN Len(tokens) ELSE Len(p)

\* common_prefix_length.
Reuse(p) == Len(LongestCommonPrefix({tokens, p}))

\* The cached logits, when nothing is cut off the session.
Stable(p) == IF Reuse(p) = Len(tokens) THEN logits ELSE Nothing

\* The whole prompt is cached but its logits are not.
Missing(p) == Reuse(p) = Len(p) /\ Stable(p) = Nothing

\* The locals of the turn that starts.
StartTurn(p, n) ==
    /\ prompt' = p /\ limit' = n
    /\ reusable' = Reuse(p) /\ stable' = Stable(p)
    /\ current' = (IF Reuse(p) = Len(p) THEN Stable(p) ELSE Nothing)
    /\ phase' = (IF Reuse(p) = Len(p) THEN "decode" ELSE "prefill")
    /\ made' = <<>> /\ outcome' = "none"

\* A request for the prompt p and at most n new tokens, up to the first forward pass.
Request(p, n) ==
    /\ phase = "idle" /\ Admissible(p, n)
    /\ logits' = Stable(p)
    /\ \/ Missing(p) /\ KvOver /\ outcome' = "missing_logits"
       \/ ~Missing(p) /\ StartTurn(p, n)

\* A stop token, or the last token of the budget, which is not fed back.
Finish ==
    /\ phase = "decode"
    /\ KvOver /\ outcome' = "complete"
    /\ UNCHANGED <<tokens, logits>>
-----------------------------------------------------------------------------
=============================================================================
