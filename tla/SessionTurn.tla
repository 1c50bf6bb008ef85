----------------------------- MODULE SessionTurn -----------------------------
(***************************************************************************)
(* A chat turn on a resident session, as far as the three model families   *)
(* have it in common (generate_session_with_selector in src/gemma4/cpu.rs, *)
(* src/gemma4/metal.rs, src/glm52/cpu.rs and src/qwen35/cpu.rs).  KvTurn   *)
(* adds the reuse of a prefix, and GemmaSession, GlmSession and            *)
(* QwenSession what their layers keep.                                     *)
(*                                                                         *)
(* A logits vector is determined by the tokens it was computed from, so it *)
(* is represented by that context: the sequence of tokens, or Corrupt when *)
(* something of another history went into it.                              *)
(***************************************************************************)
EXTENDS Integers, Sequences, SequencesExt

CONSTANTS
    Tokens,     \* token ids
    Garbage,    \* marks values computed on the state of another history
    MaxContext  \* the model's max_context

ASSUME TurnAssumption ==
    /\ Garbage \notin Tokens
    /\ MaxContext \in Nat \ {0}

VARIABLES
    tokens,     \* session.tokens
    logits,     \* session.logits, Nothing when None
    phase,      \* "idle", or where the turn stands: "prefill" or "decode"
    prompt,     \* the turn's rendered prompt
    limit,      \* the turn's maximum_new_tokens
    current,    \* the local logits the next token is selected on
    made,       \* tokens generated in this turn
    outcome     \* how the last turn ended

request  == <<prompt, limit>>
turnVars == <<tokens, logits, phase, request, current, made, outcome>>

Nothing  == <<>>
Corrupt  == <<Garbage>>
Contexts == UNION {[1..n -> Tokens] : n \in 0..MaxContext}
Values   == Contexts \cup {Corrupt}

TurnInit ==
    /\ tokens = <<>> /\ logits = Nothing
    /\ phase = "idle"
    /\ prompt = <<>> /\ limit = 0
    /\ current = Nothing /\ made = <<>>
    /\ outcome = "none"

\* The locals of a turn when none is running.
NoTurn ==
    /\ phase' = "idle"
    /\ prompt' = <<>> /\ limit' = 0 /\ current' = Nothing /\ made' = <<>>

\* The checks of a request before the session is touched.
Admissible(p, n) == p # <<>> /\ Len(p) + n <= MaxContext
-----------------------------------------------------------------------------
\* The types of the variables of a turn.
TurnTypeOK ==
    /\ tokens \in Contexts
    /\ logits \in Values /\ current \in Values
    /\ phase \in {"idle", "prefill", "decode"}
    /\ prompt \in Contexts /\ made \in Contexts
    /\ limit \in 0..MaxContext
    /\ outcome \in {"none", "complete", "failed", "missing_logits"}

\* README: "an evicted session is reconstructed without changing semantics": every token
\* is selected on the logits of exactly the prompt and the tokens generated so far, as a
\* session built from nothing would, whatever turns, truncations, failures and
\* cancellations this session went through before.
SelectsOnHistory == phase = "decode" => current = prompt \o made

\* README: "an evicted session is reconstructed without changing semantics": a turn that
\* a fresh session would serve is not refused because of what the session still holds.
NeverMissingLogits == outcome # "missing_logits"
=============================================================================
