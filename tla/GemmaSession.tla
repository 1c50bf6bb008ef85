---------------------------- MODULE GemmaSession ----------------------------
(***************************************************************************)
(* A resident Gemma session across chat turns: the turns of src/gemma4/    *)
(* cpu.rs and src/gemma4/metal.rs over the KV cache of src/metal.rs, whose *)
(* sliding layers are ring buffers.  The CPU cache is the instance whose   *)
(* every Capacity is MaxContext: a Vec that is appended to and truncated   *)
(* is a ring that never wraps.                                             *)
(*                                                                         *)
(* A key/value entry is the context it was computed from, or Corrupt when  *)
(* attention read an entry that belongs to another history.                *)
(***************************************************************************)
EXTENDS KvTurn

CONSTANT Capacity   \* ring capacity of each layer, in layer order

VARIABLES
    ring,       \* per layer, the entry in each ring slot
    pos         \* MetalKvLayer.position per layer

cacheVars == <<ring, pos>>
vars == <<turnVars, reuse, cacheVars>>

Layers == DOMAIN Capacity

Init ==
    /\ KvInit
    /\ ring = [l \in Layers |-> [s \in 0..(Capacity[l] - 1) |-> Nothing]]
    /\ pos = [l \in Layers |-> 0]
-----------------------------------------------------------------------------
(***************************************************************************)
(* The KV cache: append_kv writes slot position % capacity, truncate only  *)
(* lowers the position, attention_cached reads the last min(position,      *)
(* capacity) positions.                                                    *)
(***************************************************************************)
Slot(l, p) == p % Capacity[l]

\* Mutant of Truncated: only the first layer is cut back.
TruncatedFirst(at, n) == [l \in Layers |-> IF l = 1 /\ n < at[l] THEN n ELSE at[l]]

Truncated(at, n) == [l \in Layers |-> IF n < at[l] THEN n ELSE at[l]]

Appended(entry, upto) ==
    [l \in Layers |-> IF l <= upto THEN [ring[l] EXCEPT ![Slot(l, pos[l])] = entry] ELSE ring[l]]

\* The positions before p that attention at p reads in layer l.
Window(l, p) == (IF p + 1 < Capacity[l] THEN 0 ELSE p + 1 - Capacity[l])..(p - 1)

Intact(l, p) == \A q \in Window(l, p) : ring[l][Slot(l, q)] = SubSeq(tokens, 1, q + 1)

\* What the forward pass of a token computes at the end of the session's tokens.
Computed(token) ==
    IF \A l \in Layers : Intact(l, Len(tokens)) THEN Append(tokens, token) ELSE Corrupt

\* KvCache::position: all layers agree, and agree with the position of the call.
InPlace == \A l \in Layers : pos[l] = Len(tokens)

\* A completed forward pass: every layer got its entry.
Forward(token) ==
    /\ InPlace
    /\ ring' = Appended(Computed(token), Len(Capacity))
    /\ pos' = [l \in Layers |-> pos[l] + 1]
    /\ tokens' = Append(tokens, token)

\* The error path of a turn: the rollback to the reusable prefix.
Rollback ==
    /\ pos' = Truncated(pos, reusable)
    /\ tokens' = SubSeq(tokens, 1, reusable)
    /\ logits' = stable
    /\ KvOver /\ outcome' = "failed"

\* A forward pass that fails or is cancelled between two layers: the layers below have
\* their entry, forward_token truncates to the position and the turn rolls back.
ForwardFails(token) ==
    /\ \E upto \in 0..Len(Capacity) : ring' = Appended(Computed(token), upto)
    /\ Rollback
-----------------------------------------------------------------------------
BeginTurn(p, n) ==
    /\ Request(p, n)
    /\ pos' = Truncated(pos, Reuse(p))
    /\ tokens' = SubSeq(tokens, 1, Reuse(p))
    /\ UNCHANGED ring

\* One prompt token; logits are asked for only at the last one.
Prefill ==
    /\ phase = "prefill"
    /\ Forward(prompt[Len(tokens) + 1])
    /\ LET last == Len(tokens) + 1 = Len(prompt) IN
         /\ logits' = IF last THEN Computed(prompt[Len(prompt)]) ELSE Nothing
         /\ phase' = IF last THEN "decode" ELSE "prefill"
    /\ current' = logits'
    /\ UNCHANGED <<request, reuse, made, outcome>>

PrefillFails ==
    /\ phase = "prefill"
    /\ ForwardFails(prompt[Len(tokens) + 1])

\* A generated token that is fed back for the next one.
Decode ==
    /\ phase = "decode" /\ Len(made) + 1 < limit
    /\ \E token \in Tokens :
         /\ Forward(token)
         /\ made' = Append(made, token)
         /\ logits' = Computed(token)
    /\ current' = logits'
    /\ UNCHANGED <<phase, request, reuse, outcome>>

DecodeFails ==
    /\ phase = "decode" /\ Len(made) + 1 < limit
    /\ \E token \in Tokens : ForwardFails(token)

\* The check of the flag or the selection fails before anything is computed.
SelectFails ==
    /\ phase = "decode"
    /\ Rollback
    /\ UNCHANGED ring

EndTurn == Finish /\ UNCHANGED cacheVars

Next ==
    \/ \E p \in Contexts, n \in 1..MaxContext : BeginTurn(p, n)
    \/ Prefill \/ PrefillFails
    \/ Decode \/ DecodeFails \/ SelectFails
    \/ EndTurn

Spec == Init /\ [][Next]_vars
-----------------------------------------------------------------------------
\* NOTES.md: "Failed and cancelled turns roll back to the last stable prefix": between
\* turns all layers stand at the end of the cached tokens, and cached logits belong to
\* exactly those tokens.
SessionCoherent ==
    phase = "idle" => /\ \A l \in Layers : pos[l] = Len(tokens)
                      /\ logits \in {Nothing, tokens}
=============================================================================
