------------------------------ MODULE GlmSession ------------------------------
(***************************************************************************)
(* A resident GLM-5.2 session across chat turns (src/glm52/cpu.rs), of a   *)
(* model with the indexer of sparse attention (DSA).  Beside its latent    *)
(* cache, a full layer keeps index keys and chooses from them the          *)
(* positions attended to; shared layers reuse the choice of the last full  *)
(* layer, and the session keeps the choice of every token so that it can   *)
(* be truncated and rolled back.                                           *)
(*                                                                         *)
(* A cache entry is the token it was computed for, or Garbage when the     *)
(* computation used entries or a choice of another history.  A choice is   *)
(* the context it was computed from.                                       *)
(***************************************************************************)
EXTENDS KvTurn

CONSTANTS
    TopK,       \* config.index_topk
    Kinds       \* config.indexer_kinds, "full" or "shared"

VARIABLES
    latent,     \* per layer, its latent (and rope) entries
    keys,       \* per layer, its index keys; empty in shared layers
    selection,  \* session.dsa_selection, Nothing when None
    history     \* session.dsa_history

caches == <<latent, keys, selection, history>>
vars   == <<turnVars, reuse, caches>>

Layers == DOMAIN Kinds
Full   == {l \in Layers : Kinds[l] = "full"}

Init ==
    /\ KvInit
    /\ latent = [l \in Layers |-> <<>>]
    /\ keys = [l \in Layers |-> <<>>]
    /\ selection = Nothing /\ history = <<>>
-----------------------------------------------------------------------------
(***************************************************************************)
(* One forward pass, at position Len(tokens).                              *)
(***************************************************************************)

\* Mutant of Chosen: dense attention for one position more than the shared layers expect.
ChosenLate(l, token) ==
    IF Len(tokens) <= TopK THEN Nothing
    ELSE IF keys[l] = tokens THEN Append(tokens, token) ELSE Corrupt

\* index_selection: attention is dense while every position fits.
Chosen(l, token) ==
    IF Len(tokens) < TopK THEN Nothing
    ELSE IF keys[l] = tokens THEN Append(tokens, token) ELSE Corrupt

\* dsa_selection when the layers up to l have run.
After(l, token) ==
    IF \E f \in Full : f <= l
    THEN Chosen(CHOOSE f \in Full : f <= l /\ \A g \in Full : g <= l => g <= f, token)
    ELSE selection

\* MissingDsaSelection.
Lacks(l, token) == l \notin Full /\ Len(tokens) + 1 > TopK /\ After(l, token) = Nothing

\* The layers use the entries and the choice of exactly the session's tokens.
Sound(token) ==
    \A l \in Layers :
        /\ latent[l] = tokens
        /\ After(l, token) = IF Len(tokens) < TopK THEN Nothing ELSE Append(tokens, token)

Computed(token) == IF Sound(token) THEN Append(tokens, token) ELSE Corrupt

\* The entries that a pass has pushed when it has come to the given layer.
Pushed(entries, those, upto, token) ==
    [l \in Layers |-> IF l \in those /\ l <= upto
                      THEN Append(entries[l], IF Sound(token) THEN token ELSE Garbage)
                      ELSE entries[l]]

\* Glm52CpuSession::position: the length of the first layer's latents.
InPlace == Len(latent[1]) = Len(tokens)

\* A completed pass.
Forward(token) ==
    /\ InPlace
    /\ \A l \in Layers : ~Lacks(l, token)
    /\ latent' = Pushed(latent, Layers, Len(Kinds), token)
    /\ keys' = Pushed(keys, Full, Len(Kinds), token)
    /\ selection' = After(Len(Kinds), token)
    /\ history' = Append(history, selection')
    /\ tokens' = Append(tokens, token)
-----------------------------------------------------------------------------
\* Vec::truncate: a vector that is shorter stays.
Kept(s, n) == SubSeq(s, 1, IF n < Len(s) THEN n ELSE Len(s))

Cut(entries, n) == [l \in Layers |-> Kept(entries[l], n)]

\* Mutant of Truncate: the index keys stay.
TruncateLatent(lat, ks, hist, n) ==
    /\ latent' = Cut(lat, n) /\ keys' = ks
    /\ history' = Kept(hist, n)
    /\ selection' = IF history' = <<>> THEN Nothing ELSE Last(history')
    /\ tokens' = Kept(tokens, n)

\* Glm52CpuSession::truncate, of a session with these caches.
Truncate(lat, ks, hist, n) ==
    /\ latent' = Cut(lat, n) /\ keys' = Cut(ks, n)
    /\ history' = Kept(hist, n)
    /\ selection' = IF history' = <<>> THEN Nothing ELSE Last(history')
    /\ tokens' = Kept(tokens, n)

\* A turn that fails rolls back to the reusable prefix and its logits.
Rollback(lat, ks) ==
    /\ Truncate(lat, ks, history, reusable)
    /\ logits' = stable
    /\ KvOver /\ outcome' = "failed"

\* forward_token_profiled cuts the caches of a failed pass back to its position; the choice
\* it restores is the one the rollback of the turn takes from the history again.
Undone(entries) == Cut(entries, Len(latent[1]))

\* A pass that fails or is cancelled on its way: the layers up to one have their latent,
\* and that one may lack its index key.
ForwardFails(token) ==
    /\ InPlace
    /\ \E upto \in 0..Len(Kinds), keyed \in 0..Len(Kinds) :
         /\ keyed \in {upto - 1, upto}
         /\ Rollback(Undone(Pushed(latent, Layers, upto, token)),
                     Undone(Pushed(keys, Full, keyed, token)))
-----------------------------------------------------------------------------
BeginTurn(p, n) ==
    /\ Request(p, n)
    /\ Truncate(latent, keys, history, Reuse(p))

\* One prompt token; unlike its siblings this model computes the logits of each.
Prefill ==
    /\ phase = "prefill"
    /\ LET token == prompt[Len(tokens) + 1]
           last  == Len(tokens) + 1 = Len(prompt) IN
         /\ Forward(token)
         /\ logits' = Computed(token)
         /\ current' = IF last THEN logits' ELSE Nothing
         /\ phase' = IF last THEN "decode" ELSE "prefill"
    /\ UNCHANGED <<request, reuse, made, outcome>>

PrefillFails ==
    /\ phase = "prefill"
    /\ ForwardFails(prompt[Len(tokens) + 1])

\* A generated token that is fed back for the next one.
Decode ==
    /\ phase = "decode" /\ Len(made) + 1 < limit
    /\ \E token \in Tokens :
         /\ Forward(token)
         /\ made' = Append(made, token)
         /\ logits' = Computed(token)
    /\ current' = logits'
    /\ UNCHANGED <<phase, request, reuse, outcome>>

DecodeFails ==
    /\ phase = "decode" /\ Len(made) + 1 < limit
    /\ \E token \in Tokens : ForwardFails(token)

\* The flag is seen or the selection of a token fails between two passes.
SelectFails == phase # "idle" /\ Rollback(latent, keys)

EndTurn == Finish /\ UNCHANGED caches

Next ==
    \/ \E p \in Contexts, n \in 1..MaxContext : BeginTurn(p, n)
    \/ Prefill \/ PrefillFails
    \/ Decode \/ DecodeFails \/ SelectFails
    \/ EndTurn

Spec == Init /\ [][Next]_vars
-----------------------------------------------------------------------------
\* NOTES.md: "Failed and cancelled turns roll back to the last stable prefix": between
\* turns every cache and the history of choices stand at the end of the cached tokens,
\* the current choice is the one of the last token, and cached logits belong to the tokens.
SessionCoherent ==
    phase = "idle" =>
        /\ \A l \in Layers : latent[l] = tokens /\ (l \in Full => keys[l] = tokens)
        /\ Len(history) = Len(tokens)
        /\ selection = IF tokens = <<>> THEN Nothing ELSE Last(history)
        /\ \A n \in DOMAIN history : history[n] \in {Nothing, SubSeq(tokens, 1, n)}
        /\ logits \in {Nothing, tokens}

\* A shared layer finds the choice of a full layer below it at every length of the
\* history: the two tests against index_topk agree, so no turn dies half way through.
SharedLayersServed ==
    phase # "idle" /\ 1 \in Full =>
        \A l \in Layers, token \in Tokens : ~Lacks(l, token)
=============================================================================
