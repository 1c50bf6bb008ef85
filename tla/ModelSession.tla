---------------------------- MODULE ModelSession ----------------------------
(***************************************************************************)
(* A resident session behind the boundary of src/architecture.rs: the      *)
(* scheduler holds a session of whichever family the model was loaded as,  *)
(* and every turn goes to that family's code.                              *)
(***************************************************************************)
EXTENDS KvTurn

CONSTANTS
    Capacity,   \* of a Gemma session: the ring capacity of each layer
    TopK,       \* of a GLM session: config.index_topk
    Kinds,      \* and config.indexer_kinds, "full" or "shared"
    Recurrent   \* of a Qwen session: for each layer, whether it is recurrent

ASSUME GemmaAssumption ==
    /\ Capacity \in Seq(1..MaxContext)
    /\ Capacity # <<>>

ASSUME GlmAssumption ==
    /\ TopK \in Nat \ {0}
    /\ Kinds \in Seq({"full", "shared"})
    /\ Kinds # <<>>

ASSUME QwenAssumption ==
    /\ Recurrent \in Seq(BOOLEAN)
    /\ Recurrent # <<>>

VARIABLES
    architecture,                       \* the family of the model
    ring, pos,                          \* the cache of a Gemma session
    latent, keys, selection, history,   \* the caches of a GLM session
    absorbed, position                  \* the state of a Qwen session

Gemma == INSTANCE GemmaSession
Glm   == INSTANCE GlmSession
Qwen  == INSTANCE QwenSession

gemmaVars == <<ring, pos>>
glmVars   == <<latent, keys, selection, history>>
qwenVars  == <<absorbed, position>>
vars == <<architecture, turnVars, reuse, gemmaVars, glmVars, qwenVars>>

\* load: the architecture of the model file decides.
Init ==
    /\ architecture \in {"gemma4", "glm_moe_dsa", "qwen35"}
    /\ Gemma!Init /\ Glm!Init /\ Qwen!Init

\* generate_session of the family.
GemmaTurn ==
    /\ architecture = "gemma4"
    /\ Gemma!Next
    /\ UNCHANGED <<architecture, glmVars, qwenVars>>

GlmTurn ==
    /\ architecture = "glm_moe_dsa"
    /\ Glm!Next
    /\ UNCHANGED <<architecture, gemmaVars, qwenVars>>

QwenTurn ==
    /\ architecture = "qwen35"
    /\ Qwen!Next
    /\ UNCHANGED <<architecture, reuse, gemmaVars, glmVars>>

Next == GemmaTurn \/ GlmTurn \/ QwenTurn

Spec == Init /\ [][Next]_vars
-----------------------------------------------------------------------------
\* NOTES.md: "Failed and cancelled turns roll back to the last stable prefix": between
\* turns the layers of the session, whichever it is, hold exactly the cached tokens.
SessionCoherent ==
    /\ architecture = "gemma4" => Gemma!SessionCoherent
    /\ architecture = "glm_moe_dsa" => Glm!SessionCoherent
    /\ architecture = "qwen35" => Qwen!SessionCoherent

\* README: "an evicted session is reconstructed without changing semantics": no turn dies of
\* what the session holds.  A Qwen turn is never refused for logits that a longer history has
\* overwritten; a shared layer of GLM-5.2 finds the choice of a full layer below it at every
\* length of the history, since the two tests against index_topk agree.
HeldTurnsServed ==
    /\ architecture = "qwen35" => NeverMissingLogits
    /\ architecture = "glm_moe_dsa" => Glm!SharedLayersServed
=============================================================================
