---------------------------- MODULE ModelLoading ----------------------------
(***************************************************************************)
(* A model is opened and computes a token: the order of the checks of the  *)
(* three families (src/gemma4/cpu.rs, src/qwen35/cpu.rs and                *)
(* src/glm52/cpu.rs, open and build) and, for a model they accept, the     *)
(* steps of its forward pass.  A separate part writes an integer matrix    *)
(* and finds its layout again, as the pass does (src/glm52/quant.rs).      *)
(***************************************************************************)
EXTENDS GgufBinding, GlmBinding

CONSTANTS
    Candidates,   \* the model files: [family, config, tensors, vocabulary, pairs, tokenizer,
                  \*                   context, slots]
    Matrices      \* integer matrices as written: [rows, columns, layout]

\* Numbers in a file are not negative.  The pairs that turn are the ones at the beginning of
\* rope_freqs.
ASSUME ModelLoadingAssumption ==
    /\ \A c \in Candidates :
         /\ c.family = "gemma4" =>
              /\ c.pairs \in Nat
              /\ <<0, "rope_freqs">> \in DOMAIN c.tensors =>
                   c.pairs <= c.tensors[<<0, "rope_freqs">>].shape[1]
         /\ c.family = "qwen35" => \A key \in DOMAIN c.config : c.config[key] \in Nat
    /\ \A m \in Matrices :
         m.rows \in Nat \ {0} /\ m.columns \in Nat \ {0} /\ m.layout \in {0} \union GroupSizes

VARIABLES
    candidate,    \* the model or the matrix
    progress,        \* "closed", "refused", "opened", "ran", "failed"; "written", "read"
    layer,        \* the layer the pass is at; 0 before the embedding
    inferred      \* the layouts found for the matrix

loadVars == <<candidate, progress, layer, inferred>>

LoadInit ==
    /\ layer = 0
    /\ inferred = {}
    /\ \/ candidate \in Candidates /\ progress = "closed"
       \/ candidate \in Matrices /\ progress = "written"

\* Gemma4CpuModel::open: the rotary factors are decoded before the tokenizer is built.
GemmaOpens(c) ==
    /\ GemmaConfigured(c.config)
    /\ GemmaBound(c.config, c.tensors, c.vocabulary)
    /\ ~StepFails(c.tensors, Need(0, "rope_freqs", <<c.config.rope_dimensions \div 2>>))
    /\ c.pairs > 0
    /\ c.tokenizer
    /\ c.context > 0

\* Qwen35CpuModel::from_source.
QwenOpens(c) ==
    /\ QwenConfigured(c.config)
    /\ QwenBound(c.config, c.tensors, c.vocabulary)
    /\ c.tokenizer
    /\ c.context > 0

\* Glm52CpuModel::build; `slots` is DISKMULE_GLM_EXPERT_SLOTS.
GlmOpens(c) ==
    /\ GlmConfigured(c.config)
    /\ c.context > 0
    /\ c.tokenizer /\ c.vocabulary <= c.config.vocab_size
    /\ GlmBound(c.config, c.tensors)
    /\ c.slots \in 1..256

Opens(c) ==
    \/ c.family = "gemma4" /\ GemmaOpens(c)
    \/ c.family = "qwen35" /\ QwenOpens(c)
    \/ c.family = "glm_moe_dsa" /\ GlmOpens(c)

Open ==
    /\ progress = "closed"
    /\ progress' = IF Opens(candidate) THEN "opened" ELSE "refused"
    /\ UNCHANGED <<candidate, layer, inferred>>

EdgesFail(c) ==
    \/ c.family = "gemma4" /\ GemmaEdgesFail(c.config, c.tensors, c.vocabulary)
    \/ c.family = "qwen35" /\ QwenEdgesFail(c.config, c.tensors, c.vocabulary)
    \/ c.family = "glm_moe_dsa" /\ GlmEdgesFail(c.config, c.tensors)

LayerFails(c, l) ==
    \/ c.family = "gemma4" /\ GemmaLayerFails(c.config, c.tensors, l, c.pairs)
    \/ c.family = "qwen35" /\ QwenLayerFails(c.config, c.tensors, l)
    \/ c.family = "glm_moe_dsa" /\ GlmLayerFails(c.config, c.tensors, l)

LayersOf(c) ==
    CASE c.family = "gemma4"      -> c.config.layer_count
      [] c.family = "qwen35"      -> LayerCount(c.config)
      [] c.family = "glm_moe_dsa" -> c.config.num_hidden_layers

\* The next step of the pass fails; the logits are judged with the embedding.
Stuck == IF layer = 0 THEN EdgesFail(candidate) ELSE LayerFails(candidate, layer)

\* forward_token, layer by layer.
ForwardFails ==
    /\ progress = "opened"
    /\ Stuck
    /\ progress' = "failed"
    /\ UNCHANGED <<candidate, layer, inferred>>

ForwardLayer ==
    /\ progress = "opened"
    /\ ~Stuck
    /\ IF layer = LayersOf(candidate)
       THEN progress' = "ran" /\ UNCHANGED layer
       ELSE layer' = layer + 1 /\ UNCHANGED progress
    /\ UNCHANGED <<candidate, inferred>>

BytesWritten(m)  == m.rows * RowBytes(m.layout, m.columns)
ScalesWritten(m) == m.rows * ScalesPerRow(m.layout, m.columns)

\* infer_quantization: the product knows the columns only.
InferLayout ==
    /\ progress = "written"
    /\ progress' = "read"
    /\ inferred' = Inferred(candidate.columns, BytesWritten(candidate), ScalesWritten(candidate))
    /\ UNCHANGED <<candidate, layer>>

LoadNext == Open \/ ForwardFails \/ ForwardLayer \/ InferLayout

LoadSpec == LoadInit /\ [][LoadNext]_loadVars
-----------------------------------------------------------------------------
\* Loading promises nothing about these: tensor types of Gemma, heads of Qwen of which no
\* dimension turns, sizes of Qwen whose products overflow, layers of GLM-5.2 that share a
\* selection nobody made, and quantised matrices of one column, whose bytes and half bytes
\* look the same.
Unpromised(c) ==
    \/ /\ c.family = "gemma4"
       /\ \E name \in DOMAIN c.tensors : c.tensors[name].kind \notin RunnableKinds
    \/ /\ c.family = "qwen35"
       /\ c.config.rope_dimensions = 0 \/ ~QwenFits(c.config)
    \/ /\ c.family = "glm_moe_dsa"
       /\ \/ DsaEnabled(c.config, c.tensors) /\ IndexerKinds(c.config)[1] = "shared"
          \/ \E need \in GlmContract(c.config, c.tensors) :
                need.packed /\ need.shape[2] = 1 /\ c.tensors[need.name].dtype = "U8"

\* What the checks of the configuration and of the tensors accept, the forward pass computes:
\* none of its products, divisions into heads and slices meets a length the checks let through,
\* except those of Unpromised (src/architecture.rs: a backend supplies a validated contract).
OpenedModelsRun == progress = "failed" => Unpromised(candidate)

\* README.md:197: a file with "an unimplemented architecture or tensor type is reported as
\* unsupported rather than being presented as runnable": an opened Gemma model runs.
OpenedGemmaRuns == progress = "failed" => candidate.family # "gemma4"

\* The bytes and scales of an integer matrix of more than one column tell its rows and whether
\* it holds bytes or half bytes; they tell the size of the groups too when every size divides
\* the columns.  The validation, which knows the rows, finds the same layout.
LayoutRecovered ==
    (progress = "read" /\ candidate.columns > 1) =>
        \E found \in inferred :
            /\ inferred = {found}
            /\ found.rows = candidate.rows
            /\ (found.layout = 0) = (candidate.layout = 0)
            /\ candidate.columns % 768 = 0 => found.layout = candidate.layout
            /\ found.layout = Resolved(candidate.rows, candidate.columns,
                                       BytesWritten(candidate), ScalesWritten(candidate))
=============================================================================
