----------------------------- MODULE GlmBinding -----------------------------
(***************************************************************************)
(* Loading a GLM-5.2 model (src/glm52.rs, src/glm52/cpu.rs): the checks of *)
(* its configuration and of its tensors, and what the forward pass demands *)
(* of them.  A configuration maps the keys of config.json present to their *)
(* values.  A tensor is [shape, dtype], its name the layer, 0 for those of *)
(* the whole model, and the rest; layers are counted from one.  The        *)
(* tensors of the experts have a third part, the scales of a matrix "qs"   *)
(* or "scale_inv".                                                         *)
(***************************************************************************)
EXTENDS Integers, Sequences, FiniteSets

CONSTANTS
    Limits,    \* key -> [least, most], the calls of bounded
    Fp8Block   \* 128

\* The sizes that are bounded, from one or from two.
ASSUME GlmBindingAssumption ==
    /\ {"vocab_size", "hidden_size", "num_hidden_layers", "num_attention_heads",
         "n_routed_experts", "num_experts_per_tok", "moe_intermediate_size",
         "intermediate_size", "q_lora_rank", "kv_lora_rank", "qk_nope_head_dim",
         "qk_rope_head_dim", "v_head_dim", "n_shared_experts", "index_topk",
         "index_n_heads", "index_head_dim"} \subseteq DOMAIN Limits
    /\ \A key \in DOMAIN Limits : Limits[key][1] \in Nat \ {0} /\ Limits[key][2] \in Nat

-----------------------------------------------------------------------------
(* Integer matrices (src/glm52/quant.rs).  The file holds bytes and scales *)
(* without a shape; the layout is found from their numbers.  A layout is   *)
(* 0, one scale per row of bytes, or the size of the groups of a row of    *)
(* half bytes.                                                             *)

GroupSizes == {16, 32, 48, 64, 96, 128, 192, 256}

CeilDiv(a, b) == (a + b - 1) \div b

\* GlmQuantization::row_bytes and scales_per_row.
RowBytes(layout, columns) == IF layout = 0 THEN columns ELSE CeilDiv(columns, 2)
ScalesPerRow(layout, columns) == IF layout = 0 THEN 1 ELSE CeilDiv(columns, layout)

\* Mutant of Fits: the bytes of a row are not rounded up.
FitsEvenRows(layout, rows, columns, bytes, scales) ==
    /\ bytes = rows * (IF layout = 0 THEN columns ELSE columns \div 2)
    /\ scales = rows * ScalesPerRow(layout, columns)

Fits(layout, rows, columns, bytes, scales) ==
    /\ bytes = rows * RowBytes(layout, columns)
    /\ scales = rows * ScalesPerRow(layout, columns)

\* matching_quantizations: of the group sizes only the smallest that fits.
Matching(rows, columns, bytes, scales) ==
    LET groups == {g \in GroupSizes : Fits(g, rows, columns, bytes, scales)} IN
    {layout \in {0} : Fits(layout, rows, columns, bytes, scales)}
        \union {g \in groups : \A other \in groups : g <= other}

\* resolve_quantization, where there is a match: bytes before half bytes.
Resolved(rows, columns, bytes, scales) ==
    LET matches == Matching(rows, columns, bytes, scales) IN
    CHOOSE layout \in matches : \A other \in matches : layout <= other

\* infer_quantization: the rows are not known either.
Inferred(columns, bytes, scales) ==
    UNION {{[rows |-> bytes \div width, layout |-> layout] :
               layout \in Matching(bytes \div width, columns, bytes, scales)} :
           width \in {w \in {columns, CeilDiv(columns, 2)} : bytes % w = 0}}

-----------------------------------------------------------------------------
(* The configuration.                                                     *)

GlmKeys ==
    DOMAIN Limits \union {"n_group", "topk_group", "first_k_dense_replace", "norm_topk_prob"}

\* A key with a default, the value of serde's default otherwise.
Or(config, key, default) == IF key \in DOMAIN config THEN config[key] ELSE default

\* Without rope_parameters the derived default of RawRope, zero, is the frequency base.
RopeTheta(config) ==
    IF "rope_parameters" \in DOMAIN config THEN config.rope_parameters ELSE 0

\* The indexer of each layer: as listed, or every index_topk_freq-th from an offset.
IndexerKinds(config) ==
    LET listed == Or(config, "indexer_types", <<>>)
        skipped(layer) == LET offset == Or(config, "index_skip_topk_offset", 2) - 1
                          IN  IF offset > 0 THEN layer - 1 - offset ELSE layer - 1
        frequency == Or(config, "index_topk_freq", 1)
    IN  IF listed # <<>> THEN listed
        ELSE [layer \in 1..config.num_hidden_layers |->
                 IF \/ skipped(layer) <= 0
                    \/ skipped(layer) % (IF frequency = 0 THEN 1 ELSE frequency) = 0
                 THEN "full" ELSE "shared"]

\* Mutant of RotaryFits: the indexer heads are not compared.
RotaryFitsHead(config) ==
    config.qk_rope_head_dim % 2 = 0 /\ config.index_head_dim % 2 = 0

RotaryFits(config) ==
    /\ config.qk_rope_head_dim % 2 = 0 /\ config.index_head_dim % 2 = 0
    /\ config.index_head_dim >= config.qk_rope_head_dim

\* Glm52Config::from_raw; floats that are not finite and positive are zero here.
GlmConfigured(config) ==
    /\ GlmKeys \subseteq DOMAIN config
    /\ \A key \in DOMAIN Limits : config[key] \in Limits[key][1]..Limits[key][2]
    /\ config.first_k_dense_replace \in 0..config.num_hidden_layers
    /\ config.num_experts_per_tok <= config.n_routed_experts
    /\ config.n_group = 1 /\ config.topk_group = 1
    /\ RotaryFits(config)
    /\ Or(config, "model_type", "") \in {"", "glm_moe_dsa"}
    /\ RopeTheta(config) > 0
    /\ \A key \in {"rms_norm_eps", "routed_scaling_factor"} : Or(config, key, 1) > 0
    /\ Len(IndexerKinds(config)) = config.num_hidden_layers
    /\ \A layer \in DOMAIN IndexerKinds(config) :
          IndexerKinds(config)[layer] \in {"full", "shared"}
    /\ \A token \in Or(config, "eos_token_id", {}) : token < config.vocab_size

-----------------------------------------------------------------------------
(* The contract of the tensors; a matrix has its rows first.               *)

Matrix(name, rows, columns) == [name |-> name, shape |-> <<rows, columns>>, packed |-> TRUE]
Plain(name, shape) == [name |-> name, shape |-> shape, packed |-> FALSE]

AttentionContract(config, layer) ==
    LET h    == config.hidden_size
        q    == config.q_lora_rank
        kv   == config.kv_lora_rank
        n    == config.num_attention_heads
        nope == config.qk_nope_head_dim
        rope == config.qk_rope_head_dim
        v    == config.v_head_dim
    IN  {Plain(<<layer, "input_norm">>, <<h>>), Plain(<<layer, "post_attention_norm">>, <<h>>),
         Matrix(<<layer, "q_a">>, q, h), Plain(<<layer, "q_a_norm">>, <<q>>),
         Matrix(<<layer, "q_b">>, n * (nope + rope), q), Matrix(<<layer, "kv_a">>, kv + rope, h),
         Plain(<<layer, "kv_a_norm">>, <<kv>>), Matrix(<<layer, "kv_b">>, n * (nope + v), kv),
         Matrix(<<layer, "o">>, h, n * v)}

\* A dense or a sparse feed-forward layer.
MlpContract(config, layer) ==
    LET h    == config.hidden_size
        d    == config.intermediate_size
        m    == config.moe_intermediate_size
        wide == config.n_shared_experts * m
    IN  IF layer <= config.first_k_dense_replace
        THEN {Matrix(<<layer, "gate">>, d, h), Matrix(<<layer, "up">>, d, h),
              Matrix(<<layer, "down">>, h, d)}
        ELSE {Plain(<<layer, "router">>, <<config.n_routed_experts, h>>),
              Plain(<<layer, "correction">>, <<config.n_routed_experts>>),
              Matrix(<<layer, "shared_gate">>, wide, h), Matrix(<<layer, "shared_up">>, wide, h),
              Matrix(<<layer, "shared_down">>, h, wide)}
             \union UNION {{Matrix(<<layer, "gate", e>>, m, h), Matrix(<<layer, "up", e>>, m, h),
                            Matrix(<<layer, "down", e>>, h, m)} : e \in 1..config.n_routed_experts}

IndexerContract(config, layer) ==
    LET n    == config.index_n_heads
        size == config.index_head_dim
    IN  {Matrix(<<layer, "index_q">>, n * size, config.q_lora_rank),
         Matrix(<<layer, "index_k">>, size, config.hidden_size),
         Matrix(<<layer, "index_projection">>, n, config.hidden_size),
         Plain(<<layer, "index_norm">>, <<size>>), Plain(<<layer, "index_bias">>, <<size>>)}

\* The indexer tensors indexer_availability looks for.
Sidecar(config) ==
    {need.name : need \in UNION {IndexerContract(config, layer) : layer \in
        {l \in 1..config.num_hidden_layers : IndexerKinds(config)[l] = "full"}}}

DsaEnabled(config, tensors) == Sidecar(config) \intersect DOMAIN tensors # {}

\* The tensors Glm52Weights::from_index wants; the sidecar entirely or not at all.
GlmContract(config, tensors) ==
    {Matrix(<<0, "embed">>, config.vocab_size, config.hidden_size),
     Matrix(<<0, "lm_head">>, config.vocab_size, config.hidden_size),
     Plain(<<0, "norm">>, <<config.hidden_size>>)}
    \union UNION {
        AttentionContract(config, layer) \union MlpContract(config, layer)
        \union (IF DsaEnabled(config, tensors) /\ IndexerKinds(config)[layer] = "full"
                THEN IndexerContract(config, layer) ELSE {})
        : layer \in 1..config.num_hidden_layers}

\* validate_flat_storage: bytes in a row, with as flat F32 scales.
Scales(name) == Append(name, "qs")
Flat(tensors, name) ==
    /\ tensors[name].dtype = "U8" /\ Len(tensors[name].shape) = 1
    /\ Scales(name) \in DOMAIN tensors
    /\ tensors[Scales(name)].dtype = "F32" /\ Len(tensors[Scales(name)].shape) = 1

\* validate_fp8_scale.
Fp8Scaled(tensors, name) ==
    LET scale == Append(name, "scale_inv")
        t     == tensors[name]
    IN  /\ scale \in DOMAIN tensors /\ tensors[scale].dtype = "F32"
        /\ tensors[scale].shape = <<CeilDiv(t.shape[1], Fp8Block), CeilDiv(t.shape[2], Fp8Block)>>

\* required_tensor.
Bindable(tensors, need) ==
    /\ need.name \in DOMAIN tensors
    /\ LET t == tensors[need.name] IN
       IF t.dtype = "U8" /\ need.packed
       THEN /\ Flat(tensors, need.name)
            /\ Matching(need.shape[1], need.shape[2], t.shape[1],
                        tensors[Scales(need.name)].shape[1]) # {}
       ELSE /\ t.shape = need.shape
            /\ \/ t.dtype \in {"F32", "F16", "BF16"}
               \/ t.dtype = "F8_E4M3" /\ need.packed /\ Fp8Scaled(tensors, need.name)

GlmBound(config, tensors) ==
    \A need \in GlmContract(config, tensors) : Bindable(tensors, need)

-----------------------------------------------------------------------------
(* The forward pass.                                                       *)

\* TensorReader: the rows a product with a vector of `columns` has, and 0 where it fails.
Rows(tensors, name, columns) ==
    LET t == tensors[name] IN
    IF t.dtype = "U8"
    THEN LET found == Inferred(columns, t.shape[1], tensors[Scales(name)].shape[1]) IN
         IF Cardinality(found) = 1 THEN (CHOOSE f \in found : TRUE).rows ELSE 0
    ELSE IF Len(t.shape) = 2 /\ t.shape[2] = columns THEN t.shape[1] ELSE 0

\* TensorReader::vector: the length the tensor has.
Length1(tensors, name) == IF Len(tensors[name].shape) = 1 THEN tensors[name].shape[1] ELSE 0

\* attention: the products give the widths that are cut into heads.
GlmAttentionFails(config, tensors, layer) ==
    LET h    == config.hidden_size
        nope == config.qk_nope_head_dim
        rope == config.qk_rope_head_dim
        query == Rows(tensors, <<layer, "q_a">>, h)
    IN  \/ Length1(tensors, <<layer, "q_a_norm">>) # query
        \/ Rows(tensors, <<layer, "q_b">>, query) < config.num_attention_heads * (nope + rope)
        \/ Rows(tensors, <<layer, "kv_a">>, h) # config.kv_lora_rank + rope
        \/ Length1(tensors, <<layer, "kv_a_norm">>) # config.kv_lora_rank
        \/ Rows(tensors, <<layer, "kv_b">>, config.kv_lora_rank)
              < config.num_attention_heads * (nope + config.v_head_dim)
        \/ Rows(tensors, <<layer, "o">>, config.num_attention_heads * config.v_head_dim) # h

\* index_key and index_selection.
GlmIndexFails(config, tensors, layer) ==
    LET key == Rows(tensors, <<layer, "index_k">>, config.hidden_size) IN
    \/ key # config.index_head_dim \/ key < config.qk_rope_head_dim
    \/ Length1(tensors, <<layer, "index_norm">>) # key
    \/ Length1(tensors, <<layer, "index_bias">>) # key
    \/ Rows(tensors, <<layer, "index_q">>, config.q_lora_rank)
          < Rows(tensors, <<layer, "index_projection">>, config.hidden_size) * key
    \/ Rows(tensors, <<layer, "index_projection">>, config.hidden_size) = 0

\* mlp, for the three matrices of the suffix.
MlpFails(tensors, gate, up, down, h) ==
    \/ Rows(tensors, gate, h) = 0
    \/ Rows(tensors, up, h) # Rows(tensors, gate, h)
    \/ Rows(tensors, down, Rows(tensors, gate, h)) # h

GlmMlpFails(config, tensors, layer) ==
    LET h == config.hidden_size IN
    IF layer <= config.first_k_dense_replace
    THEN MlpFails(tensors, <<layer, "gate">>, <<layer, "up">>, <<layer, "down">>, h)
    ELSE \/ Rows(tensors, <<layer, "router">>, h) < config.n_routed_experts
         \/ Length1(tensors, <<layer, "correction">>) < config.n_routed_experts
         \/ MlpFails(tensors, <<layer, "shared_gate">>, <<layer, "shared_up">>,
                     <<layer, "shared_down">>, h)
         \/ \E e \in 1..config.n_routed_experts :
               MlpFails(tensors, <<layer, "gate", e>>, <<layer, "up", e>>, <<layer, "down", e>>, h)

\* A layer that shares a selection has none once there are more than index_topk tokens: no
\* full layer lies before it, and the token before it, the index_topk-th, needed none.
SelectionMissing(config, tensors, layer) ==
    /\ DsaEnabled(config, tensors)
    /\ \A before \in 1..layer : IndexerKinds(config)[before] = "shared"

GlmLayerFails(config, tensors, layer) ==
    \/ Length1(tensors, <<layer, "input_norm">>) # config.hidden_size
    \/ Length1(tensors, <<layer, "post_attention_norm">>) # config.hidden_size
    \/ GlmAttentionFails(config, tensors, layer)
    \/ /\ DsaEnabled(config, tensors) /\ IndexerKinds(config)[layer] = "full"
       /\ GlmIndexFails(config, tensors, layer)
    \/ SelectionMissing(config, tensors, layer)
    \/ GlmMlpFails(config, tensors, layer)

GlmEdgesFail(config, tensors) ==
    \/ Rows(tensors, <<0, "embed">>, config.hidden_size) < config.vocab_size
    \/ Length1(tensors, <<0, "norm">>) # config.hidden_size
    \/ Rows(tensors, <<0, "lm_head">>, config.hidden_size) # config.vocab_size
=============================================================================
