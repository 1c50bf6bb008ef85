---------------------------- MODULE GgufBinding -----------------------------
(***************************************************************************)
(* Loading a Gemma 4 (src/gemma4.rs, src/gemma4/cpu.rs) or a Qwen 3.5      *)
(* model (src/qwen35.rs, src/qwen35/cpu.rs) from a GGUF file: the checks   *)
(* of its configuration and of its tensors, what the forward pass demands  *)
(* of them, and what the kernels of both demand (src/cpu.rs; src/metal.rs  *)
(* multiplies matrices of the same types).  A configuration maps the       *)
(* metadata keys present to their values.  A tensor is [shape, kind]; it   *)
(* is named by its layer, from one, 0 for those of the whole model, and    *)
(* the rest of its name.                                                   *)
(***************************************************************************)
EXTENDS Integers, Sequences, FiniteSets

CONSTANTS
    GemmaLayers,  \* 30 in the code
    SizeWord      \* 2^64, the values of a usize

ASSUME GgufBindingAssumption == GemmaLayers \in Nat /\ SizeWord \in Nat \ {0}

\* The types dequantize decodes, of all the reader of GGUF files accepts.
RunnableKinds == {"F32", "F16", "Q5_0", "Q8_0", "Q4_K", "Q6_K"}

\* What a step needs: the tensor of the name with this shape.
Need(layer, name, shape) == [name |-> <<layer, name>>, shape |-> shape]

HasShape(tensors, need) ==
    need.name \in DOMAIN tensors /\ tensors[need.name].shape = need.shape

\* A step of a kernel fails: tensor_vector, tensor_row, tensor_matvec and
\* tensor_expert_matvec compare the lengths of the vectors with the dimensions, first the
\* columns, and decode the values.
StepFails(tensors, need) ==
    \/ ~HasShape(tensors, need)
    \/ tensors[need.name].kind \notin RunnableKinds

\* rope_neox_in_place, for heads of `size` of which `pairs` pairs turn.
RopeFails(size, pairs) == size % 2 # 0 \/ pairs > size \div 2

-----------------------------------------------------------------------------
(* Gemma 4.                                                                *)

\* validate_26b: every value is prescribed; floats are in millionths.
Pinned ==
    [context_length |-> 262144, hidden_size |-> 2816, layer_count |-> GemmaLayers,
     attention_heads |-> 16, key_length |-> 512, key_length_swa |-> 256,
     value_length |-> 512, value_length_swa |-> 256, shared_kv_layers |-> 0,
     per_layer_embedding_length |-> 0, sliding_window |-> 1024,
     feed_forward_length |-> 2112, expert_feed_forward_length |-> 704,
     expert_count |-> 128, experts_used |-> 8, rms_epsilon |-> 1,
     final_logit_softcap |-> 30000000, rope_dimensions |-> 512, rope_dimensions_swa |-> 256,
     rope_frequency_base |-> 1000000, rope_frequency_base_swa |-> 10000,
     sliding_layers |-> [layer \in 1..GemmaLayers |-> layer % 6 # 0],
     kv_heads_by_layer |-> [layer \in 1..GemmaLayers |-> IF layer % 6 # 0 THEN 8 ELSE 2]]

\* Gemma4Config::from_gguf: no key is missing, none has another value.
GemmaConfigured(config) == config = Pinned

HeadSize(config, layer) ==
    IF config.sliding_layers[layer] THEN config.key_length_swa ELSE config.key_length

\* The tensors of a layer as Gemma4Weights::from_gguf wants them.
LayerContract(config, layer) ==
    LET head == HeadSize(config, layer)
        h    == config.hidden_size
        wide == config.attention_heads * head
        kv   == config.kv_heads_by_layer[layer] * head
        ff   == config.feed_forward_length
        ffe  == config.expert_feed_forward_length
        n    == config.expert_count
    IN  {Need(layer, name, <<h>>) : name \in
            {"attn_norm", "post_attention_norm", "ffn_norm", "post_ffw_norm_1", "post_ffw_norm",
             "pre_ffw_norm_2", "post_ffw_norm_2", "ffn_gate_inp.scale"}}
        \union {Need(layer, name, <<head>>) : name \in {"attn_q_norm", "attn_k_norm"}}
        \union (IF config.sliding_layers[layer] THEN {Need(layer, "attn_v", <<h, kv>>)} ELSE {})
        \union {Need(layer, "attn_q", <<h, wide>>), Need(layer, "attn_k", <<h, kv>>),
                Need(layer, "attn_output", <<wide, h>>),
                Need(layer, "ffn_gate", <<h, ff>>), Need(layer, "ffn_up", <<h, ff>>),
                Need(layer, "ffn_down", <<ff, h>>), Need(layer, "ffn_gate_inp", <<h, n>>),
                Need(layer, "ffn_gate_up_exps", <<h, 2 * ffe, n>>),
                Need(layer, "ffn_down_exps", <<ffe, h, n>>),
                Need(layer, "ffn_down_exps.scale", <<n>>),
                Need(layer, "layer_output_scale", <<1>>)}

GemmaContract(config, vocabulary) ==
    {Need(0, "token_embd", <<config.hidden_size, vocabulary>>),
     Need(0, "output_norm", <<config.hidden_size>>),
     Need(0, "rope_freqs", <<config.rope_dimensions \div 2>>)}
    \union UNION {LayerContract(config, layer) : layer \in 1..config.layer_count}

Tied(tensors) == <<0, "output">> \notin DOMAIN tensors

\* Gemma4Weights::from_gguf accepts: shapes only.  A full-attention layer has no values
\* of its own.
GemmaBound(config, tensors, vocabulary) ==
    /\ \A need \in GemmaContract(config, vocabulary) : HasShape(tensors, need)
    /\ ~Tied(tensors) =>
          HasShape(tensors, Need(0, "output", <<config.hidden_size, vocabulary>>))
    /\ \A layer \in 1..config.layer_count :
          ~config.sliding_layers[layer] => <<layer, "attn_v">> \notin DOMAIN tensors

-----------------------------------------------------------------------------
(* The forward pass (forward_token_inner): each step with the lengths of   *)
(* the vectors it gives to its kernel.                                     *)

AttentionSteps(config, tensors, layer) ==
    LET head  == HeadSize(config, layer)
        h     == config.hidden_size
        query == config.attention_heads * head
        key   == config.kv_heads_by_layer[layer] * head
    IN  {Need(layer, "attn_norm", <<h>>), Need(layer, "attn_q", <<h, query>>),
         Need(layer, "attn_k", <<h, key>>), Need(layer, "attn_q_norm", <<head>>),
         Need(layer, "attn_k_norm", <<head>>), Need(layer, "attn_output", <<query, h>>),
         Need(layer, "post_attention_norm", <<h>>)}
        \union (IF <<layer, "attn_v">> \in DOMAIN tensors THEN {Need(layer, "attn_v", <<h, key>>)}
                ELSE {})

FeedForwardSteps(config, layer) ==
    LET h == config.hidden_size
        w == config.feed_forward_length
        e == config.expert_feed_forward_length
    IN  {Need(layer, name, <<h>>) : name \in
            {"ffn_norm", "post_ffw_norm_1", "pre_ffw_norm_2", "ffn_gate_inp.scale",
             "post_ffw_norm_2", "post_ffw_norm"}}
        \union {Need(layer, "ffn_gate", <<h, w>>), Need(layer, "ffn_up", <<h, w>>),
                Need(layer, "ffn_down", <<w, h>>),
                Need(layer, "ffn_gate_inp", <<h, config.expert_count>>),
                Need(layer, "ffn_down_exps.scale", <<config.expert_count>>),
                Need(layer, "ffn_gate_up_exps", <<h, 2 * e, config.expert_count>>),
                Need(layer, "ffn_down_exps", <<e, h, config.expert_count>>),
                Need(layer, "layer_output_scale", <<1>>)}

\* A layer of the pass fails.  A full layer turns as many pairs as rope_freqs begins with
\* ones; each group of query heads has one key head.
GemmaLayerFails(config, tensors, layer, pairs) ==
    LET head == HeadSize(config, layer) IN
    \/ \E need \in AttentionSteps(config, tensors, layer) \union FeedForwardSteps(config, layer) :
          StepFails(tensors, need)
    \/ RopeFails(head, IF config.sliding_layers[layer] THEN config.rope_dimensions_swa \div 2
                       ELSE pairs)
    \/ config.experts_used \notin 1..config.expert_count
    \/ config.attention_heads % config.kv_heads_by_layer[layer] # 0

\* The embedding of a token, and the logits.
GemmaEdgesFail(config, tensors, vocabulary) ==
    \/ StepFails(tensors, Need(0, "token_embd", <<config.hidden_size, vocabulary>>))
    \/ StepFails(tensors, Need(0, "output_norm", <<config.hidden_size>>))
    \/ StepFails(tensors, Need(0, IF Tied(tensors) THEN "token_embd" ELSE "output",
                               <<config.hidden_size, vocabulary>>))

-----------------------------------------------------------------------------
(* Qwen 3.5.                                                               *)

\* Keys without a default.
QwenKeys ==
    {"context_length", "hidden_size", "block_count", "attention_heads", "kv_heads",
     "key_length", "value_length", "rope_dimensions", "rope_frequency_base", "rms_epsilon",
     "feed_forward_size", "full_attention_interval", "recurrent_inner_size",
     "recurrent_state_size", "recurrent_value_heads", "recurrent_key_heads",
     "convolution_kernel"}

NextnLayers(config) == IF "nextn_layers" \in DOMAIN config THEN config.nextn_layers ELSE 0
LayerCount(config) == config.block_count - NextnLayers(config)

\* A product nobody checks: it wraps around in a release build.
Wrapped(n) == n % SizeWord

\* recurrent_value_head_size and recurrent_projection_size.
ValueHeadSize(config) == config.recurrent_inner_size \div config.recurrent_value_heads
ProjectionSize(config) ==
    Wrapped(2 * config.recurrent_state_size * config.recurrent_key_heads
               + config.recurrent_inner_size)

\* Mutant of HeadsAgree: the size of the state is not compared.
HeadsAgreeByCount(config) ==
    /\ config.attention_heads % config.kv_heads = 0
    /\ config.recurrent_inner_size % config.recurrent_value_heads = 0
    /\ config.recurrent_value_heads % config.recurrent_key_heads = 0

HeadsAgree(config) ==
    /\ config.attention_heads % config.kv_heads = 0
    /\ config.recurrent_inner_size % config.recurrent_value_heads = 0
    /\ config.recurrent_value_heads % config.recurrent_key_heads = 0
    /\ config.recurrent_state_size = ValueHeadSize(config)

\* Qwen35Config::from_gguf; a float that is not finite is zero here.
QwenConfigured(config) ==
    /\ QwenKeys \subseteq DOMAIN config
    /\ LayerCount(config) > 0
    /\ config.key_length = config.value_length
    /\ \A key \in QwenKeys \ {"rope_dimensions"} : config[key] > 0
    /\ config.rope_dimensions <= config.key_length /\ config.rope_dimensions % 2 = 0
    /\ HeadsAgree(config)

\* layer_kind.
FullAttention(config, layer) == layer % config.full_attention_interval = 0

RecurrentContract(config, layer) ==
    LET h     == config.hidden_size
        inner == config.recurrent_inner_size
        heads == config.recurrent_value_heads
    IN  {Need(layer, "attn_qkv", <<h, ProjectionSize(config)>>),
         Need(layer, "attn_gate", <<h, inner>>),
         Need(layer, "ssm_conv1d", <<config.convolution_kernel, ProjectionSize(config)>>),
         Need(layer, "ssm_alpha", <<h, heads>>), Need(layer, "ssm_beta", <<h, heads>>),
         Need(layer, "ssm_dt", <<heads>>), Need(layer, "ssm_a", <<heads>>),
         Need(layer, "ssm_norm", <<ValueHeadSize(config)>>),
         Need(layer, "ssm_out", <<inner, h>>)}

FullContract(config, layer) ==
    LET h    == config.hidden_size
        size == config.key_length
        wide == Wrapped(config.attention_heads * size)
        kv   == Wrapped(config.kv_heads * size)
    IN  {Need(layer, "attn_q", <<h, Wrapped(wide * 2)>>), Need(layer, "attn_k", <<h, kv>>),
         Need(layer, "attn_v", <<h, kv>>), Need(layer, "attn_q_norm", <<size>>),
         Need(layer, "attn_k_norm", <<size>>), Need(layer, "attn_output", <<wide, h>>)}

\* The tensors Qwen35Weights::from_gguf wants.
QwenContract(config, vocabulary) ==
    LET h  == config.hidden_size
        ff == config.feed_forward_size
    IN  {Need(0, "token_embd", <<h, vocabulary>>), Need(0, "output", <<h, vocabulary>>),
         Need(0, "output_norm", <<h>>)}
        \union UNION {
            (IF FullAttention(config, layer) THEN FullContract(config, layer)
             ELSE RecurrentContract(config, layer))
            \union {Need(layer, "attn_norm", <<h>>), Need(layer, "post_attention_norm", <<h>>),
                    Need(layer, "ffn_gate", <<h, ff>>), Need(layer, "ffn_up", <<h, ff>>),
                    Need(layer, "ffn_down", <<ff, h>>)}
            : layer \in 1..LayerCount(config)}

\* validate_tensor: the type of a vector or a matrix.
Decodable(tensor) ==
    tensor.kind \in (IF Len(tensor.shape) = 1 THEN {"F32", "F16"} ELSE RunnableKinds)

\* Qwen35Weights::from_gguf accepts.
QwenBound(config, tensors, vocabulary) ==
    \A need \in QwenContract(config, vocabulary) :
        HasShape(tensors, need) /\ Decodable(tensors[need.name])

-----------------------------------------------------------------------------
(* The forward pass.                                                       *)

\* full_attention: what the kernels are given, the division into heads, and the slices of
\* queries and gates that the heads take.
FullAttentionFails(config, tensors, layer) ==
    LET h    == config.hidden_size
        size == config.key_length
        wide == Wrapped(config.attention_heads * size)
        kv   == Wrapped(config.kv_heads * size)
    IN  \/ \E need \in {Need(layer, "attn_q", <<h, Wrapped(wide * 2)>>),
                        Need(layer, "attn_k", <<h, kv>>),
                        Need(layer, "attn_v", <<h, kv>>), Need(layer, "attn_q_norm", <<size>>),
                        Need(layer, "attn_k_norm", <<size>>),
                        Need(layer, "attn_output", <<wide, h>>)} : StepFails(tensors, need)
        \/ config.rope_dimensions > size \/ config.rope_dimensions % 2 # 0
        \/ config.rope_dimensions = 0
        \/ config.attention_heads % config.kv_heads # 0
        \/ config.attention_heads * size * 2 > Wrapped(wide * 2)

\* recurrent_attention and gated_delta_update: the pieces of the projection and of the state
\* that the heads take must exist.
RecurrentFails(config, tensors, layer) ==
    LET h          == config.hidden_size
        inner      == config.recurrent_inner_size
        heads      == config.recurrent_value_heads
        size       == config.recurrent_state_size
        projection == ProjectionSize(config)
        keyWidth   == size * config.recurrent_key_heads
        delta      == Wrapped(heads * size * ValueHeadSize(config))
    IN  \/ \E need \in {Need(layer, "attn_qkv", <<h, projection>>),
                        Need(layer, "attn_gate", <<h, inner>>),
                        Need(layer, "ssm_alpha", <<h, heads>>),
                        Need(layer, "ssm_beta", <<h, heads>>), Need(layer, "ssm_dt", <<heads>>),
                        Need(layer, "ssm_a", <<heads>>), Need(layer, "ssm_norm", <<size>>),
                        Need(layer, "ssm_out", <<inner, h>>)} : StepFails(tensors, need)
        \/ LET taps == tensors[<<layer, "ssm_conv1d">>] IN
              \/ taps.shape[1] * taps.shape[2] # config.convolution_kernel * projection
              \/ taps.kind \notin RunnableKinds
        \/ 2 * keyWidth + heads * size > projection  \* queries, keys and values
        \/ heads * size > inner                      \* output and gate of the last head
        \/ heads * size * size > delta               \* state of the last head
        \/ config.recurrent_key_heads = 0

\* No width of Qwen wraps: those of the queries, of the projection and of the state.
QwenFits(config) ==
    /\ config.attention_heads * config.key_length * 2 < SizeWord
    /\ 2 * config.recurrent_state_size * config.recurrent_key_heads
          + config.recurrent_inner_size < SizeWord
    /\ config.recurrent_value_heads * config.recurrent_state_size * ValueHeadSize(config)
          < SizeWord

QwenLayerFails(config, tensors, layer) ==
    LET h  == config.hidden_size
        ff == config.feed_forward_size
    IN  \/ IF FullAttention(config, layer) THEN FullAttentionFails(config, tensors, layer)
           ELSE RecurrentFails(config, tensors, layer)
        \/ \E need \in {Need(layer, "attn_norm", <<h>>), Need(layer, "post_attention_norm", <<h>>),
                        Need(layer, "ffn_gate", <<h, ff>>), Need(layer, "ffn_up", <<h, ff>>),
                        Need(layer, "ffn_down", <<ff, h>>)} : StepFails(tensors, need)

QwenEdgesFail(config, tensors, vocabulary) ==
    \E need \in {Need(0, "token_embd", <<config.hidden_size, vocabulary>>),
                 Need(0, "output_norm", <<config.hidden_size>>),
                 Need(0, "output", <<config.hidden_size, vocabulary>>)} : StepFails(tensors, need)
=============================================================================
