--------------------------- MODULE MCModelLoading ---------------------------
(* Small model files for TLC: for each family one right file, and files     *)
(* that differ from a right one in the configuration or in a tensor.        *)
EXTENDS ModelLoading, TLC

\* A file with the tensors of a contract, all of one kind.
GgufTensors(contract) ==
    [name \in {need.name : need \in contract} |->
        [shape |-> (CHOOSE need \in contract : need.name = name).shape, kind |-> "F32"]]

Without(f, key) == [k \in DOMAIN f \ {key} |-> f[k]]

File(family, config, tensors, vocabulary, pairs) ==
    [family |-> family, config |-> config, tensors |-> tensors, vocabulary |-> vocabulary,
     pairs |-> pairs, tokenizer |-> TRUE, context |-> 1, slots |-> 8]

\* What else open looks at.
Spoiled(file) ==
    {[file EXCEPT !.tokenizer = FALSE], [file EXCEPT !.context = 0],
     [file EXCEPT !.slots = 257], [file EXCEPT !.vocabulary = @ + 1]}

Reverse2(shape) == [i \in DOMAIN shape |-> shape[Len(shape) + 1 - i]]

\* One tensor is missing, of another type, turned over, or one longer.
Defective(tensors) ==
    UNION {{Without(tensors, name),
            [tensors EXCEPT ![name].kind = "Q4_K"], [tensors EXCEPT ![name].kind = "Q4_0"],
            [tensors EXCEPT ![name].shape = Reverse2(@)], [tensors EXCEPT ![name].shape[1] = @ + 1]}
           : name \in DOMAIN tensors}

-----------------------------------------------------------------------------
GemmaTensors == GgufTensors(GemmaContract(Pinned, 8))
Untied == GemmaTensors @@ (<<0, "output">> :> [shape |-> <<2816, 8>>, kind |-> "F32"])
OwnValues == GemmaTensors @@ (<<6, "attn_v">> :> [shape |-> <<2816, 1024>>, kind |-> "F32"])

GemmaFiles ==
    {File("gemma4", Pinned, GemmaTensors, 8, pairs) : pairs \in {0, 64, 256}}
    \union Spoiled(File("gemma4", Pinned, GemmaTensors, 8, 64))
    \union {File("gemma4", Pinned, tensors, 8, 64) :
               tensors \in {Untied, OwnValues} \union Defective(Untied)}
    \union {File("gemma4", config, GemmaTensors, 8, 64) : config \in
               {Without(Pinned, key) : key \in DOMAIN Pinned}
               \union {[Pinned EXCEPT ![key] = 3] :
                          key \in DOMAIN Pinned \ {"sliding_layers", "kv_heads_by_layer"}}
               \union {[Pinned EXCEPT !.sliding_layers[6] = TRUE],
                       [Pinned EXCEPT !.kv_heads_by_layer[6] = 8]}}

-----------------------------------------------------------------------------
Qwen ==
    [context_length |-> 8, hidden_size |-> 4, block_count |-> 2, attention_heads |-> 2,
     kv_heads |-> 1, key_length |-> 4, value_length |-> 4, rope_dimensions |-> 2,
     rope_frequency_base |-> 1, rms_epsilon |-> 1, feed_forward_size |-> 4,
     full_attention_interval |-> 2, recurrent_inner_size |-> 4, recurrent_state_size |-> 2,
     recurrent_value_heads |-> 2, recurrent_key_heads |-> 1, convolution_kernel |-> 2]

QwenConfigs ==
    {Without(Qwen, key) : key \in DOMAIN Qwen}
    \union {[Qwen EXCEPT ![key] = value] : key \in DOMAIN Qwen, value \in 0..5}
    \union {[Qwen EXCEPT ![one] = v, ![two] = w] :
               one, two \in {"attention_heads", "kv_heads", "rope_dimensions", "key_length",
                             "recurrent_inner_size", "recurrent_state_size",
                             "recurrent_value_heads", "recurrent_key_heads"},
               v, w \in 0..4}
    \union {Qwen @@ ("nextn_layers" :> n) : n \in 0..2}

\* Sizes of which a product wraps: the width of the queries to that of Qwen, the size of the
\* state, and that of the projection.
ManyHeads == [Qwen EXCEPT !.attention_heads = @ + SizeWord \div 4]
LargeState(size, heads) ==
    [Qwen EXCEPT !.recurrent_inner_size = size * heads, !.recurrent_state_size = size,
                 !.recurrent_value_heads = heads, !.recurrent_key_heads = heads]

\* Tensors that fit the configuration, where it is accepted.
Fitting(config) ==
    GgufTensors(QwenContract(IF QwenConfigured(config) THEN config ELSE Qwen, 8))

QwenFiles ==
    {File("qwen35", config, Fitting(config), 8, 0) : config \in QwenConfigs}
    \union {File("qwen35", [Qwen EXCEPT ![key] = value], Fitting(Qwen), 8, 0) :
               key \in DOMAIN Qwen, value \in 1..4}
    \union {File("qwen35", Qwen, tensors, 8, 0) : tensors \in Defective(Fitting(Qwen))}
    \union Spoiled(File("qwen35", Qwen, Fitting(Qwen), 8, 0))
    \union {File("qwen35", config, Fitting(config), 8, 0) :
               config \in {ManyHeads, LargeState(12, 1), LargeState(2, 30)}}

-----------------------------------------------------------------------------
Glm ==
    [vocab_size |-> 4, hidden_size |-> 4, num_hidden_layers |-> 2, num_attention_heads |-> 2,
     n_routed_experts |-> 2, num_experts_per_tok |-> 1, moe_intermediate_size |-> 4,
     intermediate_size |-> 4, first_k_dense_replace |-> 1, q_lora_rank |-> 4,
     kv_lora_rank |-> 4, qk_nope_head_dim |-> 2, qk_rope_head_dim |-> 2, v_head_dim |-> 2,
     n_shared_experts |-> 1, n_group |-> 1, topk_group |-> 1, norm_topk_prob |-> 1, index_topk |-> 1,
     index_n_heads |-> 1, index_head_dim |-> 2, rope_parameters |-> 1]

Bounds ==
    [vocab_size |-> <<1, 24>>, hidden_size |-> <<1, 20>>, num_hidden_layers |-> <<1, 3>>,
     num_attention_heads |-> <<1, 10>>, n_routed_experts |-> <<1, 12>>,
     num_experts_per_tok |-> <<1, 6>>, moe_intermediate_size |-> <<1, 20>>,
     intermediate_size |-> <<1, 24>>, q_lora_rank |-> <<1, 20>>, kv_lora_rank |-> <<1, 20>>,
     qk_nope_head_dim |-> <<1, 16>>, qk_rope_head_dim |-> <<2, 16>>, v_head_dim |-> <<1, 16>>,
     n_shared_experts |-> <<1, 6>>, index_topk |-> <<1, 20>>, index_n_heads |-> <<1, 10>>,
     index_head_dim |-> <<2, 16>>]

GlmConfigs ==
    {Without(Glm, key) : key \in DOMAIN Glm}
    \union {[Glm EXCEPT ![key] = value] : key \in DOMAIN Glm, value \in 0..4}
    \union {[Glm EXCEPT !.qk_rope_head_dim = rope, !.index_head_dim = head] :
               rope, head \in 2..5}
    \union {Glm @@ ("model_type" :> type) : type \in {"", "glm_moe_dsa", "other"}}
    \union {Glm @@ (key :> value) :
               key \in {"rms_norm_eps", "routed_scaling_factor"}, value \in 0..1}
    \union {Glm @@ ("indexer_types" :> kinds) : kinds \in
               {<<"full">>, <<"full", "other">>} \union [1..2 -> {"full", "shared"}]}
    \union {[Glm EXCEPT !.num_hidden_layers = 3]
               @@ ("index_topk_freq" :> frequency) @@ ("index_skip_topk_offset" :> offset) :
               frequency \in 0..3, offset \in 0..3}
    \union {Glm @@ ("eos_token_id" :> tokens) : tokens \in {{}, {3}, {3, 4}}}

\* A checkpoint as it was written: a part of the matrices packed, with or without the indexers.
Stored(contract, packed, dtype, layout) ==
    LET needs  == {need \in contract : need.packed /\ need.name \in packed}
        matrix(name) == CHOOSE need \in contract : need.name = name
        names  == {need.name : need \in contract}
        scales == {Append(name, IF dtype = "U8" THEN "qs" ELSE "scale_inv") :
                      name \in {need.name : need \in needs}}
        Of(name) == matrix(SubSeq(name, 1, Len(name) - 1))
    IN  [name \in names \union scales |->
            IF name \in scales
            THEN [dtype |-> "F32",
                  shape |-> IF dtype = "U8"
                            THEN <<Of(name).shape[1] * ScalesPerRow(layout, Of(name).shape[2])>>
                            ELSE <<CeilDiv(Of(name).shape[1], Fp8Block),
                                   CeilDiv(Of(name).shape[2], Fp8Block)>>]
            ELSE IF matrix(name) \in needs
            THEN [dtype |-> dtype,
                  shape |-> IF dtype = "U8"
                            THEN <<matrix(name).shape[1] * RowBytes(layout, matrix(name).shape[2])>>
                            ELSE matrix(name).shape]
            ELSE [dtype |-> "BF16", shape |-> matrix(name).shape]]

Indexers(config) ==
    UNION {IndexerContract(config, l) : l \in
              {k \in 1..config.num_hidden_layers : IndexerKinds(config)[k] = "full"}}

Contract(config) == GlmContract(config, <<>>)

Everything(contract) == {need.name : need \in contract}

GlmCheckpoints(config) ==
    LET right    == IF GlmConfigured(config) THEN config ELSE Glm
        contract == Contract(right)
        full     == contract \union Indexers(right)
    IN  {Stored(contract, {}, "U8", 0), Stored(full, {}, "U8", 0),
         Stored(full, Everything(full), "U8", 0), Stored(full, Everything(full), "U8", 16),
         Stored(full, Everything(full), "F8_E4M3", 0)}

\* One matrix packed alone, one tensor missing or of a wrong type or shape.
GlmDefective ==
    LET full  == Contract(Glm) \union Indexers(Glm)
        whole == Stored(full, {}, "U8", 0)
        packed == Stored(full, Everything(full), "U8", 16)
    IN  UNION {{Without(whole, name), [whole EXCEPT ![name].dtype = "I8"],
                [whole EXCEPT ![name].dtype = "F8_E4M3"], [whole EXCEPT ![name].dtype = "U8"],
                [whole EXCEPT ![name].shape[1] = @ + 1], [whole EXCEPT ![name].shape = Reverse2(@)],
                Stored(full, {name}, "U8", 16), Stored(full, {name}, "F8_E4M3", 0)}
               : name \in DOMAIN whole}
        \union UNION {{Without(packed, name), [packed EXCEPT ![name].shape[1] = @ + 1]} :
                          name \in DOMAIN packed}

GlmFiles ==
    UNION {{File("glm_moe_dsa", config, tensors, 4, 0) : tensors \in GlmCheckpoints(config)} :
           config \in GlmConfigs}
    \union {File("glm_moe_dsa", Glm, tensors, 4, 0) : tensors \in GlmDefective}
    \union Spoiled(File("glm_moe_dsa", Glm, Stored(Contract(Glm), {}, "U8", 0), 4, 0))

AllFiles == GemmaFiles \union QwenFiles \union GlmFiles

WrittenMatrices ==
    {[rows |-> r, columns |-> c, layout |-> g] :
        r \in 1..3, c \in (1..100) \union {256, 700, 767, 768, 769, 1536}, g \in {0} \union GroupSizes}
=============================================================================
