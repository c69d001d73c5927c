------------------------------ MODULE MCGraph ------------------------------
\* Small models and devices that between them take every kernel, every route
\* of encode_inner and every fallback.
EXTENDS Graph

F16        == [dtype |-> "F16", bits |-> 16, group |-> 0, exact |-> FALSE]
Quant(b, g, e) == [dtype |-> "U32", bits |-> b, group |-> g, exact |-> e]

\* One DeltaNet and one attention layer, no size a multiple of four.
Odd ==
  [ hidden_size |-> 6, intermediate_size |-> 5, num_hidden_layers |-> 2,
    num_attention_heads |-> 2, num_key_value_heads |-> 1, head_dim |-> 3,
    vocab_size |-> 3, linear_num_key_heads |-> 1, linear_num_value_heads |-> 2,
    linear_key_head_dim |-> 3, linear_value_head_dim |-> 2,
    linear_conv_kernel_dim |-> 2, full_attention_interval |-> 2,
    max_position_embeddings |-> 8, rotary_num |-> 3, rotary_den |-> 4,
    layer_types |-> <<"linear_attention", "full_attention">>,
    eos_token_ids |-> {1}, tie_word_embeddings |-> FALSE, context |-> 4,
    mixer_format |-> F16, mlp_format |-> F16, table_format |-> F16 ]

\* Two DeltaNet layers, shared tables, head and history wide enough for the
\* parallel shaders.
Deep ==
  [Odd EXCEPT !.num_hidden_layers = 3, !.full_attention_interval = 3,
     !.layer_types = <<"linear_attention", "linear_attention", "full_attention">>,
     !.hidden_size = 10, !.head_dim = 9, !.rotary_den = 4, !.rotary_num = 1,
     !.linear_conv_kernel_dim = 3, !.tie_word_embeddings = TRUE]

Packed(cols, f) ==
  [Odd EXCEPT !.hidden_size = cols, !.intermediate_size = cols,
     !.num_attention_heads = 2, !.head_dim = cols \div 2,
     !.linear_value_head_dim = cols \div 2,
     !.rotary_num = 1, !.rotary_den = 2,
     !.mixer_format = f, !.mlp_format = f, !.table_format = f]

Mixed == [Packed(16, Quant(4, 8, FALSE)) EXCEPT
            !.mlp_format = Quant(8, 16, TRUE), !.table_format = F16]

Plain ==
  [reference |-> FALSE, variant |-> "packed4", matmul |-> "Legacy",
   batched |-> TRUE, norm |-> FALSE, attention |-> FALSE, bf16 |-> FALSE]
Aligned  == [Plain EXCEPT !.variant = "aligned", !.norm = TRUE, !.attention = TRUE]
Compact  == [Aligned EXCEPT !.bf16 = TRUE, !.matmul = "MlpR2"]
Parallel == [Plain EXCEPT !.norm = TRUE, !.attention = TRUE]

Mode(m, b) == [matmul |-> m, batched |-> b]

On(c, dev, modes, n) == [c |-> c, dev |-> dev, modes |-> modes, calls |-> n]

MCScenarios ==
  { On(Odd, Plain, {Mode("Legacy", FALSE), Mode("Legacy", TRUE)}, 2),
    On(Deep, Parallel, {Mode("Shared", FALSE)}, 2),
    On(Packed(32, Quant(4, 16, TRUE)), Compact, {Mode("Legacy", FALSE)}, 1),
    On(Packed(32, Quant(4, 16, FALSE)), Aligned, {}, 1),
    On(Packed(16, Quant(4, 8, FALSE)), [Plain EXCEPT !.variant = "stream"], {}, 1),
    On(Packed(16, Quant(4, 16, TRUE)), Aligned, {}, 1),
    On(Mixed, [Plain EXCEPT !.bf16 = TRUE], {}, 1),
    \* no block kernel for groups of 24; none at all on reference kernels
    On(Packed(24, Quant(4, 24, TRUE)), Compact, {}, 1),
    On(Packed(16, Quant(4, 16, TRUE)), [Aligned EXCEPT !.reference = TRUE], {}, 1),
    \* key heads too wide for delta_step_block
    On([Odd EXCEPT !.linear_key_head_dim = 33], Plain, {}, 1),
    \* in_qkv has more weights than an index can name
    On([Odd EXCEPT !.hidden_size = 64, !.linear_key_head_dim = 32,
          !.vocab_size = 2], Plain, {}, 1),
    \* snapshots would have more elements than an index can name
    On([Odd EXCEPT !.linear_key_head_dim = 600, !.hidden_size = 2], Plain, {}, 1),
    \* not loaded: odd rotary width, wrong plan, width not in groups, too big
    On([Odd EXCEPT !.head_dim = 4, !.rotary_num = 3], Plain, {}, 1),
    On([Odd EXCEPT !.layer_types = <<"full_attention", "linear_attention">>],
       Plain, {}, 1),
    On(Packed(20, Quant(4, 8, TRUE)), Plain, {}, 1),
    On([Odd EXCEPT !.vocab_size = 1000], Plain, {}, 1) }

Ask(op, ts, logits, hidden) ==
  [op |-> op, tokens |-> ts, logits |-> logits, hidden |-> hidden, keep |-> 0]

\* forward, prefill_token, forward_with_hidden; blocks of every width; and
\* calls that must be refused.
MCAsked ==
  { Ask("forward", <<0>>, TRUE, FALSE), Ask("forward", <<1>>, FALSE, FALSE),
    Ask("forward", <<1>>, TRUE, TRUE), Ask("forward", <<0>>, FALSE, TRUE),
    Ask("verify", <<0>>, TRUE, TRUE), Ask("verify", <<1, 0>>, TRUE, TRUE),
    Ask("verify", <<0, 1, 1>>, TRUE, TRUE),
    Ask("prefill", <<1, 0, 0>>, FALSE, TRUE),
    Ask("prefill", <<1, 1, 0, 1>>, TRUE, TRUE),
    Ask("forward", <<99>>, TRUE, FALSE), Ask("verify", <<0, 99>>, TRUE, TRUE),
    Ask("verify", <<>>, TRUE, TRUE), Ask("prefill", <<0, 0, 0, 0, 0>>, TRUE, TRUE) }
MCShapes == {<<32, 32>>}
=============================================================================
