------------------------------ MODULE Commands ------------------------------
(***************************************************************************)
(* The GPU commands of the engine: the dispatches Engine::forward_inner,   *)
(* verify_block_inner and commit_block_prefix encode, in their order, with *)
(* every buffer, byte offset, parameter and thread count.                  *)
(*                                                                         *)
(* A single token and a block differ in the scratch they use, in matvec    *)
(* against matmul, and in the snapshots only a block takes; what they do   *)
(* to one token is stated once.  s is the setting of a command:            *)
(* [c, dev, block, width, base] - configuration, device, whether it is a   *)
(* block, its tokens and the position it starts from.                      *)
(***************************************************************************)
EXTENDS Model, SequencesExt

PrefixSlots == MaxWidth             \* PREFIX_SLOTS

View(buf, floats) == [buf |-> buf, at |-> Floats(floats)]

Dispatch(name, views, p, threads) ==
  [name |-> name, views |-> views, p |-> p, threads |-> threads,
   group |-> IF name = "rms_norm" THEN Simd ELSE 4 * Simd]

\* Scratch: a block has its own, but shares the scores.
Scratch(s, name) ==
  IF s.block /\ name # "scores" THEN <<"block", 0, name>>
  ELSE <<"scratch", 0, name>>
Column(s, name, floats) == View(Scratch(s, name), floats)
Whole(s, name)          == Column(s, name, 0)

Weight(l, name) == View(<<"vector", l, name>>, 0)
Persistent(l, name) == View(<<"layer", l, name>>, 0)

\* Tables and the final norm stand one past the last layer.
TableLayer(c) == c.num_hidden_layers

ForTokens(s, F(_)) == FlattenSeq([i \in 1..s.width |-> F(i - 1)])
ForLayers(c, F(_)) == FlattenSeq([l \in 1..c.num_hidden_layers |-> F(l - 1)])

----------------------------------------------------------------------------
\* Matrices.

KernelNames == [
  f16    |-> [embed |-> "embed_f16", matvec |-> "matvec_f16",
              matmul |-> "matmul_f16"],
  affine |-> [embed |-> "embed_affine", matvec |-> "matvec_affine",
              matmul |-> "matmul_affine"],
  bf16   |-> [embed |-> "embed_affine_bf16", matvec |-> "matvec_affine_bf16",
              matmul |-> "matmul_affine_bf16"] ]

Format(s, name) ==
  LET f == Stored(s.c, name) IN
  CASE f.dtype = "F16"     -> "f16"
    [] Compacted(s.dev, f) -> "bf16"
    [] OTHER               -> "affine"

Weights(s, l, name) ==
  LET of(space) == View(<<space, l, name>>, 0) IN
  IF Format(s, name) = "f16" THEN <<of("weight")>>
  ELSE <<of("weight"), of("scales"), of("biases")>>

Quantised(s, name) ==
  LET f == Stored(s.c, name)
  IN IF f.dtype = "F16" THEN <<>> ELSE <<f.bits, f.group>>

\* Matrix::matvec and Matrix::matmul_block.
Project(s, l, name, x, y) ==
  LET rows == Shape(s.c, name)[1]
      p    == Shape(s.c, name) \o Quantised(s, name)
  IN Dispatch(KernelNames[Format(s, name)][IF s.block THEN "matmul" ELSE "matvec"],
              Weights(s, l, name) \o <<Whole(s, x), Whole(s, y)>>,
              IF s.block THEN Append(p, s.width) ELSE p,
              rows * Simd)

\* Matrix::embed and Matrix::embed_offset.
Embed(s, t, i) ==
  LET h == s.c.hidden_size
  IN Dispatch(KernelNames[Format(s, "embed")]["embed"],
              Weights(s, TableLayer(s.c), "embed") \o <<Column(s, "x", i * h)>>,
              <<t, h>> \o Quantised(s, "embed"), h)

Norm(s, l, weight, i) ==
  LET h == s.c.hidden_size
  IN Dispatch("rms_norm",
              <<Column(s, "x", i * h), Weight(l, weight),
                Column(s, "normalized", i * h)>>,
              <<h>>, Simd)

AddResidual(s) ==
  LET n == s.width * s.c.hidden_size
  IN Dispatch("add", <<Whole(s, "x"), Whole(s, "residual"), Whole(s, "x")>>,
              <<n>>, n)

Copy(source, target, n) == Dispatch("copy_f32", <<source, target>>, <<n>>, n)

----------------------------------------------------------------------------
\* A DeltaNet layer.

Heads(c) == <<c.linear_num_key_heads, c.linear_num_value_heads,
              c.linear_key_head_dim, c.linear_value_head_dim>>

\* Prefix snapshots: slot k of a layer's buffer.
Slot(c, l, name, k) == View(<<"snap", l, name>>, k * SlotFloats(c, name))

Save(s, l, name, k) ==
  Copy(Persistent(l, name), Slot(s.c, l, name, k), SlotFloats(s.c, name))

Restore(c, l, name, k) ==
  Copy(Slot(c, l, name, k), Persistent(l, name), SlotFloats(c, name))

Convolve(s, l, i) ==
  LET n == Qkv(s.c)
  IN << Dispatch("conv_silu",
          <<Column(s, "qkv", i * n), Weight(l, "conv"),
            Persistent(l, "conv_state"), Column(s, "convolved", i * n)>>,
          <<n, s.c.linear_conv_kernel_dim>>, n),
        Dispatch("delta_norm", <<Column(s, "convolved", i * n)>>,
          <<s.c.linear_num_key_heads, s.c.linear_key_head_dim>>,
          s.c.linear_num_key_heads * Simd) >>

DeltaStep(s, l, i) ==
  LET heads == s.c.linear_num_value_heads
  IN << Dispatch("delta_step",
          <<Column(s, "convolved", i * Qkv(s.c)), Column(s, "a", i * heads),
            Column(s, "b", i * heads), Weight(l, "alog"), Weight(l, "dt"),
            Persistent(l, "state"), Column(s, "mixed", i * Vd(s.c))>>,
          Heads(s.c), Vd(s.c) * Simd) >>

DeltaStepBlock(s, l) ==
  << Dispatch("delta_step_block",
       <<Whole(s, "convolved"), Whole(s, "a"), Whole(s, "b"),
         Weight(l, "alog"), Weight(l, "dt"), Persistent(l, "state"),
         Whole(s, "mixed"), Slot(s.c, l, "state", 0)>>,
       Append(Heads(s.c), s.width), Vd(s.c) * Simd) >>

Gate(s, l, i) ==
  LET at == i * Vd(s.c)
  IN << Dispatch("gated_rms",
          <<Column(s, "mixed", at), Column(s, "z", at),
            Weight(l, "gated_norm"), Column(s, "gated", at)>>,
          <<s.c.linear_num_value_heads, s.c.linear_value_head_dim>>,
          s.c.linear_num_value_heads * Simd) >>

BatchedDelta(s) ==
  s.block /\ s.dev.batched /\ s.c.linear_key_head_dim <= DeltaMax

\* (Mutated form: the snapshots are taken before the token, not after it.)
RecurSavedEarly(s, l, i) ==
  LET saves == s.block /\ i + 1 < s.width
      step  == ~BatchedDelta(s)
  IN (IF saves THEN <<Save(s, l, "conv_state", i + 1)>> ELSE <<>>)
     \o (IF saves /\ step THEN <<Save(s, l, "state", i + 1)>> ELSE <<>>)
     \o Convolve(s, l, i)
     \o (IF step THEN DeltaStep(s, l, i) ELSE <<>>)
     \o (IF step THEN Gate(s, l, i) ELSE <<>>)

\* What happens to the recurrence of one token.  (A snapshot follows every
\* token but the last, whose prefix stays live.)
Recur(s, l, i) ==
  LET saves == s.block /\ i + 1 < s.width
      step  == ~BatchedDelta(s)
  IN Convolve(s, l, i)
     \o (IF step THEN DeltaStep(s, l, i) ELSE <<>>)
     \o (IF saves THEN <<Save(s, l, "conv_state", i + 1)>> ELSE <<>>)
     \o (IF saves /\ step THEN <<Save(s, l, "state", i + 1)>> ELSE <<>>)
     \o (IF step THEN Gate(s, l, i) ELSE <<>>)

DeltaLayer(s, l) ==
  LET recur(i) == Recur(s, l, i)
      gate(i)  == Gate(s, l, i)
  IN << Project(s, l, "in_qkv", "normalized", "qkv"),
        Project(s, l, "in_z", "normalized", "z"),
        Project(s, l, "in_a", "normalized", "a"),
        Project(s, l, "in_b", "normalized", "b") >>
     \o (IF s.block THEN <<Save(s, l, "conv_state", 0)>> ELSE <<>>)
     \o (IF s.block /\ ~BatchedDelta(s)
         THEN <<Save(s, l, "state", 0)>> ELSE <<>>)
     \o ForTokens(s, recur)
     \o (IF BatchedDelta(s)
         THEN DeltaStepBlock(s, l) \o ForTokens(s, gate) ELSE <<>>)
     \o << Project(s, l, "out", "gated", "residual") >>

----------------------------------------------------------------------------
\* An attention layer.

Attend(s, l, i) ==
  LET c   == s.c
      nh  == c.num_attention_heads
      nk  == c.num_key_value_heads
      hd  == c.head_dim
      pos == s.base + i
      q   == Column(s, "q", i * Qd(c))
      k   == Column(s, "k", i * Kvd(c))
      v   == Column(s, "v", i * Kvd(c))
      gate   == Column(s, "attention_gate", i * Qd(c))
      mixed  == Column(s, "mixed", i * Qd(c))
      scores == Whole(s, "scores")
      history == <<nh, nk, hd, pos + 1>>
      rope(view, heads) ==
        Dispatch("rope", <<view>>, <<heads, hd, RotaryDim(c), pos>>,
                 (heads * RotaryDim(c)) \div 2)
  IN << Dispatch("split_q_gate", <<Column(s, "qproj", 2 * i * Qd(c)), q, gate>>,
                 <<nh, hd>>, Qd(c)),
        Dispatch("head_rms", <<q, Weight(l, "qnorm")>>, <<nh, hd>>, nh * Simd),
        Dispatch("head_rms", <<k, Weight(l, "knorm")>>, <<nk, hd>>, nk * Simd),
        rope(q, nh), rope(k, nk),
        Dispatch("kv_append",
                 <<k, v, Persistent(l, "kcache"), Persistent(l, "vcache")>>,
                 <<nk, hd, pos>>, Kvd(c)),
        Dispatch("attn_scores", <<q, Persistent(l, "kcache"), scores>>,
                 history, nh * (pos + 1) * Simd),
        Dispatch("softmax", <<scores>>, <<nh, pos + 1>>, nh * Simd),
        Dispatch("attn_values",
                 <<scores, Persistent(l, "vcache"), gate, mixed>>,
                 history, Qd(c)) >>

AttentionLayer(s, l) ==
  LET attend(i) == Attend(s, l, i)
  IN << Project(s, l, "q", "normalized", "qproj"),
        Project(s, l, "k", "normalized", "k"),
        Project(s, l, "v", "normalized", "v") >>
     \o ForTokens(s, attend)
     \o << Project(s, l, "o", "mixed", "residual") >>

----------------------------------------------------------------------------
\* Whole commands.

MlpLayer(s, l) ==
  LET n == s.width * s.c.intermediate_size
  IN << Project(s, l, "gate", "normalized", "gate"),
        Project(s, l, "up", "normalized", "up"),
        Dispatch("swiglu", <<Whole(s, "gate"), Whole(s, "up"),
                             Whole(s, "activated")>>, <<n>>, n),
        Project(s, l, "down", "activated", "residual") >>

Layer(s, l) ==
  LET input(i) == <<Norm(s, l, "input_norm", i)>>
      post(i)  == <<Norm(s, l, "post_norm", i)>>
  IN ForTokens(s, input)
     \o (IF IsLinear(s.c, l) THEN DeltaLayer(s, l) ELSE AttentionLayer(s, l))
     \o <<AddResidual(s)>>
     \o ForTokens(s, post)
     \o MlpLayer(s, l)
     \o <<AddResidual(s)>>

\* forward_inner normalises only what is asked for; a block always does.
Evaluate(s, tokens, logits, hidden) ==
  LET c        == s.c
      embed(i) == <<Embed(s, tokens[i + 1], i)>>
      layer(l) == Layer(s, l)
      final(i) == <<Norm(s, TableLayer(c), "final_norm", i)>>
      table    == IF c.tie_word_embeddings THEN "embed" ELSE "head"
  IN ForTokens(s, embed)
     \o ForLayers(c, layer)
     \o (IF s.block \/ logits \/ hidden THEN ForTokens(s, final) ELSE <<>>)
     \o (IF logits
         THEN <<Project(s, TableLayer(c), table, "normalized", "logits")>>
         ELSE <<>>)

\* commit_block_prefix, when not every token was accepted.
RestorePrefix(c, k) ==
  LET restore(l) ==
        IF IsLinear(c, l)
        THEN <<Restore(c, l, "conv_state", k), Restore(c, l, "state", k)>>
        ELSE <<>>
  IN ForLayers(c, restore)
=============================================================================
