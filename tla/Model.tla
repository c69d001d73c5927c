------------------------------- MODULE Model -------------------------------
(***************************************************************************)
(* A model as Engine::load builds it: which configurations and stored      *)
(* matrices it takes, the plan of layers, and the length of every GPU      *)
(* buffer it allocates, block scratch and prefix snapshots included.       *)
(*                                                                         *)
(* A candidate c carries the fields of config.json under their names, the  *)
(* context asked for, and the stored format of its matrices: of the        *)
(* mixers, of the MLPs and of the embedding and head.  The rotary fraction *)
(* is rotary_num / rotary_den.                                             *)
(***************************************************************************)
EXTENDS Kernels

\* The dimensions ModelConfig::validate wants positive.
Dimensions ==
  {"hidden_size", "intermediate_size", "num_hidden_layers",
   "num_attention_heads", "num_key_value_heads", "head_dim", "vocab_size",
   "linear_num_key_heads", "linear_num_value_heads", "linear_key_head_dim",
   "linear_value_head_dim", "linear_conv_kernel_dim",
   "full_attention_interval", "max_position_embeddings"}

RotaryDim(c) == (c.head_dim * c.rotary_num) \div c.rotary_den

LayerKind(c, i) ==
  IF (i + 1) % c.full_attention_interval = 0
  THEN "full_attention" ELSE "linear_attention"

\* (Mutated form: an odd rotary dimension is let through.)
ValidConfigOddRotary(c) ==
  /\ \A name \in Dimensions : c[name] > 0
  /\ c.num_attention_heads % c.num_key_value_heads = 0
  /\ c.num_hidden_layers = Len(c.layer_types)
  /\ \A i \in DOMAIN c.layer_types : c.layer_types[i] = LayerKind(c, i - 1)
  /\ c.rotary_num > 0 /\ c.rotary_num <= c.rotary_den
  /\ RotaryDim(c) > 0 /\ RotaryDim(c) <= c.head_dim
  /\ \A id \in c.eos_token_ids : id < c.vocab_size

\* ModelConfig::validate.
ValidConfig(c) ==
  /\ \A name \in Dimensions : c[name] > 0
  /\ c.num_attention_heads % c.num_key_value_heads = 0
  /\ c.num_hidden_layers = Len(c.layer_types)
  /\ \A i \in DOMAIN c.layer_types : c.layer_types[i] = LayerKind(c, i - 1)
  /\ c.rotary_num > 0 /\ c.rotary_num <= c.rotary_den
  /\ RotaryDim(c) > 0 /\ RotaryDim(c) % 2 = 0 /\ RotaryDim(c) <= c.head_dim
  /\ \A id \in c.eos_token_ids : id < c.vocab_size

IsLinear(c, l) == c.layer_types[l + 1] = "linear_attention"
Layers(c)      == 0..(c.num_hidden_layers - 1)

\* Widths used all over the forward pass.
Kd(c)  == c.linear_num_key_heads * c.linear_key_head_dim
Vd(c)  == c.linear_num_value_heads * c.linear_value_head_dim
Qd(c)  == c.num_attention_heads * c.head_dim
Kvd(c) == c.num_key_value_heads * c.head_dim
Qkv(c) == 2 * Kd(c) + Vd(c)

\* The products Engine::load keeps within 32-bit indices.
IndexedSizes(c) ==
  { c.vocab_size * c.hidden_size,
    c.intermediate_size * c.hidden_size,
    Qd(c) * 2 * c.hidden_size,
    Vd(c) * c.linear_key_head_dim,
    c.context * Kvd(c),
    c.num_attention_heads * c.context * Simd }

----------------------------------------------------------------------------
\* Matrices: name -> <<rows, cols>>, and the part of the model it is in.

TableMatrices == {"embed", "head"}
MlpMatrices   == {"gate", "up", "down"}
LinearMatrices    == {"in_qkv", "in_z", "in_a", "in_b", "out"}
AttentionMatrices == {"q", "k", "v", "o"}

Shape(c, name) ==
  LET h == c.hidden_size IN
  CASE name \in TableMatrices -> <<c.vocab_size, h>>
    [] name \in {"gate", "up"} -> <<c.intermediate_size, h>>
    [] name = "down"   -> <<h, c.intermediate_size>>
    [] name = "in_qkv" -> <<Qkv(c), h>>
    [] name = "in_z"   -> <<Vd(c), h>>
    [] name \in {"in_a", "in_b"} -> <<c.linear_num_value_heads, h>>
    [] name = "out"    -> <<h, Vd(c)>>
    [] name = "q"      -> <<2 * Qd(c), h>>
    [] name \in {"k", "v"} -> <<Kvd(c), h>>
    [] name = "o"      -> <<h, Qd(c)>>

Stored(c, name) ==
  CASE name \in TableMatrices -> c.table_format
    [] name \in MlpMatrices   -> c.mlp_format
    [] OTHER                  -> c.mixer_format

\* The matrices of layer l, and those outside any layer.
LayerMatrices(c, l) ==
  MlpMatrices \cup IF IsLinear(c, l) THEN LinearMatrices ELSE AttentionMatrices
Tables(c) == IF c.tie_word_embeddings THEN {"embed"} ELSE TableMatrices

MatrixNamesOf(c) == Tables(c) \cup UNION {LayerMatrices(c, l) : l \in Layers(c)}

\* Checkpoint::matrix on a row of cols values packed into words, and the
\* shape test of Matrix::load: the columns recovered from the stored width
\* are the ones the configuration calls for.
MatrixLoads(c, name) ==
  LET f     == Stored(c, name)
      cols  == Shape(c, name)[2]
      words == (cols * f.bits) \div 32
      per   == f.group \div Pack(f.bits)
  IN f.dtype = "U32" =>
       /\ f.bits \in {4, 8}
       /\ f.group > 0 /\ f.group % Pack(f.bits) = 0
       /\ words % per = 0
       /\ (words \div per) * f.group = cols

\* compact_metadata: both scales and biases survive truncation exactly.
Compacted(dev, f) ==
  f.dtype = "U32" /\ dev.bf16 /\ Specialised(f.bits, f.group) /\ f.exact

Loads(c) ==
  /\ ValidConfig(c)
  /\ c.context > 0 /\ c.context <= c.max_position_embeddings
  /\ c.linear_num_value_heads % c.linear_num_key_heads = 0
  /\ \A n \in IndexedSizes(c) : Fits(n)
  /\ \A name \in MatrixNamesOf(c) : MatrixLoads(c, name)

----------------------------------------------------------------------------
\* Buffers: <<space, layer, name>>.

Alloc(floats) == IF floats = 0 THEN 4 ELSE Floats(floats)

\* (Mutated form: mixed has room for the value heads only.)
ScratchFloatsNarrow(c) ==
  [ x |-> c.hidden_size, normalized |-> c.hidden_size,
    residual |-> c.hidden_size, gate |-> c.intermediate_size,
    up |-> c.intermediate_size, activated |-> c.intermediate_size,
    qkv |-> Qkv(c), convolved |-> Qkv(c), z |-> Vd(c),
    a |-> c.linear_num_value_heads, b |-> c.linear_num_value_heads,
    mixed |-> Vd(c),
    gated |-> Vd(c), qproj |-> 2 * Qd(c), q |-> Qd(c), k |-> Kvd(c),
    v |-> Kvd(c), attention_gate |-> Qd(c),
    scores |-> c.num_attention_heads * c.context, logits |-> c.vocab_size ]

\* Scratch, in floats.
ScratchFloats(c) ==
  [ x |-> c.hidden_size, normalized |-> c.hidden_size,
    residual |-> c.hidden_size, gate |-> c.intermediate_size,
    up |-> c.intermediate_size, activated |-> c.intermediate_size,
    qkv |-> Qkv(c), convolved |-> Qkv(c), z |-> Vd(c),
    a |-> c.linear_num_value_heads, b |-> c.linear_num_value_heads,
    mixed |-> IF Vd(c) >= Qd(c) THEN Vd(c) ELSE Qd(c),
    gated |-> Vd(c), qproj |-> 2 * Qd(c), q |-> Qd(c), k |-> Kvd(c),
    v |-> Kvd(c), attention_gate |-> Qd(c),
    scores |-> c.num_attention_heads * c.context, logits |-> c.vocab_size ]

\* The recurrent buffers and KV caches of a layer, in floats.
StateFloats(c, name) ==
  CASE name = "conv_state" -> Qkv(c) * (c.linear_conv_kernel_dim - 1)
    [] name = "state" -> Vd(c) * c.linear_key_head_dim
    [] name \in {"kcache", "vcache"} -> c.context * Kvd(c)

\* What BlockState::new refuses before a first block: matrices without a
\* block kernel, and buffers too long to index.
BlockMatrices(c) ==
  MatrixNamesOf(c) \ (IF c.tie_word_embeddings THEN {} ELSE {"embed"})

BlockBytes(c) ==
  {Alloc(ScratchFloats(c)[n]) : n \in DOMAIN ScratchFloats(c) \ {"scores"}}
    \cup {Alloc(StateFloats(c, n)) : n \in {"conv_state", "state"}}

BlockUnsupported(c, dev) ==
  \/ dev.reference
  \/ \E name \in BlockMatrices(c) :
       LET f == Stored(c, name)
       IN f.dtype = "U32" /\ ~Specialised(f.bits, f.group)
  \/ \E bytes \in BlockBytes(c) : ~Fits((bytes \div 4) * MaxWidth)

VectorFloats(c, name) ==
  CASE name \in {"input_norm", "post_norm", "final_norm"} -> c.hidden_size
    [] name = "conv" -> Qkv(c) * c.linear_conv_kernel_dim
    [] name \in {"alog", "dt"} -> c.linear_num_value_heads
    [] name = "gated_norm" -> c.linear_value_head_dim
    [] name \in {"qnorm", "knorm"} -> c.head_dim

\* Bytes of the three buffers of a matrix.
MatrixBytes(c, dev, space, name) ==
  LET f     == Stored(c, name)
      total == Shape(c, name)[1] * Shape(c, name)[2]
  IN CASE f.dtype = "F16" -> total * 2
       [] f.dtype = "U32" /\ space = "weight" -> (total * f.bits) \div 8
       [] OTHER -> (total \div f.group) * (IF Compacted(dev, f) THEN 2 ELSE 4)

\* A snapshot slot holds a whole buffer of the layer, as long as allocated.
SlotFloats(c, name) == Alloc(StateFloats(c, name)) \div 4

MatrixBuffers == TableMatrices \cup MlpMatrices \cup LinearMatrices
                   \cup AttentionMatrices

Length(c, dev, buf) ==
  LET space == buf[1]
      name  == buf[3]
  IN CASE space = "scratch" -> Alloc(ScratchFloats(c)[name])
       [] space = "block"   -> MaxWidth * Alloc(ScratchFloats(c)[name])
       [] space = "layer"   -> Alloc(StateFloats(c, name))
       [] space = "snap"    -> Alloc(SlotFloats(c, name) * MaxWidth)
       [] space \in {"weight", "scales", "biases"} /\ name \in MatrixBuffers ->
            MatrixBytes(c, dev, space, name)
       [] OTHER -> Floats(VectorFloats(c, name))
=============================================================================
