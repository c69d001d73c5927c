------------------------------ MODULE Kernels ------------------------------
(***************************************************************************)
(* The GPU dispatch layer: what dispatch_layout accepts and demands of the *)
(* bound views, which specialised shader encode_inner picks, how many SIMD *)
(* groups it launches, and which elements every one of them reads, sums    *)
(* and writes.  Arithmetic is left out; indices are exact.                 *)
(*                                                                         *)
(* A dispatch is [name, views, p, threads, group]: views[i] = [buf, at]    *)
(* binds buffer buf from byte at, p holds the parameter words.  Bindings   *)
(* and parameters count from 1 here and from 0 in the code.  A device is   *)
(* [reference, variant, matmul, batched, norm, attention, bf16], the       *)
(* switches of struct Gpu.                                                 *)
(***************************************************************************)
EXTENDS Integers, Sequences, FiniteSetsExt

CONSTANTS
  Simd,         \* lanes of a SIMD group (32)
  LaneCols,     \* columns a lane takes of a tile in an aligned shader (16)
  QuantGroups,  \* group sizes with specialised shaders ({32, 64, 128})
  AlignedGroup, \* the one the aligned block shaders are built for (64)
  NormWide,     \* shortest vector the parallel norm takes (1024)
  HistoryLong,  \* shortest history the parallel attention takes (128)
  MlpShapes,    \* <<rows, cols>> of the two-row schedule
  MaxIndex      \* u32::MAX

ASSUME KernelsAssumption ==
  /\ Simd \in Nat \ {0} /\ Simd % 4 = 0
  /\ LaneCols \in Nat \ {0} /\ LaneCols % 4 = 0
  /\ QuantGroups \subseteq Nat \ {0} /\ AlignedGroup \in QuantGroups
  /\ NormWide \in Nat \ {0} /\ HistoryLong \in Nat \ {0}
  /\ MaxIndex \in Nat \ {0}

Tile      == Simd * LaneCols      \* 512: columns all lanes take together
RowLanes  == Simd \div 4          \* 8: lanes the stream shader gives a row
DeltaMax  == 4 * Simd             \* 128: widest key head of delta_step_block
Parts     == 8                    \* SIMD groups of a 256-thread group
MaxWidth  == 4                    \* widest matrix block
MaxSigned == MaxIndex \div 2      \* i32::MAX

Up(n, d) == (n + d - 1) \div d    \* usize::div_ceil

Embeds    == {"embed_f16", "embed_affine", "embed_affine_bf16"}
Matvecs   == {"matvec_f16", "matvec_affine", "matvec_affine_bf16"}
Matmuls   == {"matmul_f16", "matmul_affine", "matmul_affine_bf16"}
Bf16Names == {"embed_affine_bf16", "matvec_affine_bf16", "matmul_affine_bf16"}
AffineNames ==
  {"embed_affine", "matvec_affine", "matmul_affine"} \cup Bf16Names
MatrixNames == Embeds \cup Matvecs \cup Matmuls

Positive(p, is) == \A i \in is : p[i] > 0
Fits(n)         == n <= MaxIndex
Floats(n)       == 4 * n

----------------------------------------------------------------------------
\* dispatch_layout for the matrix kernels: p = rows (or the embedded row),
\* cols, then bits and group when the weights are affine, then the number of
\* columns of a block.

Rows(name, p)  == IF name \in Embeds THEN p[1] + 1 ELSE p[1]
Batch(name, p) == IF name \in Matmuls THEN p[Len(p)] ELSE 1
Pack(bits)     == 32 \div bits    \* quantised values in a word

Specialised(bits, group) == bits \in {4, 8} /\ group \in QuantGroups

PackedOK(name, p) ==
  /\ p[3] \in {4, 8} /\ p[4] > 0
  /\ p[2] % Pack(p[3]) = 0 /\ p[2] % p[4] = 0
  /\ name \in Bf16Names \cup Matmuls => Specialised(p[3], p[4])

MatrixAccepts(name, p) ==
  /\ p[2] > 0
  /\ name \notin Embeds => p[1] > 0
  /\ name \in Matmuls => Batch(name, p) \in 1..MaxWidth
  /\ Fits(Rows(name, p) * p[2])
  /\ name \in AffineNames => PackedOK(name, p)
  /\ name \in Matmuls =>
       Fits(Batch(name, p) * p[2]) /\ Fits(Batch(name, p) * p[1])
  /\ name \notin Embeds => Fits(p[1] * Simd)

\* Bytes of the weight bindings: the matrix, then scales and biases.
WeightBytes(name, p) ==
  LET total == Rows(name, p) * p[2]
      meta  == (total \div p[4]) * (IF name \in Bf16Names THEN 2 ELSE 4)
  IN IF name \in AffineNames
     THEN <<(total * p[3]) \div 8, meta, meta>>
     ELSE <<total * 2>>

MatrixSizes(name, p) ==
  LET b == Batch(name, p) IN
  WeightBytes(name, p) \o
    IF name \in Embeds THEN <<Floats(p[2])>>
    ELSE <<Floats(b * p[2]), Floats(b * p[1])>>

MatrixThreads(name, p) == IF name \in Embeds THEN p[2] ELSE p[1] * Simd

----------------------------------------------------------------------------
\* dispatch_layout for the rest.  Epsilons and theta were validated with the
\* configuration and are left out of p.

DeltaQkv(p) == 2 * p[1] * p[3] + p[2] * p[4]

DeltaAccepts(name, p) ==
  LET batch == IF name = "delta_step" THEN 1 ELSE p[5] IN
  /\ Positive(p, 1..4)
  /\ p[2] % p[1] = 0
  /\ name = "delta_step_block" => p[3] <= DeltaMax /\ p[5] \in 1..MaxWidth
  /\ Fits(DeltaQkv(p) * batch)
  /\ Fits(p[2] * p[4] * p[3] * batch)
  /\ Fits(p[2] * p[4] * Simd)

DeltaSizes(name, p) ==
  LET batch  == IF name = "delta_step" THEN 1 ELSE p[5]
      values == p[2] * p[4]
  IN << Floats(DeltaQkv(p) * batch), Floats(p[2] * batch),
        Floats(p[2] * batch), Floats(p[2]), Floats(p[2]),
        Floats(values * p[3]), Floats(values * batch) >>
     \o IF name = "delta_step" THEN <<>>
        ELSE <<Floats(values * p[3] * batch)>>

\* Three equal views of one vector.
Flat == {"rms_norm", "add", "swiglu"}

AttentionAccepts(name, p) ==
  CASE name = "split_q_gate" -> Positive(p, {1, 2}) /\ Fits(2 * p[1] * p[2])
    [] name = "head_rms" ->
         Positive(p, {1, 2}) /\ Fits(p[1] * p[2]) /\ Fits(p[1] * Simd)
    [] name = "rope" ->
         /\ Positive(p, {1, 2, 3}) /\ p[3] % 2 = 0 /\ p[3] <= p[2]
         /\ Fits(p[1] * p[2])
    [] name = "kv_append" ->
         Positive(p, {1, 2}) /\ Fits((p[3] + 1) * p[1] * p[2])
    [] name = "softmax" ->
         Positive(p, {1, 2}) /\ Fits(p[1] * p[2]) /\ Fits(p[1] * Simd)
    [] name \in {"attn_scores", "attn_values"} ->
         /\ Positive(p, 1..4) /\ p[1] % p[2] = 0
         /\ Fits(p[1] * p[3]) /\ Fits(p[4] * p[2] * p[3])
         /\ Fits(p[1] * p[4] * (IF name = "attn_scores" THEN Simd ELSE 1))

VectorAccepts(name, p) ==
  CASE name \in Flat \cup {"copy_f32"} -> p[1] > 0
    [] name = "conv_silu" -> Positive(p, {1, 2}) /\ Fits(p[1] * p[2])
    [] name = "delta_norm" ->
         Positive(p, {1, 2}) /\ Fits(2 * p[1] * p[2]) /\ Fits(p[1] * Simd)
    [] name = "gated_rms" ->
         Positive(p, {1, 2}) /\ Fits(p[1] * p[2]) /\ Fits(p[1] * Simd)

DeltaNames == {"delta_step", "delta_step_block"}
VectorNames ==
  Flat \cup {"copy_f32", "conv_silu", "delta_norm", "gated_rms"}

Accepts(name, p) ==
  CASE name \in MatrixNames -> MatrixAccepts(name, p)
    [] name \in DeltaNames  -> DeltaAccepts(name, p)
    [] name \in VectorNames -> VectorAccepts(name, p)
    [] OTHER                -> AttentionAccepts(name, p)

\* The bytes every binding must offer from its offset on.
Sizes(name, p) ==
  LET len == Floats(p[1] * p[2]) IN
  CASE name \in MatrixNames -> MatrixSizes(name, p)
    [] name \in DeltaNames -> DeltaSizes(name, p)
    [] name \in Flat       -> <<Floats(p[1]), Floats(p[1]), Floats(p[1])>>
    [] name = "copy_f32"   -> <<Floats(p[1]), Floats(p[1])>>
    [] name = "conv_silu"  ->
         <<Floats(p[1]), len, Floats(p[1] * (p[2] - 1)), Floats(p[1])>>
    [] name = "delta_norm"   -> <<2 * len>>
    [] name = "gated_rms"    -> <<len, len, Floats(p[2]), len>>
    [] name = "split_q_gate" -> <<2 * len, len, len>>
    [] name = "head_rms"     -> <<len, Floats(p[2])>>
    [] name \in {"rope", "softmax"} -> <<len>>
    [] name = "kv_append" ->
         <<len, len, (p[3] + 1) * len, (p[3] + 1) * len>>
    [] name = "attn_scores" ->
         <<Floats(p[1] * p[3]), Floats(p[4] * p[2] * p[3]), Floats(p[1] * p[4])>>
    [] name = "attn_values" ->
         <<Floats(p[1] * p[4]), Floats(p[4] * p[2] * p[3]),
           Floats(p[1] * p[3]), Floats(p[1] * p[3])>>

\* The threads the caller must ask for.
Threads(name, p) ==
  CASE name \in MatrixNames -> MatrixThreads(name, p)
    [] name \in DeltaNames  -> p[2] * p[4] * Simd
    [] name = "rms_norm"    -> Simd
    [] name \in {"add", "swiglu", "copy_f32", "conv_silu"} -> p[1]
    [] name \in {"delta_norm", "gated_rms", "head_rms", "softmax"} ->
         p[1] * Simd
    [] name \in {"split_q_gate", "kv_append"} -> p[1] * p[2]
    [] name = "rope"        -> p[1] * (p[3] \div 2)
    [] name = "attn_scores" -> p[1] * p[4] * Simd
    [] name = "attn_values" -> p[1] * p[3]

----------------------------------------------------------------------------
\* Which shader runs.  form says how lanes share the columns of a row, rows
\* how many rows a SIMD group computes; bits and group are compiled in.

Generic(name) ==
  [form |-> IF name \in MatrixNames THEN "plain" ELSE name,
   rows |-> 1, bits |-> 0, group |-> 0]

Form(form, rows, bits, group) ==
  [form |-> form, rows |-> rows, bits |-> bits, group |-> group]

\* (Mutated form: whole tiles are not asked for.)
SomeTiles(p) == p[1] % 4 = 0 /\ p[1] * p[2] <= MaxSigned

\* Shapes the aligned shaders, which check no row and no column, can take.
WholeTiles(p) ==
  p[1] % 4 = 0 /\ p[2] % Tile = 0 /\ p[1] * p[2] <= MaxSigned

\* specialized_matmul.  The shared schedule reorders the work of a SIMD
\* group and touches the same elements as the legacy one.
MatmulShader(dev, name, p, at) ==
  LET aligned ==
        /\ dev.variant = "aligned" /\ at[1] % 8 = 0 /\ at[4] % 16 = 0
        /\ WholeTiles(p) /\ p[3] = 4 /\ p[4] = AlignedGroup
        /\ p[2] * p[5] <= MaxSigned
      twoRows ==
        /\ dev.matmul = "MlpR2" /\ name = "matmul_affine_bf16"
        /\ p[5] = 3 /\ <<p[1], p[2]>> \in MlpShapes
  IN CASE name = "matmul_f16" -> Form("dense", 4, 16, 0)
       [] name # "matmul_f16" /\ aligned ->
            Form("aligned", IF twoRows THEN 2 ELSE 4, 4, AlignedGroup)
       [] OTHER -> Form("block", 4, p[3], p[4])

\* specialized_matvec and the stream route before it.
MatvecShader(dev, p, at) ==
  CASE /\ dev.variant = "stream" /\ at[1] % 8 = 0 /\ p[3] = 4
       /\ p[1] * p[2] <= MaxSigned /\ p[4] \in QuantGroups ->
         Form("stream", 4, 4, p[4])
    [] /\ dev.variant = "aligned" /\ at[1] % 8 = 0 /\ p[3] = 4
       /\ p[4] \in QuantGroups /\ WholeTiles(p) ->
         Form("aligned", 4, 4, p[4])
    [] OTHER ->
         IF Specialised(p[3], p[4]) THEN Form("packed", 4, p[3], p[4])
         ELSE Generic("matvec_affine")

\* specialized_matvec_bf16: no stream shader, one aligned group size.
Bf16Shader(dev, p, at) ==
  IF /\ dev.variant = "aligned" /\ at[1] % 8 = 0
     /\ WholeTiles(p) /\ p[3] = 4 /\ p[4] = AlignedGroup
  THEN Form("aligned", 4, 4, AlignedGroup)
  ELSE Form("packed", 4, p[3], p[4])

ParallelNorm(dev, d) ==
  /\ dev.norm /\ d.p[1] >= NormWide
  /\ \A i \in 1..3 : d.views[i].at % 16 = 0
  /\ \A i \in 1..2 : d.views[i].buf # d.views[3].buf

ParallelValues(dev, d) ==
  /\ dev.attention /\ d.p[3] >= Simd /\ d.p[4] >= HistoryLong
  /\ \A i \in 1..3 : d.views[i].buf # d.views[4].buf

Shader(dev, d) ==
  LET at == [i \in DOMAIN d.views |-> d.views[i].at] IN
  CASE d.name \in Matmuls -> MatmulShader(dev, d.name, d.p, at)
    [] d.name = "matvec_affine_bf16" -> Bf16Shader(dev, d.p, at)
    [] d.name = "matvec_affine" /\ ~dev.reference /\ at[4] % 16 = 0 ->
         MatvecShader(dev, d.p, at)
    [] d.name = "rms_norm" /\ ~dev.reference /\ ParallelNorm(dev, d) ->
         Form("norm_parallel", 1, 0, 0)
    [] d.name = "attn_values" /\ ~dev.reference /\ ParallelValues(dev, d) ->
         Form("values_parallel", 1, 0, 0)
    [] OTHER -> Generic(d.name)

\* The threads of a group, and the most the pipeline was built for.
GroupSize(s, d) ==
  CASE s.form \in {"norm_parallel", "values_parallel"} -> Parts * Simd
    [] s.form \in {"aligned", "stream"}                -> 2 * Simd
    [] OTHER                                           -> d.group

GroupLimit(s) ==
  CASE s.form \in {"aligned", "stream"}         -> 2 * Simd
    [] s.form \in {"packed", "block", "dense"}  -> 4 * Simd
    [] OTHER                                    -> Parts * Simd

\* (Mutated form: the number of SIMD groups is rounded down.)
ActualThreadsDown(s, d) ==
  CASE s.form = "norm_parallel"   -> Parts * Simd
    [] s.form = "values_parallel" ->
         d.p[1] * Up(d.p[3], Simd) * Parts * Simd
    [] s.form \in {"aligned", "stream", "packed", "block", "dense"} ->
         (d.p[1] \div s.rows) * Simd
    [] OTHER -> d.threads

\* The threads really launched: a specialised matrix shader needs one SIMD
\* group per rows it computes, where the caller asked for one per row.
ActualThreads(s, d) ==
  CASE s.form = "norm_parallel"   -> Parts * Simd
    [] s.form = "values_parallel" ->
         d.p[1] * Up(d.p[3], Simd) * Parts * Simd
    [] s.form \in {"aligned", "stream", "packed", "block", "dense"} ->
         Up(d.p[1], s.rows) * Simd
    [] OTHER -> d.threads

LaunchedGroups(s, d) == Up(ActualThreads(s, d), GroupSize(s, d))

----------------------------------------------------------------------------
\* encode_inner's checks.  bytes[i] is the length of the buffer bound at i.

RangesOverlap(a, alen, b, blen) == a < b + blen /\ b < a + alen

Overlap(d, sizes, i, j) ==
  /\ d.views[i].buf = d.views[j].buf
  /\ RangesOverlap(d.views[i].at, sizes[i], d.views[j].at, sizes[j])

\* checked_buffer_range
InsideBuffer(view, size, length) ==
  view.at % 4 = 0 /\ view.at + size <= length

OutputsDisjoint(d, sizes) ==
  LET last == Len(d.views) IN
  /\ d.name \in Matmuls \cup {"copy_f32"} =>
       \A i \in 1..(last - 1) :
         \/ d.name = "copy_f32" /\ d.views[i] = d.views[last]
         \/ ~Overlap(d, sizes, i, last)
  /\ d.name = "delta_step_block" =>
       \A out \in 6..8, i \in 1..last : i # out => ~Overlap(d, sizes, i, out)

Encodes(dev, d, bytes) ==
  /\ Accepts(d.name, d.p)
  /\ dev.reference => d.name \notin Matmuls \cup Bf16Names
  /\ LET sizes == Sizes(d.name, d.p)
         s     == Shader(dev, d)
     IN /\ Len(sizes) = Len(d.views)
        /\ \A i \in DOMAIN sizes : InsideBuffer(d.views[i], sizes[i], bytes[i])
        /\ OutputsDisjoint(d, sizes)
        /\ d.name = "matvec_affine_bf16" => d.views[4].at % 16 = 0
        /\ d.threads = Threads(d.name, d.p)
        /\ d.group >= Simd /\ d.group % Simd = 0
        /\ GroupSize(s, d) <= GroupLimit(s)

\* The bindings the barrier after the dispatch is told were written.
BarrierOutputs(name) ==
  CASE name = "conv_silu"        -> {3, 4}
    [] name = "delta_step"       -> {6, 7}
    [] name = "delta_step_block" -> {6, 7, 8}
    [] name = "split_q_gate"     -> {2, 3}
    [] name = "kv_append"        -> {3, 4}
    [] name \in {"delta_norm", "head_rms", "rope", "softmax"} -> {1}
    [] name \in {"matvec_affine", "matvec_affine_bf16", "matmul_affine",
                 "matmul_affine_bf16"} -> {5}
    [] name \in {"embed_affine", "embed_affine_bf16", "gated_rms",
                 "attn_values"} -> {4}
    [] name \in {"embed_f16", "copy_f32"} -> {2}
    [] OTHER -> {3}
=============================================================================
