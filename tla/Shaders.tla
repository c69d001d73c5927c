------------------------------ MODULE Shaders ------------------------------
(***************************************************************************)
(* What the Metal shaders touch.  A unit is what runs without waiting for  *)
(* any other: a thread of an elementwise shader, a SIMD group of a         *)
(* reduction, a threadgroup of the two parallel shaders.  An access is     *)
(* <<binding, element>>; the element widths are those of the declarations. *)
(***************************************************************************)
EXTENDS Kernels

ThreadKernels ==
  Embeds \cup {"add", "swiglu", "copy_f32", "conv_silu", "split_q_gate",
               "rope", "kv_append", "attn_values"}
GroupForms == {"norm_parallel", "values_parallel"}

\* The units a dispatch launches, the padding of the last group included.
Units(s, d) ==
  LET groups == LaunchedGroups(s, d)
      each   == CASE s.form \in GroupForms -> 1
                  [] s.form \notin GroupForms /\ d.name \in ThreadKernels ->
                       GroupSize(s, d)
                  [] OTHER -> GroupSize(s, d) \div Simd
  IN 0..(groups * each - 1)

Each(binding, elements) == {binding} \X elements
Span(first, n) == first..(first + n - 1)

----------------------------------------------------------------------------
\* Matrix shaders.

\* The columns of a row one lane sums.
Columns(s, cols, lane) ==
  CASE s.form \in {"plain", "dense"} ->
         {c \in 0..(cols - 1) : c % Simd = lane}
    [] s.form \in {"packed", "block"} ->
         LET words == {w \in 0..(cols \div Pack(s.bits) - 1) : w % Simd = lane}
         IN UNION {Span(w * Pack(s.bits), Pack(s.bits)) : w \in words}
    [] s.form = "aligned" ->
         UNION {Span(t * Tile + lane * LaneCols, LaneCols) :
                  t \in 0..(cols \div Tile - 1)}
    [] s.form = "stream" ->
         LET groups == {g \in 0..(cols \div s.group - 1) : g % RowLanes = lane}
         IN UNION {Span(g * s.group, s.group) : g \in groups}

RowLaneCount(s) == IF s.form = "stream" THEN RowLanes ELSE Simd

AllColumns(s, cols) ==
  UNION {Columns(s, cols, lane) : lane \in 0..(RowLaneCount(s) - 1)}

\* (Mutated form: only the first row of a SIMD group is tested.)
UnitRowsUntested(s, rows, u) ==
  IF u * s.rows >= rows THEN {} ELSE Span(u * s.rows, s.rows)

\* The rows of a SIMD group.  It returns when its first row is past the end;
\* the aligned shader asks nothing more of the others.
UnitRows(s, rows, u) ==
  LET all == Span(u * s.rows, s.rows) IN
  CASE u * s.rows >= rows   -> {}
    [] u * s.rows < rows /\ s.form = "aligned" -> all
    [] OTHER                -> {r \in all : r < rows}

\* Elements of the weight bindings for the given rows and columns.
WeightReads(name, p, bits, group, rs, cs) ==
  LET cols == p[2] IN
  IF name \in AffineNames
  THEN LET words  == {r * (cols \div Pack(bits)) + c \div Pack(bits) :
                        r \in rs, c \in cs}
           groups == {r * (cols \div group) + c \div group : r \in rs, c \in cs}
       IN Each(1, words) \cup Each(2, groups) \cup Each(3, groups)
  ELSE Each(1, {r * cols + c : r \in rs, c \in cs})

MatrixTouch(s, d, u) ==
  LET p     == d.p
      x     == Len(d.views) - 1
      rs    == UnitRows(s, p[1], u)
      cs    == IF rs = {} THEN {} ELSE AllColumns(s, p[2])
      batch == 0..(Batch(d.name, p) - 1)
      bits  == IF s.form = "plain" /\ d.name \in AffineNames THEN p[3] ELSE s.bits
      group == IF s.form = "plain" /\ d.name \in AffineNames THEN p[4] ELSE s.group
  IN [reads  |-> WeightReads(d.name, p, bits, group, rs, cs)
                   \cup Each(x, {b * p[2] + c : b \in batch, c \in cs}),
      writes |-> Each(x + 1, {b * p[1] + r : b \in batch, r \in rs})]

EmbedTouch(d, i) ==
  LET p == d.p
      cs == IF i < p[2] THEN {i} ELSE {}
  IN [reads  |-> WeightReads(d.name, p, IF d.name \in AffineNames THEN p[3] ELSE 16,
                             IF d.name \in AffineNames THEN p[4] ELSE 0, {p[1]}, cs),
      writes |-> Each(Len(d.views), cs)]

----------------------------------------------------------------------------
\* Vector, convolution and recurrence shaders.

Nothing == [reads |-> {}, writes |-> {}]

FlatTouch(d, i) ==
  IF i >= d.p[1] THEN Nothing
  ELSE LET last == Len(d.views)
       IN [reads |-> Each(1, {i}) \cup (IF last = 3 THEN Each(2, {i}) ELSE {}),
           writes |-> Each(last, {i})]

NormTouch(p, u) ==
  IF u > 0 THEN Nothing
  ELSE [reads  |-> Each(1, Span(0, p[1])) \cup Each(2, Span(0, p[1])),
        writes |-> Each(3, Span(0, p[1]))]

ConvTouch(p, c) ==
  LET window == Each(3, Span(c * (p[2] - 1), p[2] - 1)) IN
  IF c >= p[1] THEN Nothing
  ELSE [reads  |-> Each(1, {c}) \cup Each(2, Span(c * p[2], p[2])) \cup window,
        writes |-> window \cup Each(4, {c})]

DeltaNormTouch(p, h) ==
  LET both == Each(1, Span(h * p[2], p[2]) \cup Span((p[1] + h) * p[2], p[2]))
  IN IF h >= p[1] THEN Nothing ELSE [reads |-> both, writes |-> both]

\* The elements of a state row lane j of delta_step_block keeps in its four
\* registers; the sequential shader strides over the whole row.
Registers(p, lane) == {i \in {lane + j * Simd : j \in 0..3} : i < p[3]}

\* p = key heads KH, value heads VH, key width K, value width V, tokens.
DeltaTouch(d, row) ==
  LET p      == d.p
      block  == d.name = "delta_step_block"
      rows   == p[2] * p[4]
      tokens == 0..((IF block THEN p[5] ELSE 1) - 1)
      h      == row \div p[4]
      kh     == h \div (p[2] \div p[1])
      ks     == IF block THEN UNION {Registers(p, lane) : lane \in 0..(Simd - 1)}
                ELSE Span(0, p[3])
      state  == Each(6, {row * p[3] + i : i \in ks})
      qkv    == UNION { {t * DeltaQkv(p) + kh * p[3] + i : i \in ks}
                   \cup {t * DeltaQkv(p) + (p[1] + kh) * p[3] + i : i \in ks}
                   \cup {t * DeltaQkv(p) + 2 * p[1] * p[3] + row} : t \in tokens }
      snaps  == {t * rows * p[3] + row * p[3] + i : t \in tokens, i \in ks}
  IN IF row >= rows THEN Nothing
     ELSE [reads |-> Each(1, qkv) \cup state \cup Each(4, {h}) \cup Each(5, {h})
                     \cup ({2, 3} \X {t * p[2] + h : t \in tokens}),
           writes |-> state \cup Each(7, {t * rows + row : t \in tokens})
                      \cup (IF block THEN Each(8, snaps) ELSE {})]

GatedTouch(p, h) ==
  LET head == Span(h * p[2], p[2]) IN
  IF h >= p[1] THEN Nothing
  ELSE [reads  |-> ({1, 2} \X head) \cup Each(3, Span(0, p[2])),
        writes |-> Each(4, head)]

----------------------------------------------------------------------------
\* Attention shaders.

SplitTouch(p, i) ==
  LET h == i \div p[2]
      j == i % p[2]
  IN IF i >= p[1] * p[2] THEN Nothing
     ELSE [reads  |-> Each(1, {h * 2 * p[2] + j, h * 2 * p[2] + p[2] + j}),
           writes |-> {2, 3} \X {i}]

HeadNormTouch(p, h) ==
  LET head == Each(1, Span(h * p[2], p[2])) IN
  IF h >= p[1] THEN Nothing
  ELSE [reads |-> head \cup Each(2, Span(0, p[2])), writes |-> head]

RopeTouch(p, i) ==
  LET half == p[3] \div 2
      base == (i \div half) * p[2] + (i % half)
      pair == Each(1, {base, base + half})
  IN IF i >= p[1] * half THEN Nothing ELSE [reads |-> pair, writes |-> pair]

AppendTouch(p, i) ==
  LET n == p[1] * p[2] IN
  IF i >= n THEN Nothing
  ELSE [reads |-> {1, 2} \X {i}, writes |-> {3, 4} \X {p[3] * n + i}]

\* p = heads H, KV heads, width D, length L.
KvHead(p, h) == h \div (p[1] \div p[2])

ScoresTouch(p, row) ==
  LET h == row \div p[4]
      t == row % p[4]
  IN IF row >= p[1] * p[4] THEN Nothing
     ELSE [reads |-> Each(1, Span(h * p[3], p[3]))
                     \cup Each(2, Span((t * p[2] + KvHead(p, h)) * p[3], p[3])),
           writes |-> Each(3, {row})]

SoftmaxTouch(p, h) ==
  LET row == Each(1, Span(h * p[2], p[2])) IN
  IF h >= p[1] THEN Nothing ELSE [reads |-> row, writes |-> row]

\* One head and a set of its channels.
ValuesTouch(p, h, channels) ==
  LET own == {h * p[3] + d : d \in channels} IN
  [reads |-> Each(1, Span(h * p[4], p[4])) \cup Each(3, own)
             \cup Each(2, {(t * p[2] + KvHead(p, h)) * p[3] + d :
                             t \in 0..(p[4] - 1), d \in channels}),
   writes |-> Each(4, own)]

\* Neither parallel shader tests its group number.
ValuesGroupTouch(p, g) ==
  LET tiles == Up(p[3], Simd) IN
  ValuesTouch(p, g \div tiles,
              {d \in Span((g % tiles) * Simd, Simd) : d < p[3]})

Touch(s, d, u) ==
  LET p == d.p IN
  CASE s.form = "norm_parallel"   -> NormTouch(p, 0)
    [] s.form = "values_parallel" -> ValuesGroupTouch(p, u)
    [] d.name \in Embeds          -> EmbedTouch(d, u)
    [] d.name \in Matvecs \cup Matmuls -> MatrixTouch(s, d, u)
    [] d.name \in {"add", "swiglu", "copy_f32"} -> FlatTouch(d, u)
    [] s.form = "rms_norm"        -> NormTouch(p, u)
    [] d.name = "conv_silu"       -> ConvTouch(p, u)
    [] d.name = "delta_norm"      -> DeltaNormTouch(p, u)
    [] d.name \in DeltaNames      -> DeltaTouch(d, u)
    [] d.name = "gated_rms"       -> GatedTouch(p, u)
    [] d.name = "split_q_gate"    -> SplitTouch(p, u)
    [] d.name = "head_rms"        -> HeadNormTouch(p, u)
    [] d.name = "rope"            -> RopeTouch(p, u)
    [] d.name = "kv_append"       -> AppendTouch(p, u)
    [] d.name = "attn_scores"     -> ScoresTouch(p, u)
    [] d.name = "softmax"         -> SoftmaxTouch(p, u)
    [] s.form = "attn_values"     ->
         IF u >= p[1] * p[3] THEN Nothing
         ELSE ValuesTouch(p, u \div p[3], {u % p[3]})

----------------------------------------------------------------------------
\* Shared sums and vector loads.

\* How the lanes or threads of a unit share what they sum: a set of
\* <<lane, index>> pairs, and the indices there are.
Shares(s, d) ==
  LET p == d.p
      n == p[1]
      vectors == n \div 4
  IN CASE d.name \in Matvecs \cup Matmuls ->
            UNION {{lane} \X Columns(s, p[2], lane) :
                     lane \in 0..(RowLaneCount(s) - 1)}
       [] d.name = "delta_step_block" ->
            UNION {{lane} \X Registers(p, lane) : lane \in 0..(Simd - 1)}
       [] s.form = "norm_parallel" ->
            UNION {{i % (Parts * Simd)} \X Span(4 * i, 4) :
                     i \in 0..(vectors - 1)}
            \cup {<<tid, vectors * 4 + tid>> : tid \in 0..((n % 4) - 1)}
       [] OTHER -> {}

Summed(s, d) ==
  CASE d.name \in Matvecs \cup Matmuls -> Span(0, d.p[2])
    [] d.name = "delta_step_block"     -> Span(0, d.p[3])
    [] s.form = "norm_parallel"        -> Span(0, d.p[1])
    [] OTHER                           -> {}

\* Byte offsets of the vector loads, with the alignment each needs.
VectorLoads(s, d) ==
  LET p   == d.p
      x   == Len(d.views) - 1
      in  == {b * p[2] + c : b \in 0..(Batch(d.name, p) - 1),
                             c \in AllColumns(s, p[2])}
      f4s == {i \in in : i % 4 = 0}
  IN CASE s.form = "packed" -> {<<x, 4 * i, 16>> : i \in f4s}
       [] s.form \in {"aligned", "stream"} ->
            {<<x, 4 * i, 16>> : i \in f4s} \cup
            {<<1, (r * p[2] + c) \div 2, LaneCols \div 2>> :
               r \in 0..(p[1] - 1),
               c \in {k \in AllColumns(s, p[2]) : k % LaneCols = 0}}
       [] s.form = "norm_parallel" ->
            {1, 2, 3} \X {16 * i : i \in 0..(p[1] \div 4 - 1)} \X {16}
       [] OTHER -> {}

\* Bytes of an element of a binding.
Width(name, binding) ==
  CASE binding = 1 /\ name \in {"matvec_f16", "matmul_f16", "embed_f16"} -> 2
    [] binding \in {2, 3} /\ name \in Bf16Names -> 2
    [] OTHER -> 4
=============================================================================
