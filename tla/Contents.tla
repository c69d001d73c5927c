------------------------------ MODULE Contents ------------------------------
(***************************************************************************)
(* What buffers hold.  A value is named, not computed: [q, l, h] is the    *)
(* quantity q of layer l for the last token of the history h.  A dispatch  *)
(* yields the quantity its shader and its weights compute when every view  *)
(* it reads is exactly one value of the right quantity, layer and history, *)
(* and Stale otherwise.                                                    *)
(*                                                                         *)
(* Before the first layer has mixed anything in, a value depends on the    *)
(* token alone, so its history there is just that token.  The first layer  *)
(* is taken to be a DeltaNet one.                                          *)
(***************************************************************************)
EXTENDS Commands

Val(q, l, h) == [q |-> q, l |-> l, h |-> h]
Stale        == Val("stale", 0, <<>>)

Is(v, q, l)    == v.q = q /\ v.l = l
When(ok, v)    == IF ok THEN v ELSE Stale
Unmixed(l, h)  == IF l = 0 THEN <<Last(h)>> ELSE h

\* The history of a recurrent buffer that held old after seeing input h.
Extended(old, h) == Append(old, Last(h))
Follows(l, old, h) == h # <<>> /\ Unmixed(l, Extended(old, h)) = h

----------------------------------------------------------------------------
\* A memory maps a buffer to disjoint regions [at, len, val], in floats.

Region(at, len, val) == [at |-> at, len |-> len, val |-> val]

Read(mem, buf, at, len) ==
  LET exact == {r \in mem[buf] : r.at = at /\ r.len = len}
  IN IF exact = {} THEN Stale ELSE (CHOOSE r \in exact : TRUE).val

At(view) == view.at \div 4

\* Part k of a view cut into parts of n floats.
Part(mem, view, k, n) == Read(mem, view.buf, At(view) + k * n, n)

\* What a dispatch leaves at view: <<buffer, region>>.
Write(view, off, len, val) == <<view.buf, Region(At(view) + off, len, val)>>

Store(mem, writes) ==
  [b \in DOMAIN mem |->
     LET new == {w[2] : w \in {x \in writes : x[1] = b}} IN
     {r \in mem[b] : \A n \in new : r.at + r.len <= n.at \/ n.at + n.len <= r.at}
       \cup new]

\* Elementwise shaders work on the values of their inputs one by one, when
\* those fill the views.
Elementwise(mem, from, to, n, F(_, _)) ==
  LET start == At(from)
      whole == {r \in mem[from.buf] : r.at >= start /\ r.at + r.len <= start + n}
  IN IF UNION {r.at..(r.at + r.len - 1) : r \in whole} # start..(start + n - 1)
     THEN {Write(to, 0, n, Stale)}
     ELSE {Write(to, r.at - start, r.len, F(r, r.at - start)) : r \in whole}

----------------------------------------------------------------------------
\* What the matrices and norms make of their input.

Takes ==
  [in_qkv |-> "normalized", in_z |-> "normalized", in_a |-> "normalized",
   in_b |-> "normalized", q |-> "normalized", k |-> "normalized",
   v |-> "normalized", out |-> "gated", o |-> "mixed", gate |-> "post",
   up |-> "post", down |-> "activated", head |-> "hidden", embed |-> "hidden",
   input_norm |-> "x", post_norm |-> "mid", final_norm |-> "x"]

Gives ==
  [in_qkv |-> "qkv", in_z |-> "z", in_a |-> "a", in_b |-> "b",
   q |-> "qproj", k |-> "key", v |-> "value", out |-> "mixer_out",
   o |-> "mixer_out", gate |-> "gate", up |-> "up", down |-> "mlp_out",
   head |-> "logits", embed |-> "logits",
   input_norm |-> "normalized", post_norm |-> "post", final_norm |-> "hidden"]

Through(weight, v) ==
  LET l == weight[2] IN
  When(Is(v, Takes[weight[3]], l), Val(Gives[weight[3]], l, v.h))

\* x + mixer output, then the sum + MLP output, which enters the next layer.
Sum(v, w) ==
  CASE /\ Is(v, "x", w.l) /\ Is(w, "mixer_out", v.l)
       /\ v.h = Unmixed(v.l, w.h) -> Val("mid", v.l, w.h)
    [] Is(v, "mid", w.l) /\ Is(w, "mlp_out", v.l) /\ v.h = w.h ->
         Val("x", v.l + 1, v.h)
    [] OTHER -> Stale

Activated(v, w) ==
  When(Is(v, "gate", w.l) /\ Is(w, "up", v.l) /\ v.h = w.h,
       Val("activated", v.l, v.h))

\* The recurrence: state old, scaled q/k/v, and the two gates of the token.
Stepped(l, old, x, a, b) ==
  LET h == Extended(old.h, x.h) IN
  IF /\ Is(old, "state", l) /\ Is(x, "scaled", l) /\ x.h = h
     /\ Is(a, "a", l) /\ Is(b, "b", l)
     /\ a.h = Unmixed(l, h) /\ b.h = Unmixed(l, h)
  THEN h ELSE <<>>

\* Slot t of a KV cache, and whether every slot of a history is right.
SlotsAre(mem, view, q, l, h, n) ==
  \A t \in 0..(Len(h) - 1) : Part(mem, view, t, n) = Val(q, l, SubSeq(h, 1, t + 1))

----------------------------------------------------------------------------
\* The writes of a dispatch.

MatrixWrites(mem, d) ==
  LET x == Len(d.views) - 1 IN
  IF d.name \in Embeds
  THEN {Write(d.views[x + 1], 0, d.p[2], Val("x", 0, <<d.p[1]>>))}
  ELSE {Write(d.views[x + 1], b * d.p[1], d.p[1],
              Through(d.views[1].buf, Part(mem, d.views[x], b, d.p[2]))) :
          b \in 0..(Batch(d.name, d.p) - 1)}

ConvWrites(mem, d) ==
  LET p    == d.p
      l    == d.views[2].buf[2]
      x    == Part(mem, d.views[1], 0, p[1])
      old  == Part(mem, d.views[3], 0, p[1] * (p[2] - 1))
      good == Is(x, "qkv", l) /\ Is(old, "conv", l) /\ Follows(l, old.h, x.h)
      h    == Extended(old.h, x.h)
  IN {Write(d.views[3], 0, p[1] * (p[2] - 1), When(good, Val("conv", l, h))),
      Write(d.views[4], 0, p[1], When(good, Val("convolved", l, h)))}

\* Step t of a DeltaNet dispatch works on columns t; the histories of the
\* state before and after every token.
DeltaWrites(mem, d) ==
  LET p      == d.p
      l      == d.views[4].buf[2]
      n      == IF d.name = "delta_step" THEN 1 ELSE p[5]
      values == p[2] * p[4]
      size   == values * p[3]
      before == Part(mem, d.views[6], 0, size)
      stateAt[t \in 0..n] ==
        IF t = 0 THEN before
        ELSE LET h == Stepped(l, stateAt[t - 1],
                              Part(mem, d.views[1], t - 1, DeltaQkv(p)),
                              Part(mem, d.views[2], t - 1, p[2]),
                              Part(mem, d.views[3], t - 1, p[2]))
             IN When(h # <<>>, Val("state", l, h))
      mixed(t) == When(Is(stateAt[t], "state", l), Val("raw", l, stateAt[t].h))
  IN {Write(d.views[6], 0, size, stateAt[n])}
     \cup {Write(d.views[7], (t - 1) * values, values, mixed(t)) : t \in 1..n}
     \cup (IF d.name = "delta_step" THEN {}
           ELSE {Write(d.views[8], t * size, size, stateAt[t]) : t \in 0..(n - 1)})

GateWrites(mem, d) ==
  LET n == d.p[1] * d.p[2]
      l == d.views[3].buf[2]
      v == Part(mem, d.views[1], 0, n)
      z == Part(mem, d.views[2], 0, n)
  IN {Write(d.views[4], 0, n,
            When(Is(v, "raw", l) /\ Is(z, "z", l) /\ z.h = Unmixed(l, v.h),
                 Val("gated", l, v.h)))}

\* Shaders that replace what a view of n floats holds.
Renamed(mem, view, n, ok(_), q) ==
  LET v == Part(mem, view, 0, n)
  IN {Write(view, 0, n, When(ok(v), Val(q, v.l, v.h)))}

DeltaNormWrites(c, mem, d) ==
  LET ok(v) == v.q = "convolved"
  IN Renamed(mem, d.views[1], Qkv(c), ok, "scaled")

HeadNormWrites(mem, d) ==
  LET weight == d.views[2].buf
      from   == IF weight[3] = "qnorm" THEN "split_query" ELSE "key"
      to     == IF weight[3] = "qnorm" THEN "normed_query" ELSE "normed_key"
      ok(v)  == Is(v, from, weight[2])
  IN Renamed(mem, d.views[1], d.p[1] * d.p[2], ok, to)

RopeWrites(c, mem, d) ==
  LET n     == d.p[1] * d.p[2]
      query == Part(mem, d.views[1], 0, n).q = "normed_query"
      ok(v) == /\ v.q \in {"normed_query", "normed_key"}
               /\ d.p[3] = RotaryDim(c) /\ d.p[4] = Len(v.h) - 1
  IN Renamed(mem, d.views[1], n, ok, IF query THEN "query" ELSE "rotated_key")

SoftmaxWrites(mem, d) ==
  LET ok(v) == v.q = "scores" /\ Len(v.h) = d.p[2]
  IN Renamed(mem, d.views[1], d.p[1] * d.p[2], ok, "probs")

SplitWrites(mem, d) ==
  LET n == d.p[1] * d.p[2]
      v == Part(mem, d.views[1], 0, 2 * n)
      half(q) == When(v.q = "qproj", Val(q, v.l, v.h))
  IN {Write(d.views[2], 0, n, half("split_query")),
      Write(d.views[3], 0, n, half("attention_gate"))}

AppendWrites(mem, d) ==
  LET n == d.p[1] * d.p[2]
      moved(i, q) ==
        LET v == Part(mem, d.views[i], 0, n)
        IN Write(d.views[i + 2], d.p[3] * n, n,
                 When(Is(v, q, d.views[3].buf[2]), v))
  IN {moved(1, "rotated_key"), moved(2, "value")}

ScoresWrites(mem, d) ==
  LET p == d.p
      l == d.views[2].buf[2]
      v == Part(mem, d.views[1], 0, p[1] * p[3])
  IN {Write(d.views[3], 0, p[1] * p[4],
        When(/\ Is(v, "query", l) /\ Len(v.h) = p[4]
             /\ SlotsAre(mem, d.views[2], "rotated_key", l, v.h, p[2] * p[3]),
             Val("scores", l, v.h)))}

ValuesWrites(mem, d) ==
  LET p == d.p
      l == d.views[2].buf[2]
      v == Part(mem, d.views[1], 0, p[1] * p[4])
      n == p[1] * p[3]
  IN {Write(d.views[4], 0, n,
        When(/\ Is(v, "probs", l) /\ Len(v.h) = p[4]
             /\ SlotsAre(mem, d.views[2], "value", l, v.h, p[2] * p[3])
             /\ Part(mem, d.views[3], 0, n) = Val("attention_gate", l, v.h),
             Val("mixed", l, v.h)))}

FlatWrites(mem, d) ==
  LET n == d.p[1]
      with(r, off) == Read(mem, d.views[2].buf, At(d.views[2]) + off, r.len)
      moved(r, off) == r.val
      summed(r, off) == Sum(r.val, with(r, off))
      gated(r, off)  == Activated(r.val, with(r, off))
  IN CASE d.name = "copy_f32" -> Elementwise(mem, d.views[1], d.views[2], n, moved)
       [] d.name = "add"      -> Elementwise(mem, d.views[1], d.views[3], n, summed)
       [] d.name = "swiglu"   -> Elementwise(mem, d.views[1], d.views[3], n, gated)

NormWrites(mem, d) ==
  {Write(d.views[3], 0, d.p[1],
         Through(d.views[2].buf, Part(mem, d.views[1], 0, d.p[1])))}

Writes(c, mem, d) ==
  CASE d.name \in MatrixNames   -> MatrixWrites(mem, d)
    [] d.name = "rms_norm"      -> NormWrites(mem, d)
    [] d.name \in {"copy_f32", "add", "swiglu"} -> FlatWrites(mem, d)
    [] d.name = "conv_silu"     -> ConvWrites(mem, d)
    [] d.name = "delta_norm"    -> DeltaNormWrites(c, mem, d)
    [] d.name \in DeltaNames    -> DeltaWrites(mem, d)
    [] d.name = "gated_rms"     -> GateWrites(mem, d)
    [] d.name = "split_q_gate"  -> SplitWrites(mem, d)
    [] d.name = "head_rms"      -> HeadNormWrites(mem, d)
    [] d.name = "rope"          -> RopeWrites(c, mem, d)
    [] d.name = "kv_append"     -> AppendWrites(mem, d)
    [] d.name = "attn_scores"   -> ScoresWrites(mem, d)
    [] d.name = "softmax"       -> SoftmaxWrites(mem, d)
    [] d.name = "attn_values"   -> ValuesWrites(mem, d)

\* Memory after the whole command.  The barrier after every dispatch makes
\* its writes visible to the next one.
Run(c, mem, list) ==
  LET after[i \in 0..Len(list)] ==
        IF i = 0 THEN mem
        ELSE LET m == after[i - 1] IN Store(m, Writes(c, m, list[i]))
  IN after[Len(list)]
=============================================================================
