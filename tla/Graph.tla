------------------------------- MODULE Graph -------------------------------
(***************************************************************************)
(* The engine down to its dispatches.  A scenario is a model and a device; *)
(* a call encodes a command as a list of dispatches over real buffer       *)
(* sizes, offsets and shader indices, and when the GPU has run the list    *)
(* the buffers hold what the dispatches left there.  A call is two steps,  *)
(* so that the list in flight can be looked at; the caller sees one.       *)
(*                                                                         *)
(* Scratch is forgotten between commands: no command may need what an      *)
(* earlier one left in it.                                                 *)
(***************************************************************************)
EXTENDS Shaders, Contents

CONSTANTS
  Scenarios,   \* [c, dev, modes, calls]: config, device, modes it switches
               \* to, and how many commands may be encoded
  Context,     \* context capacity of every configuration
  Tokens,      \* token ids used
  BadToken,    \* a token id outside every vocabulary
  Asked,       \* evaluations asked for: [op, tokens, logits, hidden, keep]
  Garbage      \* contents that belong to no history

ASSUME GraphAssumption == \A s \in Scenarios : s.c.context = Context

VARIABLES
  scenario,    \* the model loaded and the device it is on
  mode,        \* BlockKernelMode: [matmul, batched]
  memory,      \* recurrent buffers, KV caches and snapshots
  position,
  allocated,   \* block scratch and snapshots exist
  pending,     \* as in Engine
  command,     \* the call in flight or the last one refused by an encode
  rows,        \* histories of the rows last returned
  calls        \* commands encoded so far

vars == <<scenario, mode, memory, position, allocated, pending, command,
          rows, calls>>

config == scenario.c
device == [scenario.dev EXCEPT !.matmul = mode.matmul, !.batched = mode.batched]

NoCall    == [op |-> "none", tokens |-> <<>>, logits |-> FALSE,
              hidden |-> FALSE, keep |-> 0]
NoCommand == [status |-> "none", call |-> NoCall, list |-> <<>>]
NoPending == [base_position |-> 0, tokens |-> 0]

Busy == command.status = "encoded"
Idle == pending.tokens = 0

----------------------------------------------------------------------------
\* Memory between commands.

Linear(c)    == {l \in Layers(c) : IsLinear(c, l)}
Attention(c) == Layers(c) \ Linear(c)
RecurrentNames == {"conv_state", "state"}
Named(name)    == IF name = "conv_state" THEN "conv" ELSE "state"

Kept(c) == ({"layer", "snap"} \X Linear(c) \X RecurrentNames)
             \cup ({"layer"} \X Attention(c) \X {"kcache", "vcache"})

\* A zeroed buffer is what no token leaves behind.
Zeroed(c, b) ==
  LET n     == SlotFloats(c, b[3])
      slots == IF b[1] = "snap" THEN 0..(PrefixSlots - 1) ELSE {0}
  IN {Region(k * n, n, Val(Named(b[3]), b[2], <<>>)) : k \in slots}

Fresh(c) ==
  [b \in Kept(c) |-> IF b[3] \in RecurrentNames THEN Zeroed(c, b) ELSE {}]

\* The buffers of a list are all there; those not kept start out stale.
Touched(list) == UNION {{v.buf : v \in Range(d.views)} : d \in Range(list)}
Loaded(list) ==
  [b \in Kept(config) \cup Touched(list) |->
     IF b \in Kept(config) THEN memory[b] ELSE {}]

ReturnedFrom(mem, call, space) ==
  LET row(name, n, q, i) ==
        LET v == Read(mem, <<space, 0, name>>, i * n, n)
        IN IF Is(v, q, TableLayer(config)) THEN v.h ELSE Garbage
      logits(i) == row("logits", config.vocab_size, "logits", i)
      hidden(i) == row("normalized", config.hidden_size, "hidden", i)
      both(i)   == CASE call.logits /\ call.hidden ->
                          IF logits(i) = hidden(i) THEN logits(i) ELSE Garbage
                     [] call.logits /\ ~call.hidden -> logits(i)
                     [] OTHER                       -> hidden(i)
  IN IF call.logits \/ call.hidden
     THEN [i \in 1..Len(call.tokens) |-> both(i - 1)] ELSE <<>>

----------------------------------------------------------------------------
\* Calls: what they check and what they encode.

Commit(n) == [NoCall EXCEPT !.op = "commit", !.keep = n]
Calls == Asked \cup {Commit(n) : n \in 0..(MaxWidth + 1)}

InVocabulary(ts) == \A i \in DOMAIN ts : ts[i] < config.vocab_size
Blocked(call)    == call.op \in {"verify", "prefill"}

Valid(call) ==
  CASE call.op = "forward" ->
         Idle /\ InVocabulary(call.tokens) /\ position < Context
    [] Blocked(call) ->
         /\ Idle /\ Len(call.tokens) \in 1..MaxWidth
         /\ InVocabulary(call.tokens)
         /\ position + Len(call.tokens) <= Context
         /\ ~allocated => ~BlockUnsupported(config, device)
    [] call.op = "commit" -> ~Idle /\ call.keep <= pending.tokens

\* A commit of the whole block runs nothing on the GPU.
NeedsGpu(call) == call.op = "commit" => call.keep < pending.tokens

ListOf(call) ==
  IF call.op = "commit" THEN RestorePrefix(config, call.keep)
  ELSE Evaluate([c |-> config, dev |-> device, block |-> Blocked(call),
                 width |-> Len(call.tokens), base |-> position],
                call.tokens, call.logits, call.hidden)

Bytes(d) == [i \in DOMAIN d.views |-> Length(config, device, d.views[i].buf)]

Rejected(list) == {d \in Range(list) : ~Encodes(device, d, Bytes(d))}

----------------------------------------------------------------------------
\* Actions.

Init ==
  /\ scenario \in {s \in Scenarios : Loads(s.c)}
  /\ mode = [matmul |-> scenario.dev.matmul, batched |-> scenario.dev.batched]
  /\ memory = Fresh(scenario.c)
  /\ position = 0
  /\ allocated = FALSE
  /\ pending = NoPending
  /\ command = NoCommand
  /\ rows = <<>>
  /\ calls = 0

\* (Mutated form: the convolution windows survive.)
ForgottenStateOnly(mem) ==
  [b \in DOMAIN mem |->
     IF b[1] = "layer" /\ b[3] = "state" THEN Zeroed(config, b) ELSE mem[b]]

\* reset(): the CPU clears the recurrent buffers and nothing else.
Forgotten(mem) ==
  [b \in DOMAIN mem |->
     IF b[1] = "layer" /\ b[3] \in RecurrentNames THEN Zeroed(config, b)
     ELSE mem[b]]

\* The list is encoded when every dispatch passes its checks.
Encode(call) ==
  /\ ~Busy /\ Valid(call) /\ NeedsGpu(call)
  /\ calls < scenario.calls
  /\ LET list == ListOf(call) IN
     /\ Rejected(list) = {}
     /\ command' = [status |-> "encoded", call |-> call, list |-> list]
  /\ calls' = calls + 1
  /\ UNCHANGED <<scenario, mode, memory, position, allocated, pending, rows>>

\* Otherwise the call fails before the GPU has seen anything, and resets.
EncodeFails(call) ==
  /\ ~Busy /\ Valid(call) /\ NeedsGpu(call)
  /\ calls < scenario.calls
  /\ Rejected(ListOf(call)) # {}
  /\ command' = [status |-> "refused", call |-> call, list |-> <<>>]
  /\ memory' = Forgotten(memory)
  /\ position' = 0 /\ pending' = NoPending
  /\ allocated' = (allocated \/ Blocked(call))
  /\ rows' = <<>>
  /\ calls' = calls + 1
  /\ UNCHANGED <<scenario, mode>>

Finish ==
  LET call == command.call
      mem  == Run(config, Loaded(command.list), command.list)
      n    == Len(call.tokens)
  IN
  /\ Busy
  /\ memory' = [b \in Kept(config) |-> mem[b]]
  /\ position' = IF call.op = "commit" THEN pending.base_position + call.keep
                 ELSE position + n
  /\ pending' = IF call.op = "verify"
                THEN [base_position |-> position, tokens |-> n] ELSE NoPending
  /\ allocated' = (allocated \/ Blocked(call))
  /\ rows' = ReturnedFrom(mem, call, IF Blocked(call) THEN "block" ELSE "scratch")
  /\ command' = NoCommand
  /\ UNCHANGED <<scenario, mode, calls>>

\* Every place the list writes, holding nobody knows what.
Spoilt(list) ==
  LET written == Run(config, [b \in DOMAIN Loaded(list) |-> {}], list)
  IN Store(memory, UNION {{<<b, [r EXCEPT !.val = Stale]>> : r \in written[b]} :
                            b \in Kept(config)})

\* The GPU reports an error, or a timestamp or a row cannot be read back:
\* nothing, anything or everything has been written, and the call resets.
FinishFails ==
  LET call == command.call IN
  /\ Busy
  /\ \E mem \in {memory, Spoilt(command.list),
                 Run(config, Loaded(command.list), command.list)} :
       memory' = Forgotten([b \in Kept(config) |-> mem[b]])
  /\ position' = 0 /\ pending' = NoPending
  /\ allocated' = (allocated \/ Blocked(call))
  /\ rows' = <<>>
  /\ command' = NoCommand
  /\ UNCHANGED <<scenario, mode, calls>>

\* A whole block is kept by forgetting that it was tentative.
CommitAll(call) ==
  /\ ~Busy /\ Valid(call) /\ ~NeedsGpu(call)
  /\ position' = pending.base_position + call.keep
  /\ pending' = NoPending
  /\ rows' = <<>>
  /\ command' = NoCommand
  /\ UNCHANGED <<scenario, mode, memory, allocated, calls>>

\* The caller's mistake, a model without block kernels, or no memory for
\* the block buffers.
Refuse(call) ==
  /\ ~Busy
  /\ ~Valid(call) \/ (Blocked(call) /\ ~allocated)
  /\ rows' = <<>>
  /\ command' = NoCommand
  /\ UNCHANGED <<scenario, mode, memory, position, allocated, pending, calls>>

Reset ==
  /\ ~Busy
  /\ memory' = Forgotten(memory)
  /\ position' = 0 /\ pending' = NoPending
  /\ rows' = <<>>
  /\ command' = NoCommand
  /\ UNCHANGED <<scenario, mode, allocated, calls>>

SetBlockKernelMode ==
  /\ ~Busy /\ position = 0 /\ Idle
  /\ mode' \in scenario.modes
  /\ rows' = <<>>
  /\ command' = NoCommand
  /\ UNCHANGED <<scenario, memory, position, allocated, pending, calls>>

Next ==
  \/ \E call \in Calls :
       Encode(call) \/ EncodeFails(call) \/ CommitAll(call) \/ Refuse(call)
  \/ Finish \/ FinishFails \/ Reset \/ SetBlockKernelMode

Spec == Init /\ [][Next]_vars

----------------------------------------------------------------------------
\* Properties.

InFlight == Range(command.list)

\* A model that loads runs: what Engine::load and BlockState::new check is
\* enough for every later call to pass the checks of its dispatches, whatever
\* the odd sizes, positions and block widths.  (Three products are left to
\* the dispatches: the input projection of a DeltaNet layer, its convolution,
\* and a SIMD group for every row of a matrix.)
Indexable(c) ==
  /\ Fits(Qkv(c) * c.hidden_size)
  /\ Fits(Qkv(c) * c.linear_conv_kernel_dim)
  /\ \A name \in MatrixNamesOf(c) : Fits(Shape(c, name)[1] * Simd)
CallsAccepted == Indexable(config) => command.status # "refused"

\* No thread of any shader, padding threads and partial rows included, reads
\* or writes outside what the checks promise for its binding, and vector
\* loads are aligned.
AccessesInside ==
  \A d \in InFlight :
    LET s     == Shader(device, d)
        sizes == Sizes(d.name, d.p)
    IN /\ \A u \in Units(s, d) :
            LET t == Touch(s, d, u) IN
            \A x \in t.reads \cup t.writes :
              (x[2] + 1) * Width(d.name, x[1]) <= sizes[x[1]]
       /\ \A v \in VectorLoads(s, d) :
            /\ (d.views[v[1]].at + v[2]) % v[3] = 0
            /\ v[2] + v[3] <= sizes[v[1]]

\* Where an access falls in memory.
Place(d, x) == <<d.views[x[1]].buf, d.views[x[1]].at + 4 * x[2]>>

\* The elements a dispatch is there to produce.
Produced(c, d) ==
  LET p == d.p
      all(i) == Each(i, Span(0, Sizes(d.name, p)[i] \div 4))
  IN CASE d.name = "kv_append" ->
            {3, 4} \X Span(p[3] * p[1] * p[2], p[1] * p[2])
       [] d.name = "rope" ->
            Each(1, {h * p[2] + i : h \in 0..(p[1] - 1), i \in 0..(p[3] - 1)})
       [] OTHER -> UNION {all(i) : i \in BarrierOutputs(d.name)}

\* The units of a dispatch run in any order: every output element is written
\* by exactly one of them, none reads what another writes, even where input
\* and output are one buffer, and all that is written is announced to the
\* barrier that orders the next dispatch.
OutputsWrittenOnce ==
  \A d \in InFlight :
    LET s       == Shader(device, d)
        units   == Units(s, d)
        touch   == [u \in units |-> Touch(s, d, u)]
        written == UNION {touch[u].writes : u \in units}
        places  == {Place(d, x) : x \in written}
    IN /\ written = Produced(config, d)
       /\ Cardinality(UNION {{u} \X touch[u].writes : u \in units})
            = Cardinality(written)
       /\ Cardinality(places) = Cardinality(written)
       /\ \A u \in units :
            LET own == {Place(d, x) : x \in touch[u].writes} IN
            {Place(d, x) : x \in touch[u].reads} \cap places \subseteq own

\* Lanes and threads that share a sum by tiles, words, registers or vectors
\* (Shares) take every index of it exactly once.
SumsComplete ==
  \A d \in InFlight :
    LET s      == Shader(device, d)
        shares == Shares(s, d)
    IN /\ {x[2] : x \in shares} = Summed(s, d)
       /\ Cardinality(shares) = Cardinality(Summed(s, d))

\* Refinement: the histories Engine speaks of, where all layers agree.
Common(hs) == IF Cardinality(hs) = 1 THEN CHOOSE h \in hs : TRUE ELSE Garbage

HistoryIn(space, l, name, slot) ==
  LET n == SlotFloats(config, name)
      v == Read(memory, <<space, l, name>>, slot * n, n)
  IN IF Is(v, Named(name), l) THEN v.h ELSE Garbage

RecurrentOf(space, name, slot) ==
  Common({HistoryIn(space, l, name, slot) : l \in Linear(config)})

CacheIn(l, name, q, t) ==
  LET n == Kvd(config)
      v == Read(memory, <<"layer", l, name>>, t * n, n)
  IN IF Is(v, q, l) THEN v.h ELSE Garbage

KvOf == [t \in 0..(Context - 1) |->
  Common({CacheIn(l, "kcache", "rotated_key", t) : l \in Attention(config)}
         \cup {CacheIn(l, "vcache", "value", t) : l \in Attention(config)})]

E == INSTANCE Engine WITH
  Vocab <- Tokens, OutOfVocab <- BadToken, MaxBlock <- MaxWidth,
  conv <- RecurrentOf("layer", "conv_state", 0),
  state <- RecurrentOf("layer", "state", 0),
  kvcache <- KvOf,
  batchedDelta <- mode.batched,
  snapConv <- [k \in 0..(PrefixSlots - 1) |-> RecurrentOf("snap", "conv_state", k)],
  snapState <- [k \in 0..(PrefixSlots - 1) |-> RecurrentOf("snap", "state", k)]

\* The steps of Engine that the call in flight may amount to.
Returns(call) ==
  CASE call.op = "forward" ->
         \/ E!Forward(call.tokens[1], call.logits \/ call.hidden)
         \/ E!FailedForward(call.tokens[1])
    [] call.op = "verify"  -> E!VerifyBlock(call.tokens) \/ E!FailedBlock(call.tokens)
    [] call.op = "prefill" -> E!PrefillBlock(call.tokens) \/ E!FailedBlock(call.tokens)
    [] call.op = "commit"  -> E!CommitBlockPrefix(call.keep) \/ E!FailedCommit(call.keep)
    [] OTHER               -> FALSE

EngineStep ==
  \/ UNCHANGED E!vars
  \/ Returns(command.call) \/ Returns(command'.call)
  \/ E!CommitBlockPrefix(pending.tokens)
  \/ E!Reset \/ E!Refused
  \/ E!SetBlockKernelMode(mode'.batched)

\* The dispatches compute what Engine says: through every layer, with every
\* offset, copy and kernel choice, single tokens, blocks, partial commits and
\* failures leave in all recurrent buffers, KV slots and snapshots, and
\* return in the rows, exactly the history Engine gives them.
ImplementsEngine == E!Init /\ [][EngineStep]_vars
=============================================================================
