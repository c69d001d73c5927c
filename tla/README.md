# A TLA+ model of qwen-metal

This directory is a verification development for the repository it sits
beside: an inference engine in Rust and Metal for dense Qwen text models, with
a one-worker HTTP chat server, a prefix cache across requests, and native
multi-token-prediction (MTP) speculative decoding. Paths are relative to the
repository's `src/`; `engine.rs` is `src/src/engine.rs` from here.

Contents: [inventory](#inventory) · [modules](#modules-and-the-code) ·
[runs](#runs) · [fairness](#fairness) · [proofs](#proofs) ·
[what is left out](#what-is-not-modelled) · [plan](#plan)

## Inventory

| Component | Source | State it keeps | Operations | Model |
|---|---|---|---|---|
| Target engine | `engine.rs`, `engine/block.rs` | position, recurrent buffers of each DeltaNet layer, KV slots of each attention layer, prefix snapshots, a pending block | forward, prefill, verify block, commit prefix, reset, change kernel schedule | `TargetLog`, `Engine`; down to dispatches `Model`, `Commands`, `Contents`, `Graph` |
| Plain chat engine | `ChatEngine` in `engine.rs` | cached tokens and logits across requests | generate, clear cache | `Language`, `Generation`, `ChatEngine` |
| MTP drafter | `engine/mtp.rs` | position, KV slots | forward, prefill, truncate, reset | `DrafterLog`, `Mtp` |
| MTP chat engine | `mtp_chat.rs` | a target engine and a drafter | generate by draft, verify, commit, repair; the sequential reference | `MtpChat` |
| Speculative verifier | `speculative.rs` | none | cut a row to a distribution, accept or correct drafts | `Distributions`, `Speculative`, `SpeculativeLaw` |
| Sampling | `chat/sampling.rs`, `Sampler` in `chat.rs` | counts of emitted tokens | process a row or a block, record, sample | `Sampling`, `SpeculativeLaw` |
| HTTP server | `server.rs` | job queue, event channel and cancel flag per request | completions handler, worker loop | `Server` |
| Output pipeline | `server/output.rs`, `chat/tools.rs` | text held back by the stop filter, the tool parser and the reasoning splitter | push, finish | `Markers`, `OutputProcessor` |
| Request parser | `server/request.rs`, `ToolConfig` in `chat/tools.rs` | call ids pending and used | parse | `Request`, `ToolConfig` |
| GPU profiler | `gpu/profile.rs`, `gpu/timing.rs`, frames in `gpu.rs` | dispatches and samples of a frame, aborted flag, calibration | begin, encode, abort, resolve, finish, report | `Profiler` |
| Checkpoint loader | `weights.rs` | tensors under canonical names, layout of the convolutions | read shard, open | `Safetensors`, `Checkpoint` |
| GPU dispatch and kernels | `gpu.rs`, `kernels/*.metal` | pipelines, block kernel mode | dispatch | `Kernels`, `Shaders` |
| Configuration | `config.rs`, checks of `Engine::load` | none | validate, layer plan, buffer lengths | `Model` |
| MTP benchmark | `mtp_benchmark.rs`, `benchmark_timing.rs`, `mtp_chat/timing.rs` | schedules and measurements | run arms, report | planned (schedules) |
| Template and tokenizer | `chat.rs` | none | render, encode, decode | external |
| Command line, synthetic engine, status | `main.rs`, `engine/synthetic.rs`, `system_status.rs` | none | print, generate weights | no |

### How the parts interact

    client ── HTTP ── handler ──(queue of 4, try_send)──► worker thread
                        ▲                                  │ on_text callback
                        └──(channel of 16, blocking_send)──┤
                                                           ▼
                          OutputProcessor ◄── text ── ChatEngine / MtpChatEngine
                                                           │ &mut self
                                                 Engine, MtpEngine ── Gpu (Profiler)

Handlers are asynchronous tasks. One worker thread owns the engine and
everything below it; its calls take `&mut self` and wait for their GPU
command. So concurrency is between handlers and worker, and below the worker
the difficulty is in sequences of calls that succeed, fail or stop half-way.

### What is hard, and what correct means

* *Engine.* Recurrent state cannot be rolled back by moving an index, so a
  block of tokens is evaluated in place with snapshots, and a command that
  fails may have changed any of it. Correct: the buffers always hold the state
  of exactly one sequence of tokens (`RecurrentCoherent`,
  `AttentionCoherent`), every prefix of a pending block can be restored
  (`PrefixRestorable`), and callers see a log (`ImplementsLog`).
* *Dispatches.* A forward pass is hundreds of dispatches over shared scratch,
  each with offsets, parameters and thread counts computed by hand, and a
  shader chosen by sizes and alignment. Correct: what a loaded model encodes
  is accepted (`CallsAccepted`), stays inside its buffers (`AccessesInside`),
  writes every output once and announces it (`OutputsWrittenOnce`), sums every
  term once (`SumsComplete`), and leaves everywhere the history `Engine` says
  (`ImplementsEngine`).
* *Chat engines.* State survives from one request to the next, or must not;
  answers end at many places (end token, limit, cancellation before, in and
  after a token, held-back UTF-8, failures). Correct: an answer is one that a
  fresh generator could give (`KeepsPromise`), whatever is cached, drafted or
  rejected; the cache describes the engine (`CacheCoherent`); drafter and
  target stand at the same place after each round (`ModelsAligned`).
* *Sampling and verifier.* Penalties depend on the tokens before a row, some
  of which are drafts that may be rejected. Correct: each token of a round has
  the law the target alone gives it, under the request's settings, whatever
  the drafter's law (`LawPreserved`, `RejectionHasCorrection`), and the two
  samplers of the code draw by that law (`SamplersFollowLaw`).
* *Server.* Disconnects and panics at any point, one slow client holding the
  worker, bounded queues. Correct: every stream is well-formed and complete
  (`StreamGrammar`, `NothingLost`, `JsonHeldBack`), every accepted request
  ends and the worker comes back (`EveryRequestEnds`, `WorkerComesBack`).
* *Output pipeline.* Markers and stop sequences may be cut between any two
  chunks. Correct: the answer is that of the text read, pushed at once, and where
  no stop sequence is nested in another the cuts do not show at all
  (`ChunkingIrrelevant`); no stop sequence gets out (`StopNeverLeaks`), calls are
  whole frames (`CallsAreFrames`).
* *Request parser.* Two sets of ids stand for the structure of a whole
  history. Correct: it accepts exactly the well-formed ones (`ScanIsExact`).
* *Profiler.* A frame may fail at each step and buffers are reused. Correct: a
  report is of the last frame, and only if it completed (`ReportDescribesFrame`).
* *Loader.* Facts about a checkpoint are spread over headers, shards and an
  index. Correct: it opens exactly the consistent ones
  (`AcceptedArePartitioned`, `OpenIsExact`).

## Modules and the code

**`TargetLog`** is the promise of the target engine to its callers: a log of
absorbed tokens and at most one proposed block. **`Engine`** is the code. A
buffer's contents are abstracted to the token history they were computed from,
or `Garbage`: `After(ts, k)` is what the GPU leaves when all the contents it
reads are of the same history, and `Garbage` otherwise, so a wrong snapshot or
a stale slot is not repaired by the model. One DeltaNet and one attention
layer stand for all, which go through the same code with the same offsets.
Actions are the public calls; `FailedForward`, `FailedBlock` and `FailedCommit`
are a GPU error after any part of the command's effects, followed by `reset()`
as in the code; `Refused` is every `ensure!` that fires before an effect.

**`Language`** holds requests, laws, the end tokens and the tokenizer: `Lead`
tokens end inside a UTF-8 sequence and decode to a replacement character until
the next token (`Partial`). **`Generation`** is the promise of both
generators: draw from the law of the whole history until an end, hand out text
as it becomes whole. **`ChatEngine`** is `ChatEngine::generate` with its cache,
over `TargetLog`. Calls of `on_text` are actions parameterised by its answer.

**`MtpChat`** is `MtpChatEngine` with both loops of `generate_inner`. Its
target is `INSTANCE TargetLog`, its drafter the list of slots of
`DrafterLog`, each slot with the hidden vector it was joined with: a history
for a row of the target, `SelfHidden` for the drafter's own.
**`Speculative`** has `verify`: laws are functions to integer weights of equal
total, so the comparison `u < p/q` becomes exact arithmetic on `AcceptMass`
and `RejectMass`. **`Sampling`** has what comes before and after it: options
and `LogitProcessor`, `Distribution::from_logits`, and the two ways to draw.
A logit is an integer and its weight a power of two, zero where `exp`
underflows. **`SpeculativeLaw`** is a round of the MTP generator made of both;
`Law` there states the intended law without counters, rankings or cuts.
Rounding of `f64` is not modelled.

**`Kernels`** is `gpu.rs`: `Accepts`, `Sizes` and `Threads` are
`dispatch_layout`; `Shader`, `ActualThreads` and `Encodes` are `encode_inner`.
**`Shaders`** gives for each shader the units that run independently and the
elements each one touches, sums and loads as vectors. **`Model`** is
`ModelConfig::validate`, the checks of `Engine::load`, and the length of every
buffer. **`Commands`** is the list of dispatches of a forward, a block and a
commit, with buffers, byte offsets and parameters; what both paths do to one
token is stated once. **`Contents`** says what a dispatch leaves: a value is
named by quantity, layer and token history, and is `Stale` unless every view
read holds exactly the right one. **`Graph`** composes them: `Encode` builds
the list, `Finish` and `FinishFails` run it, and the histories found in the
buffers are the variables of `Engine` (`E`), so that wrong offsets, strides,
orders, copies or kernels show as `Garbage` there.

**`DrafterLog`** and **`Mtp`**: the drafter's promise and its code. Truncate
and reset move only `position`; a slot records the input it was projected from
and the position its key was rotated for. A failed output check resets.

**`Server`**: a request is a client slot. `Submit` is the part of
`completions` up to `try_send`, `FirstEvent` the wait for `Ready`,
`StreamEvent` and `CollectEvent` one turn of the two response loops,
`Disconnect` the drop of the handler with its guard and receiver. The worker's
`recv` loop is cut at each blocking send and each look at the cancel flag.
`EncoderFails` is an error of `ChunkEncoder::event`, `Panic` one in the engine.
`made` counts the deltas made; the content of text is `OutputProcessor`'s
subject.

**`OutputProcessor`** over **`Markers`**: `StopFilter`, `ToolOutputParser` and
`ReasoningSplitter` chained as in `push` and `finish`, over sequences of
symbols. `Drain` is the parser's loop, `DrainTurn` one turn of it: `CallTurn`,
`ThinkTurn` or `TextTurn`, by where the parser is; a turn that changes nothing is
the loop at rest. `CallEnd` finds where a call ends in its two forms, JSON and
XML, and `ValidBody` says whether what it cut out parses: the code reads a body
twice (`JsonMode`, `XmlMode` say where a text leaves a reader), and the two
readings have to agree on what is data. An answer whose parser failed ends where
it is, without a flush. `Chunks` and `Follows` bound the texts explored.

**`Request`** over **`ToolConfig`**: `Read` is one turn of the loop of
`messages`, with its checks in `Readable`; `EndOfMessages` the checks behind
it; `Options` the rest of `parse`. `NextRequest` starts over. The numbers of
messages, of calls in one and of tools are bounds, arbitrary in the proofs.

**`Profiler`**: `Begin`, `Encode`, `EncodeFailed`, `EncodeRefused`,
`EndEncoding`, `Finish` and `FinishFailed` are a frame of `Gpu`; `Report` is
`report()`. `ran`, `frame` and `report` are history for the properties.

**`Safetensors`**: `ReadEntry` is one turn of the loop over the header, with its
checks in `EntryFits`, `Finish` the check that the sorted ranges tile the data;
arithmetic is on `0..MaxUsize` and checked as in the code, dimension by
dimension. **`Checkpoint`**: `ReadShard` is one
turn over the shard files, `Open` what follows.

Definitions commented *Mutated form* are faults of the kind a change of the
code could bring; each property is shown to reject at least one of them.
`PROJECT.json` names them and maps every definition to the lines it models.

## Runs

| Run | Question | Bounds, and why they are enough |
|---|---|---|
| `engine` | do the buffers hold one token log, through blocks, commits, failures, schedules? | `Context` 3, `MaxBlock` 3, two tokens: a block can be full, partial and rejected after a non-empty log, slots are overwritten with different tokens, the capacity is met by forward and by block |
| `drafter` | is a stale or torn slot ever attended to? | four slots, three inputs: a rejected suffix of two is overwritten partly or wholly |
| `chat_engine` | does the cache ever belong to another conversation or lag the engine? | prompts of one to four tokens over two letters and an end token, limits 1, 2, 4, context 7: prompts extend, repeat, shorten and leave each other and the cached answers; the law differs with history and output |
| `mtp_chat` | do rounds keep both models aligned and the output that of plain decoding? | blocks of four, limits 1, 4, 6, prompts up to five, context 9: rounds of width 1 to 4, a prefill of two chunks, rejection at each place, the limit and the end of context inside a round |
| `speculative` | does a round emit by the target's law, under every setting, and do both samplers draw by it? | three tokens, up to two emitted and two drafts; neutral, biased and penalised options; greedy, top-k and top-p; rows with ties and an underflowing weight: laws that cross, contain and miss each other |
| `graph` | does every loaded model encode, stay in bounds, and compute what `Engine` says? | sixteen pairs of a small model and a device, see below; two commands where the second depends on the first, otherwise one |
| `server` | is every stream well-formed and complete, does every request end and the worker come back? | two clients, three kinds (stream with usage, streamed JSON, collected), queue of one, channels of one, two deltas: queue and channels fill, and one client's job waits behind the other's. Safety and liveness are asked of one run, without symmetry |
| `output` | do cuts show beyond nested stops, do stops leak, are calls whole? | every text of six symbols without tools in chunks of one or two, with stop sequences apart and one inside another, and of eight with tools symbol by symbol: markers of two and three symbols share prefixes, a frame of seven fits with one to spare; and texts of fourteen that begin with a JSON or XML call, of quotes, escapes, tags of two parameters and closing markers: the shortest ones where a whole closing sequence stands inside a string or a value |
| `requests` | does the scan accept exactly the well-formed histories, and do the views of the tools agree? | five messages, two calls each, two ids, two functions: two calls, results in both orders, and one message after |
| `profiler` | is a report ever of anything but the last, completed frame, and does a second one agree? | two dispatches (the capacity), durations missing, one or two ticks, four clock values |
| `safetensors` | are exactly the tiled files accepted, and slices inside? | three-bit `usize`, every header of three entries over files of up to seven bytes |
| `checkpoint` | are exactly the consistent checkpoints opened, and norms treated alike? | two shards of two tensors, two namespaces, two convolutions and a norm |

Runs without deadlock check are of algorithms that end: `speculative` (one
token is emitted), `output` (an answer is finished), `safetensors` and
`checkpoint` (a file is read), or of models that may not load or whose number
of commands is bounded (`graph`). In all other runs TLC also checks that the
system never stops.

`graph` scales the constants of the shaders down with the models: SIMD groups
of 8 lanes for 32, tiles of 32 columns for 512, groups of 8, 16 and 32 weights
for 32, 64 and 128, the long-history shader from 2 tokens and the parallel
norm from 9 elements on, and indices up to 4095 for `u32`. The ratios that the
code relies on are kept. The scenarios are chosen so that every shader runs,
with whole and partial tiles: sizes that are multiples of nothing, two
DeltaNet layers, f16, affine and bf16-compacted matrices, the three matvec
variants, shared, legacy and two-row block schedules, key heads too wide for
the batched recurrence, models without block kernels, models whose products
overflow an index, and four that must not load. Blocks of one to four tokens
start at any position of a context of four. The first layer is a DeltaNet one
(an interval of at least two) and the convolution has at least two taps.
Scratch is forgotten between commands, so that nothing may depend on it.
`CallsAccepted` leaves out models with three products that `Engine::load` does
not check and the dispatches do; with those a model loads and fails at its
first token, with an error.

The type invariants of `Engine` and `Mtp` are proved and not run. `SYMMETRY` is
used over tokens, ids and clients where no definition tells them apart, and
never in a run of a liveness property.

`StopNeverLeaks` is about the text read so far: a stop sequence that begins
earlier in the text but ends later than another is not there yet when the other is
met. Where sequences are nested, the filter cuts at the first place of those that
are whole at the end of a chunk, so the cuts show: with `k/k` and `/`, the text
`k/k` in one chunk shows nothing, and cut behind the slash it shows `k`. The
engine ends at a stop, so an answer is only ever one of the two, and no document
of the repository promises which. `ChunkingIrrelevant` therefore compares twice. For
all stop sequences, the answer is that of the text read up to the end of the chunk
that met a stop. For those of which none lies inside another and ends before it
(`Unnested`), it is also that of the text with anything behind it that may follow.
The run has options of both kinds; without `Unnested`, TLC finds the text above
in one step.

`SumsComplete` is about sums that are shared by tiles, packed words, registers or
vectors: the matrix shaders, `delta_step_block` and `rms_norm_parallel` (`Shares`).
The other reductions are not in it: those of `rms_norm`, softmax, `head_rms`,
`gated_rms`, `delta_norm`, `delta_step` and `attn_scores`, and the partitions of the
history in `attn_values_parallel`. There each lane starts at its own number and
steps by the number of lanes, which a model of it would only repeat; what they
read and write as a whole is in `Touch`.

## Fairness

`FairSpec` of `Server` assumes weak fairness of the worker as a whole and of
each handler. The worker is a thread that the operating system runs; its
blocking send is enabled only while there is room or the receiver is gone, so
the assumption does not force progress past a full channel. A handler is a
task that Tokio polls when an event arrives; reading events further presumes
that a connected client takes the bytes, which is the assumption that a client
keeps reading or disconnects. Without it one client that does neither holds
the worker for good, as `blocking_send` has no timeout; nothing in the code
guards against that, and the properties do not claim it. Clients need
not send, leave or come back, and the engine need not panic.
`EngineEnds` is part of the worker: generation is bounded by `max_tokens`.

The other modules state safety only; their callers are sequential.

## Proofs

TLAPS checks the theorems below for every value of the constants that
satisfies the assumption of the module: positive capacities, an invalid token
that is not in the vocabulary, `Garbage` that is not a history, lead tokens
that are no end tokens, nonempty prompts (`LanguageAssumption`), a finite set of
names (`CheckpointAssumption`), an order of the vocabulary (`LawAssumption`),
markers that do not overlap (`MarkersAssumption`), and so on. Each safety theorem
rests on an inductive invariant, with one lemma per action or group of actions.
TLC found each to hold on the instance of the run before it was proved, but for
those that range over all values and not over a set.

| Module | Proved of `Spec` |
|---|---|
| `EngineProofs` | the invariants and the action property of `Engine`; it implements `TargetLog` |
| `DraftingProofs` | of `Mtp`: types, `VisibleSlots`, it implements `DrafterLog`; of `SpeculativeLaw`: `LawPreserved`, `RejectionHasCorrection`, `SamplersFollowLaw` |
| `AnswerProofs` | of `ChatEngine`: `CacheCoherent`, `CacheIsThisConversation`, `CompletedAnswerIsCached`, it implements `Generation`; of `OutputProcessor`: `StopNeverLeaks`, `ReasoningThenAnswer`, `ChunkingIrrelevant`, `CallsAreFrames` |
| `MtpChatProofs` | `ModelsAligned`, `RoundsHaveRoom`; it implements `Generation` |
| `ServerProofs` | of `Server`: types and the place of the worker, `StreamGrammar`, `NothingLost`, `JsonHeldBack`; of `Request`: `ScanIsExact`, `ToolsFit` |
| `ProfilerProofs` | `ReportDescribesFrame`, `ReportsAgree`, `NextFrameAccepted` |
| `CheckpointProofs` | of `Checkpoint`: `OpenIsExact`, `NormsAgree`; of `Safetensors`: `SlicesInsideMapping`, `AcceptedArePartitioned` |
| `LanguageProofs` | the lemmas on sequences and text that both generators need, and those of `Markers` on searching a text |

*Engine.* The invariant of the runs is not inductive part by part: that the KV
slots stay coherent after a commit needs the snapshots, and what a block
leaves in the snapshots needs both buffers coherent before it. The inductive
invariant is

    IInv == TypeOK /\ RecurrentCoherent /\ AttentionCoherent /\ PrefixRestorable

In a state that satisfies the first three parts the live history is `state`
(`CoherentLive`), so `After(ts, k)` is that history extended by `k` tokens
(`AfterValue`) and never `Garbage`. From this follow absorbing
(`AbsorbKeepsCoherence`), the contents of the snapshots
(`SnapshotsArePrefixes`), and the value of a commit (`CommitValue`); a failure
ends in a reset, for which nothing about slots and snapshots is needed but
their type (`ResetKeepsInv`). For `EngineImplementsLog` each action is matched
with one of `TargetLog`: calls that absorb with `Absorb`, a verified block with
`Propose`, a commit with `Accept`, resets and failures with `Forget`, refusals
with `Refuse`.

*Drafter.* `TypeOK /\ VisibleSlots` is inductive: an append writes the one slot
that becomes visible (`AppendVisible`), truncation only hides. A forward then
attends to exactly the inputs appended (`AttendsToLog`), which gives the
refinement of `DrafterLog`. `ChatEngine` and `MtpChat` are built on the two
logs and not on the buffers; the two refinements are what justifies it.

*Laws.* The way to `LawPreserved` is from sums to rounds. A sum over a finite set
is a fold; that it exists, is unique and can be split is an induction over the
set (`SumExists`, `SumWithout`). Ranking by weight is a bijection with the places
of a list (`RankBijection`), so what top-k and top-p keep is a beginning of that
list (`CutProperties`), and `from_logits` is `LawOf`, which knows neither lists nor
cuts (`FromLogitsIsLaw`). `Scaled` brings two laws to one total (`ScaledTotals`);
then what a draft is accepted with and what a rejection hands back add up to the
target's weight (`AcceptOrCorrect`), token by token. The counters of
`LogitProcessor` are those of the text before a row (`ProcessorAt`): recording
a token moves them on by one place (`RecordAt`), and the rows of a block are
adjusted for the drafts before them (`BlockIsAdjusted`). `LawInv` says of each
draft that its recorded law is that of its row, and of each row which text it is
adjusted for. `SamplersFollowLaw` numbers the units of weight: both samplers pick
a token for as many of the numbers as its law gives it (`SamplerPasses`,
`DistributionPasses`). Vocabulary, rows, options and limits are arbitrary.

*Text.* `Decode` flattens pieces with a fold of the community modules, whose
value for sequences of every length takes an induction. The library's
induction rules have an operator as parameter, so `LanguageProofs` states
induction over a set of numbers (`Induction`, from the well-foundedness of
`Nat`) and derives from it that the fold exists, is unique and splits
(`FlattenIsJoin`, `FlattenSplit`). What the generators need is `TextGrows`: the
text of a prefix that ends a character is a prefix of the text.

*Chat engine.* `CacheCoherent` alone is not inductive: that the cached row is
the log's needs where the log stands in each phase (`LogPlace`: inside the
prompt, after all that was emitted, or all but its last token), and the
refinement needs `Budget` (no end token before the end, room while tokens are to
come) and `TextPlace`: what the callback was given is always the text of some
prefix that ends a character. `KeepsPromise` maps each step to a draw or an
ending of `Generation`, or to a stutter.

*MTP chat engine.* A round establishes facts about tokens that are not pushed
yet, and pushing changes `emitted` one token at a time. The invariant therefore
speaks of `Talk`, the conversation with the tokens still queued, which pushing
leaves as it is. `DrafterPlace` says in each phase how far the drafter is and
that its slots up to there are `Aligned` with `Talk`, joined with rows of that
history; `RoundPlace` what rows and drafts are, before and after the verdict;
`Drawn` that each queued token is in the support of the target's law where it
stands. The theorems carry two hypotheses on the operators `Law` and
`DraftLaw`, which no `ASSUME` could give TLC to evaluate as they range over all
histories. `LawsAreWeights`: a law gives every token a natural number, which
`Distribution::from_logits` ensures by refusing an empty or non-finite row.
`LawsShareTotal`, only for `ThereIsRoom`: the vocabulary is finite and a
target's and a drafter's law have as many units of weight, which stands for
both being normalised to one. That a rejection then always leaves a correction
(`SomewhereAbove`) is a count of those units.

*Server.* Per request, what its client was sent, what is in its channel and what
the worker has in hand are one text (`Said`): an event that moves from one to
the next leaves it as it is (`MoveEvent`), and only the worker's `on_text` and
`Conclude` make it longer. `WellSaid` says what stands at which place of it. The
invariant is `TypeOK /\ WorkerPlace` and, for each request, where its handler
is (`PlaceOf`), that nothing is said to one that waits (`WaitingOf`), the text
(`TellingOf`, with as many deltas as were made while it is served, `ProgressOf`),
that JSON is held back (`QuietOf`), finish reasons (`ToldOf`), and for an ended
stream the properties themselves (`ClosedOf`). An action of one request leaves
the others' parts alone (`Others`), so the proof goes request by request. The
clients, the capacities and the number of deltas are arbitrary.

*Requests.* The scan knows two sets of ids. `Kept` says what they are: the ids of
all calls, and of those without a result; and that what was read is an orderly
beginning, said of the messages alone. One message more keeps the whole orderly
exactly when the scan's checks let it pass (`ReadableIsOrderly`), and a refused
one leaves no orderly request whatever follows. For `ToolsFit`, a choice that
names a function leaves that one alone (`NamedOnlyNames`).

*Output.* Three inductions over the text. A stop filter holds the longest end of
the text that may still become a stop sequence: pushing a piece to what is held
finds what pushing it to the whole text finds, so the filter has let through the
text up to the first stop sequence, or up to what is held (`StopInv`). The
splitter does the same with one marker; pushing two pieces is pushing their
concatenation (`SplitTwice`), so routing any list of events is splitting one text
(`PlainInv`, for `ReasoningThenAnswer`). For the parser the unit is a turn of its
loop. With more text behind it, a turn does the same as without, or it ends at a
marker that was not whole (`TurnMore`); every turn that is not at rest takes a
marker out, so as many turns as there are symbols bring it to rest
(`DrainRests`), and pushing two pieces one after the other comes to rest where
their concatenation does (`DrainMore`). The events given out in between are
routed at once in one case and all together in the other; `Twins` are the states
which differ by that alone, and turns keep them twins. So what was read is a
function of the visible text (`ReadInv`). That gives `ChunkingIrrelevant` for the
text read, with all stop sequences and options. For longer texts the visible part
must not change: a stop sequence that stood earlier in a longer text would have to
reach over the one that was met, and that would lie inside it (`MetForGood`), which
`Unnested` excludes. From `MarkersAssumption` the proof takes that the two opening
markers do not overlap.

`CallsAreFrames` then is about one reading of the visible text. What a turn may
do is one of six things (`TurnDoes`), and what these keep the loop keeps
(`DrainStays`): the calls routed so far are frames, as many as the parser counted
(`Counted`), and while none was, what was given out has no opening marker behind
the reasoning (`Clean`). A call ends outside strings and parameters
(`EndIsOutside`), so one whose closing markers are all data stays open whatever
part of it was read (`QuotedReads`). An answer that fails keeps the reply of a
first part of its text (`FailInv`).

*Profiler.* `ran` records what the GPU did; the profiler knows two counts and the
status of a command. `FrameRan` says that these suffice: once the samples are
resolved, the command has completed and no frame is open, then `ran` is the
entries with the durations in the buffer. `CommandsRan` is the same in commands
mode, where each dispatch has run when it becomes an entry. `ClocksOfFrame` is
about the clocks, and `ReportOK` fixes the one report that a frame can have.

*Checkpoint.* The loader keeps a set of names, a map from canonical names and one
layout of the shards read so far (`Gathered`). `ChecksDecide` says that with
these the checks on one more shard are passed exactly when the shards with it
still agree with the index and with each other (`Agreed`), and a refusal is
final since no further shard repairs a disagreement.

*Safetensors.* Products that are checked at every dimension are exact or refused,
since no dimension is zero (`LengthIsExact`). Ranges sorted by their start
tile the data, by the scan that compares each with the end of the one before, if
and only if each byte of the data is in exactly one range. `FileInv` adds that
every slice was cut as its entry says; lengths, `usize` and the number of
entries are arbitrary.

Model-checked only, and why:

* `EveryRequestEnds` and `WorkerComesBack`: fairness and ENABLED are beyond the
  prover.
* `Graph` with `Kernels`, `Shaders`, `Commands` and `Contents`: concrete
  products and divisions over lists of dispatches, and its refinement
  `ImplementsEngine`.

## What is not modelled

* Numbers: what a shader computes from the elements it reads, the order in
  which it sums, quantization, and rounding. A value is named by what it was
  computed from; so a NaN in a row of logits, which is cached and found only
  when it is sampled, is not seen.
* Memory budgets, compilation of the pipelines, and the drafter's commands at
  the level of dispatches (they use the same kernels and helpers).
* Inside a call body: white space, values of XML parameters and their types, and
  all of JSON but strings and escapes; `ValidJson` says whether a JSON body
  parses and passes its schema. A tag of an XML body is one symbol, so a tag cut
  in two is not a case of its own. A symbol of the small alphabet plays several
  roles at once.
* JSON: duplicate keys and types of values in requests, headers and indexes.
  An entry of a header is one name; a message has the shape the parser gave it.
* The order in which shards are read: the code sorts them; the model allows any
  order, which is more.
* Rendering of prompts, tokenizing, command line, printing, benchmark
  statistics, scripts and examples.

## Plan

Done, in this order: the engine and its log with their proofs; the chat engine;
the verifier and the MTP chat engine; the server; the output pipeline; the
drafter with its proofs; profiler, requests and loader; kernels, shaders and
the engine down to its dispatches; sampling.

The proofs of the chat engines, the server, the profiler, the loader, requests,
the laws of a round and the output pipeline followed.

Next in proofs: of `Kernels`, that for every size launched SIMD groups cover all
rows, and that `OutputsDisjoint` rules out what `RangesOverlap` calls an overlap.

Next in modelling: decoding of matrices and quantization overrides in
`Checkpoint`; the schedules of `mtp_benchmark.rs`.
