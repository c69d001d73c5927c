--------------------------- MODULE SpeculativeLaw ---------------------------
(***************************************************************************)
(* One round of sampling as MtpChatEngine does it: some tokens are drawn   *)
(* and emitted, drafts are proposed from the drafter's rows, and the block *)
(* is verified against the target's rows - with the penalties of the       *)
(* request applied to both along the way.  Rows are whatever the two       *)
(* models may say.                                                         *)
(***************************************************************************)
EXTENDS Speculative, Sampling

CONSTANTS
  Options,     \* sampling options of a request
  Configs,     \* [temperature, top_p, top_k], top_p as a fraction
  Rows,        \* rows of the target
  DraftRows,   \* rows of the drafter
  MaxEmitted,  \* tokens emitted before the round
  MaxDrafts    \* drafts of the round

\* What validation lets through: whole numbers, and a top_p in (0, 1].
ASSUME LawAssumption ==
  /\ \A o \in Options :
       /\ o \in [frequency_penalty : Int, presence_penalty : Int, logit_bias : {o.logit_bias}]
       /\ o.logit_bias \in [DOMAIN o.logit_bias -> Int]
  /\ \A c \in Configs :
       /\ c \in [temperature : Nat, top_p : Nat \X Nat, top_k : Nat]
       /\ 0 < c.top_p[1] /\ c.top_p[1] <= c.top_p[2]
  /\ Rows \subseteq [Vocab -> Int] /\ DraftRows \subseteq [Vocab -> Int]
  /\ MaxEmitted \in Nat /\ MaxDrafts \in Nat

VARIABLES options, config,
          processor, \* LogitProcessor of the request
          emitted,   \* tokens of the answer
          drafts,    \* proposals, and the distributions they came from
          proposals,
          raw,       \* the target's rows, and what process_block made of them
          rows,
          before     \* tokens emitted before the round

roundVars ==
  <<options, config, processor, emitted, drafts, proposals, raw, rows, before>>

Uniforms == 0..(Levels - 1)

RoundInit ==
  /\ options \in {o \in Options : ValidOptions(o)}
  /\ config \in Configs
  /\ processor = NewProcessor(options)
  /\ emitted = <<>> /\ drafts = <<>> /\ proposals = <<>>
  /\ raw = <<>> /\ rows = <<>> /\ before = <<>>

\* A token drawn from a row of its own: the anchor, or a sequential step.
Emit(row, u) ==
  LET t == DistributionSample(FromLogits(Process(processor, row), config), u) IN
  /\ rows = <<>> /\ drafts = <<>> /\ Len(emitted) < MaxEmitted
  /\ emitted' = Append(emitted, t)
  /\ processor' = Record(processor, t)
  /\ UNCHANGED <<options, config, drafts, proposals, raw, rows, before>>

\* The next draft: a copy of the processor has recorded those before it.
Propose(row, u) ==
  LET seen == RecordAll(processor, drafts)
      law  == FromLogits(Process(seen, row), config) IN
  /\ rows = <<>> /\ emitted # <<>> /\ Len(drafts) < MaxDrafts
  /\ drafts' = Append(drafts, DistributionSample(law, u))
  /\ proposals' = Append(proposals, law)
  /\ UNCHANGED <<options, config, processor, emitted, raw, rows, before>>

\* The weights of two distributions brought to one total.
Scaled(d, e) == [t \in Vocab |-> d.weights[t] * e.total]

TargetOf(row) == FromLogits(row, config)

\* Of the drafts, and of the bonus token after them.
Against(news) ==
  [i \in DOMAIN news |->
     IF i <= Len(drafts) THEN Scaled(TargetOf(news[i]), proposals[i])
     ELSE TargetOf(news[i]).weights]
DraftLaws(news) ==
  [i \in DOMAIN drafts |-> Scaled(proposals[i], TargetOf(news[i]))]

\* (Mutated form: the drafts are recorded, whatever became of them.)
RecordDrafts(tokens) == RecordAll(processor, drafts)

RecordEmitted(tokens) == RecordAll(processor, tokens)

\* The round: process_block, verify, and the tokens it emits.
Verify(news) ==
  LET processed == ProcessBlock(processor, drafts, news) IN
  /\ rows = <<>> /\ emitted # <<>> /\ Len(news) = Len(drafts) + 1
  /\ \E v \in Verified(drafts, DraftLaws(processed), Against(processed)) :
       /\ emitted' = emitted \o v.tokens
       /\ processor' = RecordEmitted(v.tokens)
  /\ raw' = news /\ rows' = processed /\ before' = emitted
  /\ UNCHANGED <<options, config, drafts, proposals>>

RoundNext ==
  \/ \E row \in Rows, u \in Uniforms : Emit(row, u)
  \/ \E row \in DraftRows, u \in Uniforms : Propose(row, u)
  \/ \E news \in UNION {[1..n -> Rows] : n \in 1..(MaxDrafts + 1)} : Verify(news)

RoundSpec == RoundInit /\ [][RoundNext]_roundVars

----------------------------------------------------------------------------
\* The law of a token, without counters, rankings or cuts: the logits are
\* adjusted for every earlier token of the answer, and a token stays when
\* fewer than top_k are ahead of it and those ahead have not yet the share
\* top_p of what top_k leaves.
Occurrences(t, history) == Cardinality({i \in DOMAIN history : history[i] = t})

Adjusted(row, history) ==
  [t \in Vocab |->
     row[t]
     + (IF t \in DOMAIN options.logit_bias THEN options.logit_bias[t] ELSE 0)
     - options.frequency_penalty * Occurrences(t, history)
     - (IF t \in Range(history) THEN options.presence_penalty ELSE 0)]

AheadOf(logit, t) == {u \in Vocab : Ahead(logit, u, t)}

LawOf(logit) ==
  LET top     == CHOOSE t \in Vocab : AheadOf(logit, t) = {}
      kept    == {t \in Vocab :
                    config.top_k > 0 => Cardinality(AheadOf(logit, t)) < config.top_k}
      weight  == [t \in Vocab |-> Weight(config, logit[top] - logit[t])]
      mass(S) == SumFunctionOnSet(weight, S)
      stays(t) == /\ t \in kept
                  /\ mass(AheadOf(logit, t)) * config.top_p[2] < mass(kept) * config.top_p[1]
  IN [t \in Vocab |->
        IF config.temperature = 0 THEN (IF t = top THEN 1 ELSE 0)
        ELSE IF stays(t) THEN weight[t] ELSE 0]

Law(row, history) == LawOf(Adjusted(row, history))

\* Token t has the share n of d in the law.
HasShare(law, t, n, d) == law[t] * d = n * SumFunction(law)

\* A draft that is accepted, or corrected when it is rejected, has exactly
\* the law the target alone gives the token at that place: that of its own
\* row under the request's settings, penalised for the answer so far and the
\* drafts before it - whatever law the draft came from.  So has the bonus.
LawPreserved ==
  \A i \in DOMAIN rows :
    LET target == Law(raw[i], before \o SubSeq(drafts, 1, i - 1))
        p      == Against(rows)[i]
        q      == DraftLaws(rows)[i]
        rest   == Residual(p, q)
        r      == SumFunction(rest)
        lost   == SumFunction([t \in Vocab |-> RejectMass(p, q, t)])
    IN \A t \in Vocab :
         IF i = Len(rows) THEN HasShare(target, t, p[t], SumFunction(p))
         ELSE HasShare(target, t,
                       AcceptMass(p, q, t) * (IF r = 0 THEN 1 ELSE r) + lost * rest[t],
                       SumFunction(p) * (IF r = 0 THEN 1 ELSE r))

\* A draft that can be rejected leaves something to correct it with: the
\* error on an empty residual is never met.
RejectionHasCorrection ==
  \A i \in DOMAIN drafts \cap DOMAIN rows :
    LET p == Against(rows)[i]
        q == DraftLaws(rows)[i]
    IN RejectMass(p, q, drafts[i]) > 0 => Support(Residual(p, q)) # {}

\* The two generators draw alike: at any point of an answer, on any row and
\* for any random number, Sampler::sample and Distribution::sample take the
\* token at which the law's weights, from the likeliest token on, pass that
\* share - though one works with penalties counted per token and both cut
\* and stop early.
SamplersFollowLaw ==
  \A row \in Rows :
    LET adjusted == Process(processor, row)
        drawn    == FromLogits(adjusted, config)
        law      == Law(row, emitted)
        total    == SumFunction(law)
        upTo == [t \in Vocab |->
                   SumFunctionOnSet(law, {v \in Vocab : ~Ahead(adjusted, t, v)})]
        passes(t, u) == /\ u * total < upTo[t] * Levels
                        /\ u * total >= (upTo[t] - law[t]) * Levels
    IN \A u \in Uniforms :
         /\ passes(SamplerSample(adjusted, config, u), u)
         /\ passes(DistributionSample(drawn, u), u)
=============================================================================
