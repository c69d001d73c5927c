------------------------------ MODULE Sampling ------------------------------
(***************************************************************************)
(* From a row of logits to a token: the request's biases and penalties,    *)
(* temperature, top-k, top-p, and the draw, which the code has twice - in  *)
(* Distribution for the MTP generator and in Sampler::sample for the plain *)
(* one.                                                                    *)
(*                                                                         *)
(* Logits are integers and tokens are numbered.  At temperature one a      *)
(* logit is worth a factor of four, at two a factor of two, so weights are *)
(* integers; more than Depth halvings below the best token, exp underflows *)
(* and the weight is zero.  A uniform number is u / Levels.                *)
(***************************************************************************)
EXTENDS Distributions, FiniteSetsExt, Functions

CONSTANTS
  Depth,   \* halvings until a weight underflows
  Levels   \* uniform numbers there are

ASSUME SamplingAssumption ==
  /\ Vocab \subseteq Nat /\ Vocab # {} /\ IsFiniteSet(Vocab)
  /\ Depth \in Nat /\ Levels \in Nat \ {0}

----------------------------------------------------------------------------
\* SamplingOptions and LogitProcessor.

ValidOptions(o) ==
  /\ o.frequency_penalty \in -2..2 /\ o.presence_penalty \in -2..2
  /\ DOMAIN o.logit_bias \subseteq Vocab
  /\ \A t \in DOMAIN o.logit_bias : o.logit_bias[t] \in -100..100

NewProcessor(o) ==
  [options |-> [o EXCEPT !.logit_bias =
                  Restrict(@, {t \in DOMAIN @ : @[t] # 0})],
   counts  |-> [t \in {} |-> 0],
   has_penalties |-> o.frequency_penalty # 0 \/ o.presence_penalty # 0]

\* (Mutated form: a bias alone does not count.)
ActiveIfPenalised(pr) == pr.has_penalties

IsActive(pr) == pr.has_penalties \/ DOMAIN pr.options.logit_bias # {}

\* process and process_in_place.  (Leaving early without counts and biases
\* changes nothing.)
Process(pr, row) ==
  [t \in Vocab |->
     row[t]
     + (IF t \in DOMAIN pr.options.logit_bias THEN pr.options.logit_bias[t] ELSE 0)
     - (IF t \in DOMAIN pr.counts
        THEN pr.options.frequency_penalty * pr.counts[t]
               + pr.options.presence_penalty
        ELSE 0)]

Record(pr, t) ==
  IF ~pr.has_penalties THEN pr
  ELSE [pr EXCEPT !.counts =
          [u \in DOMAIN @ \cup {t} |->
             (IF u \in DOMAIN @ THEN @[u] ELSE 0) + (IF u = t THEN 1 ELSE 0)]]

RecordAll(pr, ts) ==
  LET after[i \in 0..Len(ts)] == IF i = 0 THEN pr ELSE Record(after[i - 1], ts[i])
  IN after[Len(ts)]

\* (Mutated form: a row is adjusted after its own draft is recorded.)
ProcessBlockLate(pr, drafts, rows) ==
  [i \in DOMAIN rows |->
     Process(RecordAll(pr, SubSeq(drafts, 1, IF i < Len(rows) THEN i ELSE i - 1)),
             rows[i])]

\* Row i has seen the drafts before it, hypothetically.
ProcessBlock(pr, drafts, rows) ==
  IF ~IsActive(pr) THEN rows
  ELSE [i \in DOMAIN rows |->
          Process(RecordAll(pr, SubSeq(drafts, 1, i - 1)), rows[i])]

----------------------------------------------------------------------------
\* Ranking, top-k, weights and nucleus, as both samplers compute them.

Ahead(row, a, b) == row[a] > row[b] \/ (row[a] = row[b] /\ a < b)

Ranked(row) ==
  [i \in 1..Cardinality(Vocab) |->
     CHOOSE t \in Vocab : Cardinality({u \in Vocab : Ahead(row, u, t)}) = i - 1]

Kept(config) ==
  LET n == Cardinality(Vocab)
  IN IF config.top_k = 0 \/ config.top_k > n THEN n ELSE config.top_k

PowerOfTwo[n \in 0..Depth] == IF n = 0 THEN 1 ELSE 2 * PowerOfTwo[n - 1]

Weight(config, below) ==
  LET halvings == (2 * below) \div config.temperature
  IN IF halvings > Depth THEN 0 ELSE PowerOfTwo[Depth - halvings]

\* The weights of the kept tokens, in their order.
Weights(row, ranked, config) ==
  [i \in 1..Kept(config) |-> Weight(config, row[ranked[1]] - row[ranked[i]])]

SumTo(weights, i) == SumFunctionOnSet(weights, 1..i)

\* (Mutated form: the token that reaches top_p is left out.)
NucleusBefore(weights, config) ==
  LET n == Len(weights)
      reached == {i \in 1..n : SumTo(weights, i) * config.top_p[2]
                                 > SumTo(weights, n) * config.top_p[1]}
  IN IF reached = {} THEN n ELSE Min(reached)

\* The shortest prefix with a share of top_p[1] / top_p[2] of the kept mass.
Nucleus(weights, config) ==
  LET n == Len(weights)
      reached == {i \in 1..n : SumTo(weights, i) * config.top_p[2]
                                 >= SumTo(weights, n) * config.top_p[1]}
  IN IF reached = {} THEN n ELSE Min(reached)

\* Those of the first i tokens that have a weight, in their order.
Positive(ranked, weights, i) ==
  LET support[k \in 0..i] ==
        IF k = 0 THEN <<>>
        ELSE IF weights[k] > 0 THEN Append(support[k - 1], ranked[k])
        ELSE support[k - 1]
  IN support[i]

----------------------------------------------------------------------------
\* Distribution: weights of all tokens, the support in order, and the total.

FromLogits(row, config) ==
  LET ranked  == Ranked(row)
      weights == Weights(row, ranked, config)
      nucleus == Nucleus(weights, config)
      kept    == [i \in 1..nucleus |-> ranked[i]]
  IN IF config.temperature = 0
     THEN [weights |-> [t \in Vocab |-> IF t = ranked[1] THEN 1 ELSE 0],
           order |-> <<ranked[1]>>, total |-> 1]
     ELSE [weights |-> [t \in Vocab |->
                          IF t \in Range(kept) THEN weights[AntiFunction(kept)[t]]
                          ELSE 0],
           order |-> Positive(ranked, weights, nucleus),
           total |-> SumTo(weights, nucleus)]

\* (Mutated form: the first token whose share is not below the threshold.)
DistributionSampleTies(d, u) ==
  LET mass == [i \in DOMAIN d.order |-> d.weights[d.order[i]]]
      past == {i \in DOMAIN d.order : u * d.total <= SumTo(mass, i) * Levels}
  IN d.order[Min(past)]

\* Distribution::sample
DistributionSample(d, u) ==
  LET mass == [i \in DOMAIN d.order |-> d.weights[d.order[i]]]
      past == {i \in DOMAIN d.order : u * d.total < SumTo(mass, i) * Levels}
  IN IF Len(d.order) = 1 \/ past = {} THEN d.order[Len(d.order)]
     ELSE d.order[Min(past)]

\* Sampler::sample
SamplerSample(row, config, u) ==
  LET ranked  == Ranked(row)
      weights == Weights(row, ranked, config)
      nucleus == Nucleus(weights, config)
      past    == {i \in 1..nucleus :
                    u * SumTo(weights, nucleus) < SumTo(weights, i) * Levels}
  IN IF config.temperature = 0 THEN ranked[1]
     ELSE IF past = {} THEN ranked[nucleus]
     ELSE ranked[Min(past)]
=============================================================================
