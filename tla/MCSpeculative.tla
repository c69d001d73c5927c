--------------------------- MODULE MCSpeculative ---------------------------
EXTENDS SpeculativeLaw, TLC

Option(f, p, bias) ==
  [frequency_penalty |-> f, presence_penalty |-> p, logit_bias |-> bias]
NoBias == [t \in {} |-> 0]

\* Neutral; a bias alone, zero for one token; each penalty; both with a bias;
\* and two that are refused.
MCOptions ==
  { Option(0, 0, NoBias), Option(0, 0, 2 :> 2 @@ 1 :> 0),
    Option(1, 0, NoBias), Option(-1, 2, 0 :> -1),
    Option(3, 0, NoBias), Option(0, 0, 3 :> 1) }

Config(t, p, k) == [temperature |-> t, top_p |-> p, top_k |-> k]

MCConfigs ==
  { Config(0, <<1, 1>>, 0), Config(1, <<1, 1>>, 0), Config(2, <<3, 4>>, 0),
    Config(1, <<4, 5>>, 2), Config(2, <<1, 2>>, 9) }

\* A tie, a far last, and a drafter that agrees or does not.
Row(a, b, c) == (0 :> a) @@ (1 :> b) @@ (2 :> c)
MCRows      == {Row(1, 0, 1), Row(2, -2, 1)}
MCDraftRows == {Row(0, 0, 1), Row(-2, 1, 0)}
=============================================================================
