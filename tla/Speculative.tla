---------------------------- MODULE Speculative ----------------------------
(***************************************************************************)
(* The accept-or-correct rule of speculative decoding.  The laws compared  *)
(* have one total, so a weight stands for a probability.                   *)
(***************************************************************************)
EXTENDS Distributions

Smaller(a, b) == IF a < b THEN a ELSE b

\* The mass with which t is drafted from q and then accepted, since
\* q * min(1, p / q) is the smaller of p and q.
AcceptMass(p, q, t) == Smaller(p[t], q[t])

\* (Mutated form: a draw equal to the target's weight rejects.)
RejectAtTie(p, q, t) ==
  IF p[t] <= q[t] /\ q[t] > 0 THEN q[t] - p[t] + 1 ELSE 0

RejectMass(p, q, t) == q[t] - AcceptMass(p, q, t)

\* (Mutated form: a rejected draft is replaced by a plain target sample.)
ResidualIsTarget(p, q) == p

\* What a rejection draws from: the part of p that q does not cover.
Residual(p, q) == [t \in Vocab |-> IF p[t] > q[t] THEN p[t] - q[t] ELSE 0]

\* The anchor and the accepted drafts are consumed; t is not yet.
Outcome(drafts, k, t) ==
  [accepted |-> k, consumed |-> k + 1,
   tokens   |-> Append(SubSeq(drafts, 1, k), t)]

\* Every result of verify for drafts drawn from the laws qs, against the
\* target laws ps, one longer: the first k drafts accepted, then a
\* correction or, when none was rejected, a bonus token.
Verified(drafts, qs, ps) ==
  LET n == Len(drafts)
      Reached == {k \in 0..n :
                   /\ \A i \in 1..k : AcceptMass(ps[i], qs[i], drafts[i]) > 0
                   /\ k < n => RejectMass(ps[k + 1], qs[k + 1], drafts[k + 1]) > 0}
      FinalLaw(k) == IF k < n THEN Residual(ps[k + 1], qs[k + 1]) ELSE ps[n + 1]
  IN  UNION {{Outcome(drafts, k, t) : t \in Support(FinalLaw(k))} : k \in Reached}
=============================================================================
