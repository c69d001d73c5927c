----------------------------- MODULE MCMtpChat -----------------------------
(* The target's law and the drafter's differ, agree in part and agree fully, *)
(* depending on the history, so that drafts are accepted, rejected and       *)
(* corrected at every place of a block.                                      *)
EXTENDS MtpChat

CONSTANTS w, l, e

MCPrompts == {<<w>>, <<w, l>>, <<l, w, w>>, <<w, w, w, l>>, <<w, l, w, w, l>>}

Count(s, t) == Len(SelectSeq(s, LAMBDA u : u = t))

\* Weights of a law, in the order w, l, e.
Weights(a, b, c) == [t \in Vocab |-> IF t = w THEN a ELSE IF t = l THEN b ELSE c]

MCLaw(h, out) ==
  CASE (Len(h) + Count(out, l)) % 4 = 0 -> Weights(2, 2, 0)
    [] (Len(h) + Count(out, l)) % 4 = 1 -> Weights(3, 0, 1)
    [] (Len(h) + Count(out, l)) % 4 = 2 -> Weights(0, 4, 0)
    [] (Len(h) + Count(out, l)) % 4 = 3 -> Weights(1, 3, 0)

MCDraftLaw(h, out) ==
  CASE (Len(h) + Count(h, w)) % 4 = 0 -> Weights(0, 3, 1)
    [] (Len(h) + Count(h, w)) % 4 = 1 -> Weights(2, 2, 0)
    [] (Len(h) + Count(h, w)) % 4 = 2 -> Weights(4, 0, 0)
    [] (Len(h) + Count(h, w)) % 4 = 3 -> Weights(3, 1, 0)
=============================================================================
