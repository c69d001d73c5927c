---------------------------- MODULE MCChatEngine ----------------------------
(* Every history has its own law: what may be sampled depends on the length *)
(* and content of the history and on what was emitted, so a stale row or a  *)
(* forgotten penalty shows in the tokens.                                   *)
EXTENDS ChatEngine

CONSTANTS w, l, e

MCPrompts == UNION {[1..n -> {w, l}] : n \in 1..3} \cup {<<w, w, w, w>>, <<w, e, l, w>>}

Occurrences(s, t) == Len(SelectSeq(s, LAMBDA u : u = t))

MCLaw(h, out) ==
  [t \in Vocab |->
     CASE t = w -> IF (Len(h) + Occurrences(h, l)) % 4 = 0 THEN 0 ELSE 2
       [] t = l -> IF Occurrences(out, l) > 1 THEN 0 ELSE 1
       [] t = e -> IF (Len(h) + Occurrences(out, w)) % 2 = 0 THEN 1 ELSE 0]
=============================================================================
