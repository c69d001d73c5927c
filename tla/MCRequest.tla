----------------------------- MODULE MCRequest -----------------------------
(***************************************************************************)
(* Two ids, and five messages: a message with two calls, their results in  *)
(* either order, and what may or may not follow them.                      *)
(***************************************************************************)
EXTENDS Request, TLC

Symmetry == Permutations(Ids)
=============================================================================
