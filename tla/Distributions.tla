--------------------------- MODULE Distributions ---------------------------
(***************************************************************************)
(* A law is a function from tokens to weights, what is left of a row of    *)
(* logits after penalties, temperature, top-k and top-p.  A draw of the    *)
(* random source is a choice among the tokens of positive weight; a law at *)
(* temperature zero has one such token.                                    *)
(***************************************************************************)
EXTENDS Integers, Sequences

CONSTANT Vocab       \* token ids

Support(law) == {t \in Vocab : law[t] > 0}
=============================================================================
