------------------------------ MODULE Language ------------------------------
(***************************************************************************)
(* What the generators share: the vocabulary, the model's law, and how the *)
(* tokenizer turns tokens into text.  The law and the tokenizer are        *)
(* parameters: nothing here depends on what the model would say.           *)
(***************************************************************************)
EXTENDS Distributions, SequencesExt

CONSTANTS Eos,         \* end-of-sequence ids
          Lead,        \* tokens that end inside a character
          Replacement, \* the character U+FFFD
          Prompts,     \* encoded prompts
          Limits,      \* values of max_tokens
          Law(_, _)    \* Law(h, seen): weights of the token that follows the
                       \* history h, penalised for the emitted tokens seen

ASSUME LanguageAssumption ==
  /\ Eos \subseteq Vocab
  /\ Lead \subseteq Vocab \ Eos
  /\ \A p \in Prompts : p \in Seq(Vocab) /\ p # <<>>
  /\ Limits \subseteq Nat \ {0}

NoRequest == [prompt |-> <<>>, limit |-> 0]
NoResult  == [finish |-> "none", text |-> <<>>]
Requests  == [prompt : Prompts, limit : Limits]
Failure   == [finish |-> "error", text |-> <<>>]

\* Completion tokens that carry text: an EOS ends the completion unseen.
TextTokens(ts) == IF ts # <<>> /\ Last(ts) \in Eos THEN Front(ts) ELSE ts

\* A Lead token joins the token that follows it into one character, and
\* shows as U+FFFD when none does.
Piece(ts, i) ==
  LET dangles == i = Len(ts) \/ ts[i + 1] \in Lead
      joins   == i > 1 /\ ts[i - 1] \in Lead
  IN  IF ts[i] \in Lead
      THEN IF dangles THEN <<Replacement>> ELSE <<>>
      ELSE IF joins THEN << <<ts[i - 1], ts[i]>> >> ELSE << <<ts[i]>> >>

Decode(ts) == FlattenSeq([i \in 1..Len(ts) |-> Piece(ts, i)])

\* Text that ends in U+FFFD is held back until more tokens arrive.
Partial(text) == text # <<>> /\ Last(text) = Replacement
=============================================================================
