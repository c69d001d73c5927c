----------------------------- MODULE DrafterLog -----------------------------
(***************************************************************************)
(* What the drafter promises, free of buffers: it holds the inputs (a      *)
(* token with the hidden vector that precedes it) it was given and not     *)
(* asked to drop, in order.  answer is the inputs the last output was      *)
(* computed from; it is empty when the call returned none.                 *)
(***************************************************************************)
EXTENDS Naturals, Sequences

CONSTANTS Inputs,     \* valid pairs of a token and a hidden vector
          Context     \* the most inputs the drafter may hold

VARIABLES cache, answer

logVars == <<cache, answer>>

Init == cache = <<>> /\ answer = <<>>

\* An input is taken in; the answer, when one is asked for, attends to all
\* the inputs held and to this one.
Append1(x) ==
  /\ Len(cache) < Context
  /\ cache' = Append(cache, x)
  /\ answer' \in {<<>>, cache'}

\* Truncating keeps the first n inputs, and no trace of the others.
Keep(n) ==
  /\ n <= Len(cache)
  /\ cache' = SubSeq(cache, 1, n)
  /\ answer' = <<>>

\* A reset, asked for or after a failure.
Forget == cache' = <<>> /\ answer' = <<>>

\* A refused call changes nothing.
Refuse == answer' = <<>> /\ UNCHANGED cache

Next ==
  \/ \E x \in Inputs : Append1(x)
  \/ \E n \in 0..Context : Keep(n)
  \/ Forget
  \/ Refuse

Spec == Init /\ [][Next]_logVars
=============================================================================
