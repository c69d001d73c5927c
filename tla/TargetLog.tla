----------------------------- MODULE TargetLog -----------------------------
(***************************************************************************)
(* What the target engine promises to its callers, free of buffers: a log  *)
(* of the tokens it has absorbed, and at most one proposal, a block of     *)
(* tokens already evaluated whose prefix may still be accepted.  answer is *)
(* what the last call returned: one row per evaluated token, a row being   *)
(* the history of tokens its logits and hidden vector were computed from.  *)
(***************************************************************************)
EXTENDS Naturals, Sequences

CONSTANTS Vocab,      \* the token ids the model knows
          Context,    \* the most tokens the log may hold
          MaxBlock    \* the widest block

VARIABLES log, proposal, answer

logVars == <<log, proposal, answer>>

Blocks == UNION {[1..n -> Vocab] : n \in 1..MaxBlock}

\* The rows of a block evaluated after the history h.
RowsAfter(h, ts) == [i \in 1..Len(ts) |-> h \o SubSeq(ts, 1, i)]

Init == log = <<>> /\ proposal = <<>> /\ answer = <<>>

\* A block is absorbed at once; the answer is optional.
Absorb(ts) ==
  /\ proposal = <<>>
  /\ Len(log) + Len(ts) <= Context
  /\ log' = log \o ts
  /\ answer' \in {<<>>, RowsAfter(log, ts)}
  /\ UNCHANGED proposal

Propose(ts) ==
  /\ proposal = <<>>
  /\ Len(log) + Len(ts) <= Context
  /\ proposal' = ts
  /\ answer' = RowsAfter(log, ts)
  /\ UNCHANGED log

\* Accepting n inputs keeps exactly those n after the log of before the
\* proposal; the rest leaves no trace.
Accept(n) ==
  /\ proposal # <<>>
  /\ n <= Len(proposal)
  /\ log' = log \o SubSeq(proposal, 1, n)
  /\ proposal' = <<>>
  /\ answer' = <<>>

\* A reset, asked for or after a failure, forgets everything.
Forget ==
  log' = <<>> /\ proposal' = <<>> /\ answer' = <<>>

\* A refused call changes nothing.
Refuse == answer' = <<>> /\ UNCHANGED <<log, proposal>>

Next ==
  \/ \E ts \in Blocks : Absorb(ts) \/ Propose(ts)
  \/ \E n \in 0..MaxBlock : Accept(n)
  \/ Forget
  \/ Refuse

Spec == Init /\ [][Next]_logVars
=============================================================================
