------------------------------- MODULE Engine -------------------------------
(***************************************************************************)
(* The target inference engine: its position, the two recurrent buffers of *)
(* a DeltaNet layer, the KV slots of an attention layer, and the           *)
(* transaction over them that evaluates a block of tokens tentatively and  *)
(* then keeps a prefix.                                                    *)
(*                                                                         *)
(* A buffer is abstracted to the token history its contents were computed  *)
(* from, or Garbage when no history explains them.  One DeltaNet and one   *)
(* attention layer stand for all of them: every layer runs the same code   *)
(* with the same offsets.  Every call takes &mut self and waits for its    *)
(* GPU command, so each is one action.                                     *)
(***************************************************************************)
EXTENDS Integers, Sequences

CONSTANTS Vocab,       \* token ids below vocab_size
          OutOfVocab,  \* a token id that is not
          Context,     \* KV slots allocated
          MaxBlock,    \* MAX_BLOCK, also the number of snapshot slots
          Garbage      \* contents that belong to no history

ASSUME EngineAssumption ==
  /\ Context \in Nat \ {0}
  /\ MaxBlock \in Nat \ {0}
  /\ OutOfVocab \notin Vocab
  /\ Garbage \notin Seq(Vocab)

VARIABLES
  position,      \* tokens absorbed, tentative ones included
  conv,          \* conv_state of the DeltaNet layer
  state,         \* its recurrent state
  kvcache,       \* K and V slots of the attention layer
  allocated,     \* block scratch and snapshots exist
  batchedDelta,  \* BlockKernelMode.batched_delta
  snapConv,      \* prefix snapshots of conv
  snapState,     \* prefix snapshots of state
  pending,       \* the tentative block; tokens = 0 stands for None
  rows           \* rows the last call returned; empty after an error

vars == <<position, conv, state, kvcache, allocated, batchedDelta,
          snapConv, snapState, pending, rows>>

Zero       == <<>>                    \* a zeroed recurrent buffer
NoPending  == [base_position |-> 0, tokens |-> 0]
KvSlots    == 0..(Context - 1)
SnapSlots  == 0..(MaxBlock - 1)
Contents   == Seq(Vocab) \cup {Garbage}
Inputs     == Vocab \cup {OutOfVocab}
Calls      == UNION {[1..n -> Inputs] : n \in 0..(MaxBlock + 1)}

Idle == pending.tokens = 0

Init ==
  /\ position = 0
  /\ conv = Zero /\ state = Zero
  /\ kvcache = [i \in KvSlots |-> Garbage]
  /\ allocated = FALSE
  /\ batchedDelta \in BOOLEAN
  /\ snapConv = [k \in SnapSlots |-> Zero]
  /\ snapState = [k \in SnapSlots |-> Zero]
  /\ pending = NoPending
  /\ rows = <<>>

----------------------------------------------------------------------------
\* What the GPU computes.

\* The history the next token is computed from: the one the recurrent
\* buffers and every KV slot below position agree on.
Live ==
  IF /\ state # Garbage
     /\ conv = state
     /\ Len(state) = position
     /\ \A i \in 0..(position - 1) : kvcache[i] = SubSeq(state, 1, i + 1)
  THEN state ELSE Garbage

\* Buffer contents after the first k inputs of ts.
After(ts, k) ==
  IF Live = Garbage THEN Garbage ELSE Live \o SubSeq(ts, 1, k)

\* (Mutated form: the last input of a block is not appended.)
KvAfterShort(ts) ==
  [i \in KvSlots |->
     IF i \in position..(position + Len(ts) - 2)
     THEN After(ts, i - position + 1)
     ELSE kvcache[i]]

\* Attention appends input i of a block at slot position + i, causal order.
KvAfter(ts) ==
  [i \in KvSlots |->
     IF i \in position..(position + Len(ts) - 1)
     THEN After(ts, i - position + 1)
     ELSE kvcache[i]]

\* (Mutated form: the copy of the buffer before the block is left out.)
SnapAfterNoBase(snap, buffer, ts) ==
  [k \in SnapSlots |->
     IF k \in 1..(Len(ts) - 1) THEN After(ts, k) ELSE snap[k]]

\* Slot 0 is a copy of the buffer before the block; slot k is taken after
\* input k, except after the last input, which stays live.
SnapAfter(snap, buffer, ts) ==
  [k \in SnapSlots |->
     CASE k = 0                  -> buffer
       [] k \in 1..(Len(ts) - 1) -> After(ts, k)
       [] OTHER                  -> snap[k]]

\* Every token of the block yields a row; reading them back may be skipped.
RowsOf(ts) == [i \in 1..Len(ts) |-> After(ts, i)]

----------------------------------------------------------------------------
\* Calls that succeed.

\* (Mutated form: the recurrent state survives a reset.)
ResetBuffersKeepState ==
  /\ pending' = NoPending
  /\ conv' = Zero
  /\ position' = 0
  /\ UNCHANGED state

ResetBuffers ==
  /\ pending' = NoPending
  /\ conv' = Zero
  /\ state' = Zero
  /\ position' = 0

Reset ==
  /\ ResetBuffers
  /\ rows' = <<>>
  /\ UNCHANGED <<kvcache, allocated, batchedDelta, snapConv, snapState>>

ForwardValid(t) ==
  /\ Idle
  /\ t \in Vocab
  /\ position < Context

\* forward, prefill_token and forward_with_hidden; want says whether the
\* caller asked for logits or the hidden vector.
Forward(t, want) ==
  /\ ForwardValid(t)
  /\ conv' = After(<<t>>, 1)
  /\ state' = After(<<t>>, 1)
  /\ kvcache' = KvAfter(<<t>>)
  /\ position' = position + 1
  /\ rows' = IF want THEN RowsOf(<<t>>) ELSE <<>>
  /\ UNCHANGED <<allocated, batchedDelta, snapConv, snapState, pending>>

\* (Mutated form: the capacity test forgets the width of the block.)
BlockValidNarrow(ts) ==
  /\ Idle
  /\ Len(ts) \in 1..MaxBlock
  /\ \A i \in 1..Len(ts) : ts[i] \in Vocab
  /\ position < Context

BlockValid(ts) ==
  /\ Idle
  /\ Len(ts) \in 1..MaxBlock
  /\ \A i \in 1..Len(ts) : ts[i] \in Vocab
  /\ position + Len(ts) <= Context

\* The device effects of verify_block_inner.
BlockEffects(ts) ==
  /\ BlockValid(ts)
  /\ allocated' = TRUE
  /\ conv' = After(ts, Len(ts))
  /\ state' = After(ts, Len(ts))
  /\ kvcache' = KvAfter(ts)
  /\ snapConv' = SnapAfter(snapConv, conv, ts)
  /\ snapState' = SnapAfter(snapState, state, ts)
  /\ position' = position + Len(ts)
  /\ rows' = RowsOf(ts)

VerifyBlock(ts) ==
  /\ BlockEffects(ts)
  /\ pending' = [base_position |-> position, tokens |-> Len(ts)]
  /\ UNCHANGED batchedDelta

\* The commit of a whole block copies nothing.
PrefillBlock(ts) ==
  /\ BlockEffects(ts)
  /\ pending' = NoPending
  /\ UNCHANGED batchedDelta

CommitValid(n) == ~Idle /\ n <= pending.tokens

\* (Mutated form: only the recurrent state is restored, not conv_state.)
CommitStateOnly(n) ==
  /\ CommitValid(n)
  /\ state' = IF n = pending.tokens THEN state ELSE snapState[n]
  /\ position' = pending.base_position + n
  /\ pending' = NoPending
  /\ rows' = <<>>
  /\ UNCHANGED <<conv, kvcache, allocated, batchedDelta, snapConv, snapState>>

CommitBlockPrefix(n) ==
  /\ CommitValid(n)
  /\ IF n = pending.tokens
     THEN UNCHANGED <<conv, state>>
     ELSE conv' = snapConv[n] /\ state' = snapState[n]
  /\ position' = pending.base_position + n
  /\ pending' = NoPending
  /\ rows' = <<>>
  /\ UNCHANGED <<kvcache, allocated, batchedDelta, snapConv, snapState>>

\* (Mutated form: only a pending block is refused.)
SetModeAnytime == Idle

SetModeValid == position = 0 /\ Idle

SetBlockKernelMode(mode) ==
  /\ SetModeValid
  /\ batchedDelta' = mode
  /\ rows' = <<>>
  /\ UNCHANGED <<position, conv, state, kvcache, allocated, snapConv,
                 snapState, pending>>

----------------------------------------------------------------------------
\* Calls that fail.

\* An error while encoding, running or reading back: the KV slots and the
\* snapshots the command may have written hold anything, then reset() runs.
FailedForward(t) ==
  /\ ForwardValid(t)
  /\ \E c \in {kvcache[position], After(<<t>>, 1), Garbage} :
       kvcache' = [kvcache EXCEPT ![position] = c]
  /\ ResetBuffers
  /\ rows' = <<>>
  /\ UNCHANGED <<allocated, batchedDelta, snapConv, snapState>>

FailedBlock(ts) ==
  /\ BlockValid(ts)
  /\ allocated' = TRUE
  /\ \/ UNCHANGED <<kvcache, snapConv, snapState>>
     \/ /\ kvcache' = [i \in KvSlots |->
              IF i \in position..(position + Len(ts) - 1)
              THEN Garbage ELSE kvcache[i]]
        /\ snapConv' = [k \in SnapSlots |->
              IF k < Len(ts) THEN Garbage ELSE snapConv[k]]
        /\ snapState' = [k \in SnapSlots |->
              IF k < Len(ts) THEN Garbage ELSE snapState[k]]
     \/ /\ kvcache' = KvAfter(ts)
        /\ snapConv' = SnapAfter(snapConv, conv, ts)
        /\ snapState' = SnapAfter(snapState, state, ts)
  /\ ResetBuffers
  /\ rows' = <<>>
  /\ UNCHANGED batchedDelta

\* Only a partial accept runs a GPU command that can fail.
FailedCommit(n) ==
  /\ CommitValid(n)
  /\ n # pending.tokens
  /\ ResetBuffers
  /\ rows' = <<>>
  /\ UNCHANGED <<kvcache, allocated, batchedDelta, snapConv, snapState>>

\* A call that does not pass its checks, or whose first use of a block
\* finds no memory for it, returns an error and touches nothing.
Refused ==
  /\ ~ /\ allocated
       /\ SetModeValid
       /\ \A t \in Inputs : ForwardValid(t)
       /\ \A ts \in Calls : BlockValid(ts)
       /\ \A n \in 0..(MaxBlock + 1) : CommitValid(n)
  /\ rows' = <<>>
  /\ UNCHANGED <<position, conv, state, kvcache, allocated, batchedDelta,
                 snapConv, snapState, pending>>

Next ==
  \/ Reset
  \/ \E t \in Inputs, want \in BOOLEAN : Forward(t, want)
  \/ \E t \in Inputs : FailedForward(t)
  \/ \E ts \in Calls : VerifyBlock(ts) \/ PrefillBlock(ts) \/ FailedBlock(ts)
  \/ \E n \in 0..(MaxBlock + 1) : CommitBlockPrefix(n) \/ FailedCommit(n)
  \/ \E mode \in BOOLEAN : SetBlockKernelMode(mode)
  \/ Refused

Spec == Init /\ [][Next]_vars

----------------------------------------------------------------------------
\* Properties.

TypeOK ==
  /\ position \in 0..Context
  /\ conv \in Contents /\ state \in Contents
  /\ kvcache \in [KvSlots -> Contents]
  /\ allocated \in BOOLEAN /\ batchedDelta \in BOOLEAN
  /\ snapConv \in [SnapSlots -> Contents]
  /\ snapState \in [SnapSlots -> Contents]
  /\ pending \in [base_position : 0..Context, tokens : 0..MaxBlock]
  /\ rows \in Seq(Contents)

\* However forwards, blocks, commits, failures and resets alternate, the two
\* recurrent buffers always hold one and the same history, as long as
\* position says, and no snapshot or failed command leaks into them.
RecurrentCoherent ==
  /\ state \in Seq(Vocab)
  /\ conv = state
  /\ Len(state) = position

\* Every KV slot attention may read (below position) belongs to the live
\* history, although rejected and failed tokens stay in the slots above it
\* and reset() never clears any.
AttentionCoherent ==
  \A i \in 0..(position - 1) : kvcache[i] = SubSeq(state, 1, i + 1)

\* While a block is pending every prefix commit_block_prefix may be asked
\* to restore is present, whatever an earlier, wider or failed block left in
\* the slots.
PrefixRestorable ==
  ~Idle =>
    /\ position = pending.base_position + pending.tokens
    /\ \A k \in 0..(pending.tokens - 1) :
         /\ snapConv[k]  = SubSeq(state, 1, pending.base_position + k)
         /\ snapState[k] = SubSeq(state, 1, pending.base_position + k)

\* The schedule of block kernels changes only when the buffers hold no
\* history, so no state is ever the product of two schedules
\* (set_block_kernel_mode's comment).
ScheduleChangesOnZeroState ==
  [][batchedDelta' # batchedDelta => conv = Zero /\ state = Zero]_vars

\* Refinement: the log is what is left when the pending block is taken away.
\* It is read off the buffers, not off a history variable.
LogOf == IF Idle THEN state ELSE SubSeq(state, 1, pending.base_position)
ProposalOf ==
  IF Idle THEN <<>>
  ELSE SubSeq(state, pending.base_position + 1, position)

Log == INSTANCE TargetLog WITH log <- LogOf, proposal <- ProposalOf,
                               answer <- rows

\* The engine keeps the promise of TargetLog: a commit keeps exactly the
\* accepted prefix, a failure forgets everything, an error changes nothing,
\* and every returned row was computed from the history it is given for.
ImplementsLog == Log!Spec
=============================================================================
