-------------------------------- MODULE Mtp --------------------------------
(***************************************************************************)
(* The drafter: one attention layer with a KV cache and no other state.    *)
(* Truncation and reset move position only, so slots at and above it keep  *)
(* what earlier calls wrote there; each append writes its own slot before  *)
(* attention reads the slots 0..position.                                  *)
(*                                                                         *)
(* A slot holds the input its K and V were projected from and the position *)
(* its key was rotated for.  Every call takes &mut self and waits for its  *)
(* GPU command, so each is one action.                                     *)
(***************************************************************************)
EXTENDS Integers, Sequences

CONSTANTS Inputs,   \* pairs of a token below vocab_size and a finite hidden vector
          Invalid,  \* an input that is not: token, length or finiteness
          Context   \* KV slots allocated

ASSUME MtpAssumption ==
  /\ Context \in Nat \ {0}
  /\ Invalid \notin Inputs

VARIABLES
  position,  \* inputs held
  kvcache,   \* kcache and vcache of the layer
  output     \* inputs the last returned output was computed from

vars == <<position, kvcache, output>>

KvSlots == 0..(Context - 1)

\* Slot contents: the projection of an input rotated for a position, or
\* whatever an allocation or a failed command left there.
Rotated(x, p) == [input |-> x, at |-> p]
Garbage       == Rotated(Invalid, 0)
Contents      == [input : Inputs \cup {Invalid}, at : 0..Context]

Init ==
  /\ position = 0
  /\ kvcache = [i \in KvSlots |-> Garbage]
  /\ output = <<>>

----------------------------------------------------------------------------
\* The three ensure! of evaluate.
Valid(x) == position < Context /\ x \in Inputs

\* kv_append after rope: the slot at position.
KvAppend(x) == [kvcache EXCEPT ![position] = Rotated(x, position)]

\* Attention over n slots whose keys are rotated for their own places: the
\* inputs of those slots.  A key rotated for another place is not explained
\* by any sequence of inputs.
Attend(kv, n) ==
  [i \in 1..n |-> IF kv[i - 1].at = i - 1 THEN kv[i - 1].input ELSE Invalid]

\* (Mutated form: the new slot is not counted.)
LengthWithoutSelf == position

\* The slots attention reads: the ones below position and the new one.
Length == position + 1

\* prefill_token: no output is computed.
PrefillToken(x) ==
  /\ Valid(x)
  /\ kvcache' = KvAppend(x)
  /\ position' = position + 1
  /\ output' = <<>>

Forward(x) ==
  /\ Valid(x)
  /\ kvcache' = KvAppend(x)
  /\ output' = Attend(kvcache', Length)
  /\ position' = position + 1

\* The command failed, or its output was not finite: the slot may have been
\* written, completely or not, and evaluate resets.
FailedEvaluate(x) ==
  /\ Valid(x)
  /\ \E slot \in {kvcache[position], Rotated(x, position), Garbage} :
       kvcache' = [kvcache EXCEPT ![position] = slot]
  /\ position' = 0
  /\ output' = <<>>

\* (Mutated form: truncate may also advance, over stale slots.)
TruncateAnywhere(n) ==
  /\ n <= Context
  /\ position' = n
  /\ output' = <<>>
  /\ UNCHANGED kvcache

\* Masks the suffix; its slots are overwritten by later appends.
Truncate(n) ==
  /\ n <= position
  /\ position' = n
  /\ output' = <<>>
  /\ UNCHANGED kvcache

Reset ==
  /\ position' = 0
  /\ output' = <<>>
  /\ UNCHANGED kvcache

\* A call whose ensure! fails before anything is encoded.
Refused ==
  /\ \/ \E x \in Inputs \cup {Invalid} : ~Valid(x)
     \/ \E n \in 0..Context : n > position
  /\ output' = <<>>
  /\ UNCHANGED <<position, kvcache>>

Next ==
  \/ \E x \in Inputs : PrefillToken(x) \/ Forward(x) \/ FailedEvaluate(x)
  \/ \E n \in 0..Context : Truncate(n)
  \/ Reset
  \/ Refused

Spec == Init /\ [][Next]_vars

----------------------------------------------------------------------------
\* position stays within the slots, slots hold contents and an output is a
\* sequence of inputs.
TypeOK ==
  /\ position \in 0..Context
  /\ kvcache \in [KvSlots -> Contents]
  /\ output \in Seq(Inputs \cup {Invalid})

\* Every slot a later query can see was written by a completed append and
\* rotated for its own place: nothing truncated, reset or failed shows.
VisibleSlots ==
  \A i \in 0..(position - 1) :
    kvcache[i].input \in Inputs /\ kvcache[i].at = i

\* What the drafter holds, as its callers may think of it.
cache == [i \in 1..position |-> kvcache[i - 1].input]

Log == INSTANCE DrafterLog WITH answer <- output

\* The drafter implements the log of inputs: an output attends to exactly the
\* inputs appended and not truncated, in their order, the newest included.
ImplementsLog == Log!Spec
=============================================================================
