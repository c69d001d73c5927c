------------------------------ MODULE MtpChat ------------------------------
(***************************************************************************)
(* The generator with native multi-token prediction.  A round drafts       *)
(* tokens with the small MTP layer, evaluates the pending anchor and the   *)
(* drafts as one block of the target, keeps the verified prefix, and       *)
(* repairs the MTP cache so that both models stand at the same place.      *)
(* The same module holds the sequential reference (mtp = FALSE).           *)
(*                                                                         *)
(* The MTP cache is the sequence of its valid slots: the token appended    *)
(* and the source of the hidden vector it was joined with, a target row    *)
(* (a history) or the MTP layer itself.                                    *)
(***************************************************************************)
EXTENDS Language, Speculative

CONSTANTS Context,         \* context_capacity of both models
          BlockSize,       \* block_size
          DraftLaw(_, _),  \* law of the MTP layer for the tokens in its cache
          SelfHidden       \* marks a hidden vector of the MTP layer

ASSUME MtpAssumption == BlockSize \in Nat \ {0} /\ Context \in Nat \ {0}

VARIABLES
  log, proposal, answer,   \* the target engine: see TargetLog
  drafter,                 \* valid slots of the MTP cache
  request, mtp, phase,     \* the call in progress and where it is
  rows,                    \* target rows held: histories
  drafts,                  \* proposals of this round
  verified,                \* result of verify: accepted count
  queue,                   \* tokens still to be pushed to the output
  emitted, finish,         \* OutputCollector: token_ids and finish
  text, shown,             \* its text, and the text on_text was given
  seen,                    \* what LogitProcessor has recorded
  result                   \* what the call returned

engineVars == <<log, proposal, answer>>
outVars    == <<emitted, finish, text, shown, seen>>
roundVars  == <<rows, drafts, verified>>
vars == <<engineVars, drafter, request, mtp, phase, roundVars, queue,
          outVars, result>>

Target == INSTANCE TargetLog WITH MaxBlock <- BlockSize

Slot(t, h) == [token |-> t, hidden |-> h]
Tokens(slots) == [i \in DOMAIN slots |-> slots[i].token]

Init ==
  /\ Target!Init
  /\ drafter = <<>>
  /\ request = NoRequest /\ mtp = FALSE /\ phase = "idle"
  /\ rows = <<>> /\ drafts = <<>> /\ verified = 0 /\ queue = <<>>
  /\ emitted = <<>> /\ finish = "none" /\ text = <<>> /\ shown = <<>>
  /\ seen = <<>>
  /\ result = NoResult

ClearCache == Target!Forget /\ drafter' = <<>>

\* The caches are cleared after every call, whatever its result.
Return(r) ==
  /\ ClearCache
  /\ request' = NoRequest
  /\ phase' = "idle"
  /\ rows' = <<>> /\ drafts' = <<>> /\ verified' = 0 /\ queue' = <<>>
  /\ result' = r
  /\ UNCHANGED <<mtp, outVars>>

Start(r, use) ==
  /\ phase = "idle"
  /\ ClearCache
  /\ mtp' = use
  /\ emitted' = <<>> /\ finish' = "none" /\ text' = <<>> /\ shown' = <<>>
  /\ seen' = <<>>
  /\ UNCHANGED <<roundVars, queue>>
  /\ IF Len(r.prompt) + r.limit <= Context
     THEN request' = r /\ phase' = "prefill" /\ result' = NoResult
     ELSE phase' = "idle" /\ result' = Failure /\ UNCHANGED request

----------------------------------------------------------------------------
\* Prefill.

\* One chunk through the target, then its tokens through the MTP layer, each
\* joined with the target's hidden vector for the token before it.
PrefillChunk ==
  /\ phase = "prefill" /\ mtp
  /\ LET done  == Len(log)
         upto  == Smaller(done + BlockSize, Len(request.prompt))
         chunk == SubSeq(request.prompt, done + 1, upto)
     IN  /\ Target!Absorb(chunk)
         /\ answer' = Target!RowsAfter(log, chunk)
         /\ drafter' = drafter \o
              [i \in 1..(upto - Len(drafter) - 1) |->
                 LET at == Len(drafter) + 1 + i
                 IN  Slot(request.prompt[at], SubSeq(log', 1, at - 1))]
         /\ rows' = <<Last(answer')>>
         /\ phase' = IF upto = Len(request.prompt) THEN "first" ELSE "prefill"
  /\ UNCHANGED <<request, mtp, drafts, verified, queue, outVars, result>>

\* The reference prefills one token at a time; only the last has logits.
PrefillToken ==
  /\ phase = "prefill" /\ ~mtp
  /\ LET t    == request.prompt[Len(log) + 1]
         last == Len(log) + 1 = Len(request.prompt)
     IN  /\ Target!Absorb(<<t>>)
         /\ answer' = IF last THEN Target!RowsAfter(log, <<t>>) ELSE <<>>
         /\ rows' = answer'
         /\ phase' = IF last THEN "first" ELSE "prefill"
  /\ UNCHANGED <<drafter, request, mtp, drafts, verified, queue, outVars, result>>

\* A token drawn from one target row: the first anchor, and every token of
\* the reference.
SampleRow ==
  /\ phase \in {"first", "next"}
  /\ \E t \in Support(Law(rows[1], seen)) : queue' = <<t>>
  /\ phase' = "push"
  /\ UNCHANGED <<engineVars, drafter, request, mtp, roundVars, outVars, result>>

----------------------------------------------------------------------------
\* OutputCollector::push, for the head of the queue.

\* Why the output is finished once t is in it.
FinishAfter(t, declined) ==
  IF t \in Eos THEN "stop"
  ELSE IF declined THEN "cancelled"
  ELSE IF Len(emitted) + 1 = request.limit THEN "length" ELSE "none"

Hands(t, decoded) == t \notin Eos /\ ~Partial(decoded) /\ decoded # text

\* Where the loop goes once the token is in the output.
AfterPush ==
  IF finish' # "none" THEN "flush"
  ELSE IF queue' # <<>> THEN "push"
  ELSE IF ~mtp THEN "step"
  ELSE IF Len(emitted') = 1 THEN "seed" ELSE "repair"

Push(go) ==
  /\ phase = "push"
  /\ LET t       == Head(queue)
         decoded == Decode(TextTokens(Append(emitted, t)))
         hands   == Hands(t, decoded)
     IN  /\ emitted' = Append(emitted, t)
         /\ seen' = Append(seen, t)
         /\ shown' = IF hands THEN decoded ELSE shown
         /\ text' = IF hands /\ go THEN decoded ELSE text
         /\ finish' = FinishAfter(t, hands /\ ~go)
  /\ queue' = Tail(queue)
  /\ phase' = AfterPush
  /\ UNCHANGED <<engineVars, drafter, request, mtp, roundVars, result>>

\* The callback declines: before a push, or at the top of either loop.
Decline ==
  /\ phase \in {"push", "step", "round"}
  /\ finish' = "cancelled"
  /\ phase' = "flush"
  /\ UNCHANGED <<engineVars, drafter, request, mtp, roundVars, queue, emitted,
                 text, shown, seen, result>>

----------------------------------------------------------------------------
\* Decode.

\* One turn of the reference loop.
Step ==
  /\ phase = "step"
  /\ LET t == Last(emitted)
     IN  /\ Target!Absorb(<<t>>)
         /\ answer' = Target!RowsAfter(log, <<t>>)
  /\ rows' = answer'
  /\ phase' = "next"
  /\ UNCHANGED <<drafter, request, mtp, drafts, verified, queue, outVars, result>>

\* The MTP layer consumes the first anchor.
Seed ==
  /\ phase = "seed"
  /\ drafter' = Append(drafter, Slot(Last(emitted), rows[1]))
  /\ phase' = "round"
  /\ UNCHANGED <<engineVars, request, mtp, roundVars, queue, outVars, result>>

\* (Mutated form: what is left of max_tokens is not looked at.)
WidthUpToBlock ==
  Smaller(BlockSize, Context - Len(log))

Width ==
  Smaller(BlockSize, Smaller(request.limit - Len(emitted), Context - Len(log)))

DraftLaws(ds) ==
  [i \in 1..Len(ds) |->
     DraftLaw(Tokens(drafter) \o SubSeq(ds, 1, i - 1),
              seen \o SubSeq(ds, 1, i - 1))]

\* Width - 1 proposals; the MTP layer consumes all of them but the last.
Draft ==
  /\ phase = "round"
  /\ \E ds \in [1..(Width - 1) -> Vocab] :
       /\ \A i \in 1..Len(ds) : ds[i] \in Support(DraftLaws(ds)[i])
       /\ drafts' = ds
       /\ drafter' = drafter \o
            [i \in 1..(Len(ds) - 1) |-> Slot(ds[i], SelfHidden)]
  /\ phase' = "verify"
  /\ UNCHANGED <<engineVars, request, mtp, rows, verified, queue, outVars, result>>

\* The laws the drafts were drawn from, once they are in the MTP cache.
DraftedLaws ==
  LET known == SubSeq(Tokens(drafter), 1, Len(log))
  IN  [i \in 1..Len(drafts) |->
         DraftLaw(known \o SubSeq(drafts, 1, i - 1),
                  seen \o SubSeq(drafts, 1, i - 1))]

VerifyBlock ==
  /\ phase = "verify"
  /\ Target!Propose(<<Last(emitted)>> \o drafts)
  /\ rows' = answer'
  /\ phase' = "judge"
  /\ UNCHANGED <<drafter, request, mtp, drafts, verified, queue, outVars, result>>

\* (Mutated form: every row is processed with the emitted tokens only.)
TargetLawsNoDrafts == [i \in 1..Len(rows) |-> Law(rows[i], seen)]

\* process_block: row i also sees the drafts before it.
TargetLaws ==
  [i \in 1..Len(rows) |-> Law(rows[i], seen \o SubSeq(drafts, 1, i - 1))]

Judge ==
  /\ phase = "judge"
  /\ \E v \in Verified(drafts, DraftedLaws, TargetLaws) :
       /\ Target!Accept(v.consumed)
       /\ verified' = v.accepted
       /\ queue' = v.tokens
  /\ phase' = "push"
  /\ UNCHANGED <<drafter, request, mtp, rows, drafts, outVars, result>>

\* (Mutated form: the last accepted draft, never consumed, is not replayed.)
ReplayNothing(kept) == <<>>

\* Accepted drafts the MTP layer has not consumed, with target rows.
Replay(kept) ==
  [i \in 1..(verified - kept) |-> Slot(drafts[kept + i], rows[kept + i])]

\* Truncate to the accepted drafts, replay, and consume the new anchor.
Repair ==
  /\ phase = "repair"
  /\ LET base     == Len(log) - verified - 1
         appended == IF drafts = <<>> THEN 0 ELSE Len(drafts) - 1
         kept     == Smaller(verified, appended)
     IN  drafter' = SubSeq(drafter, 1, base + kept) \o Replay(kept)
                      \o <<Slot(Last(emitted), rows[verified + 1])>>
  /\ drafts' = <<>> /\ verified' = 0 /\ rows' = <<>>
  /\ phase' = "round"
  /\ UNCHANGED <<engineVars, request, mtp, queue, outVars, result>>

----------------------------------------------------------------------------
\* The end of a call.

\* Held text is released, and here the callback's answer counts.
Flush(go) ==
  /\ phase = "flush"
  /\ LET full     == Decode(TextTokens(emitted))
         declined == full # text /\ ~go
     IN  IF finish = "cancelled"
         THEN Return([finish |-> finish, text |-> text])
         ELSE /\ ClearCache
              /\ shown' = full
              /\ text' = IF declined THEN text ELSE full
              /\ finish' = IF declined THEN "cancelled" ELSE finish
              /\ result' = [finish |-> finish', text |-> text']
              /\ request' = NoRequest /\ phase' = "idle"
              /\ rows' = <<>> /\ drafts' = <<>> /\ verified' = 0
              /\ queue' = <<>>
              /\ UNCHANGED <<mtp, emitted, seen>>

\* Any model call, sampling or decoding may fail, and the callback may
\* decline during the prefill: the call returns an error.
Fail ==
  /\ phase \notin {"idle"}
  /\ Return(Failure)

Next ==
  \/ \E r \in Requests, use \in BOOLEAN : Start(r, use)
  \/ PrefillChunk \/ PrefillToken
  \/ SampleRow
  \/ \E go \in BOOLEAN : Push(go) \/ Flush(go)
  \/ Decline
  \/ Step
  \/ Seed
  \/ Draft
  \/ VerifyBlock
  \/ Judge
  \/ Repair
  \/ Fail

Spec == Init /\ [][Next]_vars

----------------------------------------------------------------------------
\* Properties.

\* At the top of every round the target has consumed the whole conversation
\* but the pending anchor, and the MTP cache, however much of the last draft
\* was rejected, holds the same conversation shifted by one; no slot was
\* joined with a target row of another history.
ModelsAligned ==
  phase = "round" =>
    LET x == request.prompt \o emitted
    IN  /\ log = Front(x)
        /\ Tokens(drafter) = Tail(x)
        /\ \A i \in DOMAIN drafter :
             drafter[i].hidden \in {SelfHidden, SubSeq(x, 1, i)}

\* The checks inside the loop never fire: a round has room for its block,
\* it never verifies more tokens than the request has left, and a rejection
\* always has something to draw the correction from.
RoundsHaveRoom ==
  /\ phase = "round" => Width > 0
  /\ phase = "push" => Len(emitted) + Len(queue) <= request.limit
  /\ phase = "judge" =>
       \A i \in DOMAIN drafts :
         RejectMass(TargetLaws[i], DraftedLaws[i], drafts[i]) > 0 =>
           Support(Residual(TargetLaws[i], DraftedLaws[i])) # {}

\* Drafting, verification, rejection and repair change nothing a caller can
\* see: the generator keeps the promise of Generation, drafted or not.
Promise == INSTANCE Generation
KeepsPromise == Promise!Spec
=============================================================================
