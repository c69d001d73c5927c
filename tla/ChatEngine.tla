----------------------------- MODULE ChatEngine -----------------------------
(***************************************************************************)
(* The plain generator: prefill, then one forward per token, with a cache  *)
(* of the whole engine state that the next request reuses when its prompt  *)
(* extends it.  The engine below is the abstract TargetLog; the callback   *)
(* on_text above answers TRUE or FALSE at will, and any GPU command may    *)
(* fail.                                                                   *)
(***************************************************************************)
EXTENDS Language

CONSTANT Context      \* context_capacity of the engine

VARIABLES
  log, proposal, answer,   \* the engine: see TargetLog
  cached_tokens,           \* tokens the engine has absorbed
  cached_logits,           \* history of the logits row kept; <<>> if empty
  request, phase,          \* the call in progress and where it is
  emitted,                 \* tokens sampled by this call, an EOS included
  seen,                    \* what LogitProcessor has recorded
  text,                    \* decoded text the callback accepted
  shown,                   \* decoded text the callback was given
  result                   \* what the call returned

engineVars == <<log, proposal, answer>>
cacheVars  == <<cached_tokens, cached_logits>>
callVars   == <<request, phase, emitted, seen, text, shown, result>>
vars       == <<engineVars, cacheVars, callVars>>

Target == INSTANCE TargetLog WITH MaxBlock <- 1

Init ==
  /\ Target!Init
  /\ cached_tokens = <<>> /\ cached_logits = <<>>
  /\ request = NoRequest /\ phase = "idle"
  /\ emitted = <<>> /\ seen = <<>> /\ text = <<>> /\ shown = <<>>
  /\ result = NoResult

ClearCache ==
  /\ Target!Forget
  /\ cached_tokens' = <<>>
  /\ cached_logits' = <<>>

\* (Mutated form: logits are replaced only by a row that is not empty.)
KeepRowIfAny(t, want) ==
  /\ Target!Absorb(<<t>>)
  /\ answer' = IF want THEN Target!RowsAfter(log, <<t>>) ELSE <<>>
  /\ cached_tokens' = Append(cached_tokens, t)
  /\ cached_logits' = IF want THEN answer'[1] ELSE cached_logits

\* (Mutated form: a token fed for its logits is not recorded.)
FeedUnrecorded(t, want) ==
  /\ Target!Absorb(<<t>>)
  /\ answer' = IF want THEN Target!RowsAfter(log, <<t>>) ELSE <<>>
  /\ cached_tokens' = IF want THEN cached_tokens ELSE Append(cached_tokens, t)
  /\ cached_logits' = IF want THEN answer'[1] ELSE <<>>

\* One forward of the engine, recorded in the cache; without want the engine
\* returns no logits and the cached ones become empty.
Feed(t, want) ==
  /\ Target!Absorb(<<t>>)
  /\ answer' = IF want THEN Target!RowsAfter(log, <<t>>) ELSE <<>>
  /\ cached_tokens' = Append(cached_tokens, t)
  /\ cached_logits' = IF want THEN answer'[1] ELSE <<>>

Return(r) ==
  /\ request' = NoRequest
  /\ phase' = "idle"
  /\ result' = r

Fits(r) == Len(r.prompt) + r.limit <= Context

\* (Mutated form: any cache no longer than the prompt is reused.)
ReusableByLength(prompt) ==
  Len(cached_tokens) <= Len(prompt) /\ cached_tokens # <<>>

Reusable(prompt) == IsPrefix(cached_tokens, prompt) /\ cached_tokens # <<>>

\* generate, up to the prefill loop.
Generate(r) ==
  /\ phase = "idle"
  /\ Fits(r)
  /\ IF Reusable(r.prompt)
     THEN UNCHANGED <<engineVars, cacheVars>>
     ELSE ClearCache
  /\ request' = r
  /\ phase' = IF cached_tokens' = r.prompt THEN "decode" ELSE "prefill"
  /\ emitted' = <<>> /\ seen' = <<>> /\ text' = <<>> /\ shown' = <<>>
  /\ result' = NoResult

\* A request that fails validation never touches the cache.
RefuseRequest(r) ==
  /\ phase = "idle"
  /\ ~Fits(r)
  /\ emitted' = <<>> /\ seen' = <<>> /\ text' = <<>> /\ shown' = <<>>
  /\ Return(Failure)
  /\ UNCHANGED <<engineVars, cacheVars>>

\* One turn of the prefill loop: only the last token asks for logits.
Prefill ==
  /\ phase = "prefill"
  /\ LET i    == Len(cached_tokens) + 1
         last == i = Len(request.prompt)
     IN  /\ Feed(request.prompt[i], last)
         /\ phase' = IF last THEN "decode" ELSE "prefill"
  /\ UNCHANGED <<request, emitted, seen, text, shown, result>>

\* The callback said no, or the forward failed.
AbortPrefill ==
  /\ phase = "prefill"
  /\ ClearCache
  /\ Return(Failure)
  /\ UNCHANGED <<emitted, seen, text, shown>>

\* Where a turn of the decode loop goes once t is sampled and shown.
AfterToken(t) ==
  IF t \in Eos \/ Len(emitted) + 1 = request.limit THEN "flush" ELSE "step"

\* (Mutated form: text is handed over even if it ends inside a character.)
ShowAlways(decoded, go) ==
  IF decoded = text
  THEN UNCHANGED <<text, shown>>
  ELSE /\ shown' = decoded
       /\ text' = IF go THEN decoded ELSE text

\* Hand over the text that is complete; go is the callback's answer.
Show(decoded, go) ==
  IF Partial(decoded) \/ decoded = text
  THEN UNCHANGED <<text, shown>>
  ELSE /\ shown' = decoded
       /\ text' = IF go THEN decoded ELSE text

\* One turn of the decode loop, up to the forward.
Sample(t, go) ==
  /\ phase = "decode"
  /\ cached_logits # <<>>
  /\ t \in Support(Law(cached_logits, seen))
  /\ emitted' = Append(emitted, t)
  /\ seen' = Append(seen, t)
  /\ IF t \in Eos
     THEN UNCHANGED <<text, shown>>
     ELSE Show(Decode(TextTokens(emitted')), go)
  /\ phase' = IF ~go /\ shown' # shown THEN "declined" ELSE AfterToken(t)
  /\ UNCHANGED <<engineVars, cacheVars, request, result>>

\* The callback declines, before a token is sampled or on its text.
Cancel ==
  /\ phase \in {"decode", "declined"}
  /\ Return([finish |-> "cancelled", text |-> text])
  /\ UNCHANGED <<engineVars, cacheVars, emitted, seen, text, shown>>

\* Processing, sampling or decoding fails: the cache stays as it is.
SampleFails ==
  /\ phase = "decode"
  /\ Return(Failure)
  /\ UNCHANGED <<engineVars, cacheVars, emitted, seen, text, shown>>

Step ==
  /\ phase = "step"
  /\ Feed(Last(emitted), TRUE)
  /\ phase' = "decode"
  /\ UNCHANGED <<request, emitted, seen, text, shown, result>>

StepFails ==
  /\ phase = "step"
  /\ ClearCache
  /\ Return(Failure)
  /\ UNCHANGED <<emitted, seen, text, shown>>

\* Held text is released at the end; the callback's answer is not looked at.
Flush ==
  /\ phase = "flush"
  /\ LET full == Decode(TextTokens(emitted))
     IN  /\ shown' = full
         /\ text' = full
         /\ Return([finish |-> IF Last(emitted) \in Eos THEN "stop" ELSE "length",
                    text   |-> full])
  /\ UNCHANGED <<engineVars, cacheVars, emitted, seen>>

Next ==
  \/ \E r \in Requests : Generate(r) \/ RefuseRequest(r)
  \/ Prefill
  \/ AbortPrefill
  \/ \E t \in Vocab, go \in BOOLEAN : Sample(t, go)
  \/ Cancel
  \/ SampleFails
  \/ Step
  \/ StepFails
  \/ Flush

Spec == Init /\ [][Next]_vars

----------------------------------------------------------------------------
\* Properties.

\* Across requests, aborted prefills, failed forwards and cancelled decodes
\* the cache says exactly what the engine has absorbed, and the cached logits
\* are those of its last token.  They are missing only inside a prefill.
CacheCoherent ==
  /\ cached_tokens = log
  /\ cached_logits \in {<<>>, cached_tokens}
  /\ phase # "prefill" => cached_logits = cached_tokens

\* During a call the cache is a part of the conversation the caller asked
\* for, so reuse never continues someone else's.
CacheIsThisConversation ==
  phase # "idle" => IsPrefix(cached_tokens, request.prompt \o emitted)

\* A follow-up request finds everything but the last token of a completed
\* answer in the cache: the promise of prefix reuse.
CompletedAnswerIsCached ==
  phase = "flush" => cached_tokens = request.prompt \o Front(emitted)

\* The generator keeps the promise of Generation.
Promise == INSTANCE Generation
KeepsPromise == Promise!Spec
=============================================================================
