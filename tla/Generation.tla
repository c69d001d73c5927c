----------------------------- MODULE Generation -----------------------------
(***************************************************************************)
(* What TextGenerator::generate promises, whatever caches, blocks or       *)
(* drafts stand behind it: one request at a time, every token drawn from   *)
(* the model's law for the prompt and the tokens before it, text handed to *)
(* the caller that is never taken back, and one truthful finish reason.    *)
(***************************************************************************)
EXTENDS Language

VARIABLES request,  \* the request being served, or NoRequest
          emitted,  \* completion tokens, a final EOS included
          shown,    \* text the callback was given
          result    \* what the last call returned, or NoResult

Busy == request # NoRequest

FullText == Decode(TextTokens(emitted))

Init ==
  request = NoRequest /\ emitted = <<>> /\ shown = <<>> /\ result = NoResult

Begin(r) ==
  /\ ~Busy
  /\ request' = r
  /\ emitted' = <<>> /\ shown' = <<>> /\ result' = NoResult

\* A request the generator cannot serve is answered at once.
Reject ==
  /\ ~Busy
  /\ result' = Failure
  /\ emitted' = <<>> /\ shown' = <<>>
  /\ UNCHANGED request

\* Text that was shown stays shown.
ShowMore(text) == shown' \in {shown, text} /\ IsPrefix(shown, shown')

\* One more token, and perhaps the text up to it.
Emit(t) ==
  /\ Busy
  /\ Len(emitted) < request.limit
  /\ \A i \in DOMAIN emitted : emitted[i] \notin Eos
  /\ t \in Support(Law(request.prompt \o emitted, emitted))
  /\ emitted' = Append(emitted, t)
  /\ ShowMore(Decode(TextTokens(emitted')))
  /\ UNCHANGED <<request, result>>

\* A completed answer is the whole text, and it is what was shown.
Complete ==
  /\ Busy
  /\ emitted # <<>>
  /\ \/ result'.finish = "stop" /\ Last(emitted) \in Eos
     \/ /\ result'.finish = "length" /\ Last(emitted) \notin Eos
        /\ Len(emitted) = request.limit
  /\ ShowMore(FullText)
  /\ result'.text = FullText /\ shown' = FullText
  /\ request' = NoRequest
  /\ UNCHANGED emitted

\* An answer that was cut short is a part of what was shown; a failure has
\* no answer.
Abandon ==
  /\ Busy
  /\ ShowMore(FullText)
  /\ \/ result'.finish = "cancelled" /\ IsPrefix(result'.text, shown')
     \/ result' = Failure
  /\ request' = NoRequest
  /\ UNCHANGED emitted

Next ==
  \/ \E r \in Requests : Begin(r)
  \/ Reject
  \/ \E t \in Vocab : Emit(t)
  \/ Complete
  \/ Abandon

Spec == Init /\ [][Next]_<<request, emitted, shown, result>>
=============================================================================
