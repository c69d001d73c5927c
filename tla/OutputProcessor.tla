-------------------------- MODULE OutputProcessor --------------------------
(***************************************************************************)
(* What happens to generated text between the engine and the client: the   *)
(* stop filter cuts it, the tool parser takes the call frames out of it,   *)
(* and the splitter tells reasoning from answer.  Text arrives in chunks   *)
(* cut anywhere; the three stages hold back what might become a marker.    *)
(***************************************************************************)
EXTENDS Markers

CONSTANTS Alphabet,   \* all symbols
          Open, Close, Think, ThinkEnd,   \* <tool_call>, </tool_call>, ...
          Brace,      \* begins a JSON call body
          Quote,      \* toggles a string inside a JSON call body
          Escape,     \* makes the next symbol of a JSON string data
          Function, FunctionEnd,  \* <function=...>, </function>
          Parameters,             \* the tags <parameter=...>, one for each key
          ParameterEnd,           \* </parameter>
          Options,    \* of a request: [tools, thinking, required, parallel :
                      \* BOOLEAN] and its stop sequences, stops; and the form
                      \* of the text the model answers with
          Chunks(_),     \* chunks the engine may cut, for given options
          Follows(_, _, _), \* with which of them a text goes on, for given
                         \* options: the bound on the texts explored
          ValidJson(_)   \* which JSON call bodies parse and pass their schema

\* The tags inside an XML call body are symbols of their own: a tag cut in two
\* is text that is not yet a tag.
ASSUME TagsAssumption ==
  /\ Function \notin Parameters \cup {FunctionEnd, ParameterEnd, Brace}
  /\ FunctionEnd # ParameterEnd
  /\ Parameters \cap {FunctionEnd, ParameterEnd} = {}

\* The two markers looked for together do not overlap.
ASSUME MarkersAssumption ==
  /\ {Open, Close, Think, ThinkEnd} \subseteq Seq(Alphabet) \ {<<>>}
  /\ Apart({Open, Think})
  /\ ~Stands(Open, Think, 1) /\ ~Stands(Think, Open, 1)

\* A request with an empty stop sequence is refused.
ASSUME OptionsAssumption ==
  \A o \in Options :
    /\ {o.tools, o.thinking, o.required, o.parallel} \subseteq BOOLEAN
    /\ o.stops \subseteq Seq(Alphabet) \ {<<>>}
    /\ Chunks(o) \subseteq Seq(Alphabet)

VARIABLES
  options,    \* of the request
  raw,        \* all text pushed
  stop,       \* StopFilter: [stops, pending, stopped]
  parser,     \* ToolOutputParser
  splitter,   \* ReasoningSplitter: [thinking, pending]
  visible,    \* all the stop filter let through (a history variable)
  reply,      \* [content, reasoning, calls]
  status      \* "open", "finished", or "failed"

outputVars == <<options, raw, stop, parser, splitter, visible, reply, status>>

NewStop(o)   == [stops |-> o.stops, pending |-> <<>>, stopped |-> FALSE]
NewSplitter(o) == [thinking |-> o.thinking, pending |-> <<>>]
NewReply     == [content |-> <<>>, reasoning |-> <<>>, calls |-> <<>>]
NewParser(o) == [pending |-> <<>>, thinking |-> o.thinking, inCall |-> FALSE,
                 calls |-> 0, failed |-> FALSE, events |-> <<>>]

TextEvent(text) == [call |-> FALSE, text |-> text]
CallEvent(body) == [call |-> TRUE, text |-> body]

----------------------------------------------------------------------------
\* Stop filter.  A result is the new filter and what it lets through.

\* (Mutated form: text that begins a stop sequence is let through.)
StopPushEager(s, text) ==
  LET all == s.pending \o text
      hit == Find(all, s.stops)
  IN  IF s.stopped THEN [stop |-> s, out |-> <<>>]
      ELSE IF hit > 0
           THEN [stop |-> [s EXCEPT !.pending = <<>>, !.stopped = TRUE],
                 out  |-> Take(all, hit - 1)]
           ELSE [stop |-> s, out |-> all]

\* (Mutated form: the stop sequence that begins last cuts the text.)
StopPushLast(s, text) ==
  LET all  == s.pending \o text
      hits == Places(all, s.stops)
      keep == Len(all) - Held(all, s.stops)
  IN  IF s.stopped THEN [stop |-> s, out |-> <<>>]
      ELSE IF hits # {}
           THEN [stop |-> [s EXCEPT !.pending = <<>>, !.stopped = TRUE],
                 out  |-> Take(all, Max(hits) - 1)]
           ELSE [stop |-> [s EXCEPT !.pending = Drop(all, keep)],
                 out  |-> Take(all, keep)]

StopPush(s, text) ==
  LET all  == s.pending \o text
      hit  == Find(all, s.stops)
      keep == Len(all) - Held(all, s.stops)
  IN  IF s.stopped THEN [stop |-> s, out |-> <<>>]
      ELSE IF hit > 0
           THEN [stop |-> [s EXCEPT !.pending = <<>>, !.stopped = TRUE],
                 out  |-> Take(all, hit - 1)]
           ELSE [stop |-> [s EXCEPT !.pending = Drop(all, keep)],
                 out  |-> Take(all, keep)]

----------------------------------------------------------------------------
\* Tool parser.

\* Text joins the text event before it.
EmitText(events, text) ==
  IF text = <<>> THEN events
  ELSE IF events # <<>> /\ ~events[Len(events)].call
       THEN [events EXCEPT ![Len(events)].text = @ \o text]
       ELSE Append(events, TextEvent(text))

Fail(p) == [p EXCEPT !.failed = TRUE, !.events = <<>>]

\* Where a JSON text leaves its reader: outside strings, in one, or after an
\* escape in one.
JsonStep(mode, symbol) ==
  CASE mode = "plain"  -> IF symbol = Quote THEN "string" ELSE "plain"
    [] mode = "escape" -> "string"
    [] mode = "string" -> IF symbol = Escape THEN "escape"
                          ELSE IF symbol = Quote THEN "plain" ELSE "string"

JsonMode(text) ==
  LET mode[n \in 0..Len(text)] == IF n = 0 THEN "plain" ELSE JsonStep(mode[n - 1], text[n])
  IN  mode[Len(text)]

\* Where an XML body leaves its reader: between tags, in the value of a
\* parameter, or behind the function's closing tag.
XmlStep(mode, symbol) ==
  CASE mode = "tags" /\ symbol \in Parameters   -> "value"
    [] mode = "tags" /\ symbol = FunctionEnd    -> "ended"
    [] mode = "value" /\ symbol = ParameterEnd  -> "tags"
    [] OTHER                                    -> mode

XmlMode(text) ==
  LET mode[n \in 0..Len(text)] == IF n = 0 THEN "tags" ELSE XmlStep(mode[n - 1], text[n])
  IN  mode[Len(text)]

\* (Mutated form: the first closing function tag counts, inside a parameter too.)
XmlCallEndFlat(text) ==
  First({i \in Places(text, {Close}) : HasAny(Take(text, i - 1), {<<FunctionEnd>>})})

\* The first closing marker behind the function's closing tag; tags in a
\* parameter's value do not count.
XmlCallEnd(text) ==
  First({i \in Places(text, {Close}) : XmlMode(Take(text, i - 1)) = "ended"})

\* (Mutated form: the first closing marker ends the call, quoted or not.)
CallEndUnquoted(text) == Find(text, {Close})

Begins(text, symbol) == text # <<>> /\ text[1] = symbol

\* The first closing marker; in a JSON body outside strings, in an XML body
\* outside parameters.
CallEnd(text) ==
  LET outside == {i \in Places(text, {Close}) : JsonMode(Take(text, i - 1)) = "plain"}
  IN  CASE Begins(text, Function) -> XmlCallEnd(text)
        [] Begins(text, Brace)    -> First(outside)
        [] OTHER                  -> Find(text, {Close})

\* parse_body of an XML body behind its function tag: parameters with distinct
\* keys, whatever is in them, and nothing behind the closing tag.
ValidXml(rest) ==
  LET before == [i \in DOMAIN rest |-> XmlMode(Take(rest, i - 1))]
      opened == {i \in DOMAIN rest : before[i] = "tags" /\ rest[i] \in Parameters}
  IN  /\ XmlMode(rest) = "ended"
      /\ \A i \in DOMAIN rest :
           \/ before[i] = "value"
           \/ before[i] = "tags" /\ rest[i] \in Parameters \cup {FunctionEnd}
      /\ \A i, k \in opened : rest[i] = rest[k] => i = k

ValidBody(body) ==
  IF Begins(body, Function) THEN ValidXml(Tail(body)) ELSE ValidJson(body)

\* The call that ends there is parsed and recorded, or fails the answer.
EndCall(o, p, end) ==
  IF ~(o.parallel \/ p.calls = 0) \/ ~ValidBody(Take(p.pending, end - 1)) THEN Fail(p)
  ELSE [p EXCEPT !.calls = @ + 1, !.inCall = FALSE,
                 !.pending = Drop(@, end + Len(Close) - 1),
                 !.events = Append(@, CallEvent(Take(p.pending, end - 1)))]

\* The first n symbols of the text held become text events.
EmitFirst(p, n) ==
  [p EXCEPT !.pending = Drop(@, n), !.events = EmitText(@, Take(p.pending, n))]

\* Inside a call.
CallTurn(o, p, finishing) ==
  LET end == CallEnd(p.pending)
  IN  IF end > 0 THEN EndCall(o, p, end) ELSE IF finishing THEN Fail(p) ELSE p

\* Inside reasoning.
ThinkTurn(p, finishing) ==
  LET text  == p.pending
      leave == Find(text, {ThinkEnd})
  IN  IF leave > 0
      THEN [EmitFirst(p, leave + Len(ThinkEnd) - 1) EXCEPT !.thinking = FALSE]
      ELSE EmitFirst(p, IF finishing THEN Len(text) ELSE Len(text) - Held(text, {ThinkEnd}))

\* Outside both.
TextTurn(p, finishing) ==
  LET text   == p.pending
      marker == Find(text, {Open, Think})
      keep   == Len(text) - Held(text, {Open, Think})
      rest   == Drop(text, keep)
  IN  CASE marker > 0 /\ Stands(text, Open, marker) ->
             [EmitFirst(p, marker - 1) EXCEPT
                !.inCall = TRUE, !.pending = Drop(text, marker + Len(Open) - 1)]
        [] marker > 0 /\ ~Stands(text, Open, marker) ->
             [EmitFirst(p, marker + Len(Think) - 1) EXCEPT !.thinking = TRUE]
        [] marker = 0 /\ ~finishing -> EmitFirst(p, keep)
        [] marker = 0 /\ finishing ->
             IF Len(rest) > 1 /\ rest = Take(Open, Len(rest)) THEN Fail(p)
             ELSE EmitFirst(p, Len(text))

\* One turn of the loop; the turn after the last one changes nothing.
DrainTurn(o, p, finishing) ==
  CASE p.failed                                -> p
    [] ~p.failed /\ p.inCall                   -> CallTurn(o, p, finishing)
    [] ~p.failed /\ ~p.inCall /\ p.thinking    -> ThinkTurn(p, finishing)
    [] ~p.failed /\ ~p.inCall /\ ~p.thinking   -> TextTurn(p, finishing)

\* Every turn but the last takes a marker out of the text.
Drain(o, p, finishing) ==
  LET turns == Len(p.pending) + 1
      after[n \in 0..turns] ==
        IF n = 0 THEN p ELSE DrainTurn(o, after[n - 1], finishing)
  IN  after[turns]

ParserPush(o, p, text) ==
  IF o.tools
  THEN Drain(o, [p EXCEPT !.pending = @ \o text, !.events = <<>>], FALSE)
  ELSE [p EXCEPT !.events = <<TextEvent(text)>>]

\* (Mutated form: a required call is not asked for at the end.)
ParserFinishLax(o, p) ==
  IF o.tools THEN Drain(o, [p EXCEPT !.events = <<>>], TRUE)
  ELSE [p EXCEPT !.events = <<>>]

ParserFinish(o, p) ==
  IF ~o.tools THEN [p EXCEPT !.events = <<>>]
  ELSE LET q == Drain(o, [p EXCEPT !.events = <<>>], TRUE)
       IN  IF o.required /\ q.calls = 0 THEN Fail(q) ELSE q

----------------------------------------------------------------------------
\* Reasoning splitter, recorded in the reply as it goes.

Say(r, thinking, text) ==
  IF thinking THEN [r EXCEPT !.reasoning = @ \o text]
  ELSE [r EXCEPT !.content = @ \o text]

\* A pair of the splitter and the reply.
SplitText(sr, text) ==
  LET s    == sr.splitter
      all  == s.pending \o text
      hit  == Find(all, {ThinkEnd})
      n    == Len(all) - Held(all, {ThinkEnd})
  IN  IF ~s.thinking
      THEN [splitter |-> [s EXCEPT !.pending = <<>>], reply |-> Say(sr.reply, FALSE, all)]
      ELSE IF hit > 0
           THEN [splitter |-> [thinking |-> FALSE, pending |-> <<>>],
                 reply |-> Say(Say(sr.reply, TRUE, Take(all, hit - 1)), FALSE,
                               Drop(all, hit + Len(ThinkEnd) - 1))]
           ELSE [splitter |-> [s EXCEPT !.pending = Drop(all, n)],
                 reply |-> Say(sr.reply, TRUE, Take(all, n))]

\* (Mutated form: text held back is dropped when a call or the end comes.)
SplitFlushDrop(sr) == [sr EXCEPT !.splitter.pending = <<>>]

SplitFlush(sr) ==
  [splitter |-> [sr.splitter EXCEPT !.pending = <<>>],
   reply    |-> Say(sr.reply, sr.splitter.thinking, sr.splitter.pending)]

RouteEvent(sr, e) ==
  IF ~e.call THEN SplitText(sr, e.text)
  ELSE [SplitFlush(sr) EXCEPT !.reply.calls = Append(@, e.text)]

Route(sr, events) ==
  LET after[n \in 0..Len(events)] ==
        IF n = 0 THEN sr ELSE RouteEvent(after[n - 1], events[n])
  IN  after[Len(events)]

----------------------------------------------------------------------------
\* OutputProcessor over the whole state, as a record.

Fresh(o) == [stop |-> NewStop(o), parser |-> NewParser(o), splitter |-> NewSplitter(o),
             reply |-> NewReply, visible |-> <<>>]

\* What the parser p gave out goes through the splitter.
Routed(st, p) ==
  LET sr == Route([splitter |-> st.splitter, reply |-> st.reply], p.events)
  IN  [stop |-> st.stop, parser |-> [p EXCEPT !.events = <<>>],
       splitter |-> sr.splitter, reply |-> sr.reply, visible |-> st.visible]

ProcessVisible(o, st, text) ==
  [Routed(st, ParserPush(o, st.parser, text)) EXCEPT !.visible = @ \o text]

DoPush(o, st, text) ==
  IF st.stop.stopped THEN st
  ELSE LET f == StopPush(st.stop, text)
       IN  ProcessVisible(o, [st EXCEPT !.stop = f.stop], f.out)

Flushed(st) ==
  LET sr == SplitFlush([splitter |-> st.splitter, reply |-> st.reply])
  IN  [stop |-> st.stop, parser |-> st.parser,
       splitter |-> sr.splitter, reply |-> sr.reply, visible |-> st.visible]

EndParser(o, st) ==
  LET ended == Routed(st, ParserFinish(o, st.parser))
  IN  CASE st.parser.failed                          -> st
        [] ~st.parser.failed /\ ended.parser.failed  -> ended
        [] ~st.parser.failed /\ ~ended.parser.failed -> Flushed(ended)

\* finish, once the tail of the final text is pushed.
DoFinish(o, st) ==
  IF st.parser.failed THEN st
  ELSE EndParser(o, ProcessVisible(o, [st EXCEPT !.stop.pending = <<>>], st.stop.pending))

State == [stop |-> stop, parser |-> parser, splitter |-> splitter,
          reply |-> reply, visible |-> visible]

\* The state becomes st; its answer failed, or is as the status says.
Becomes(st, good) ==
  /\ stop' = st.stop
  /\ parser' = st.parser
  /\ splitter' = st.splitter
  /\ reply' = st.reply
  /\ visible' = st.visible
  /\ status' = IF st.parser.failed THEN "failed" ELSE good

OutputInit ==
  /\ options \in Options
  /\ raw = <<>>
  /\ stop = NewStop(options) /\ parser = NewParser(options)
  /\ splitter = NewSplitter(options) /\ reply = NewReply /\ visible = <<>>
  /\ status = "open"

\* on_text with a chunk; once a stop was met the engine is told to end.
Push(chunk) ==
  /\ status = "open"
  /\ ~stop.stopped
  /\ raw' = raw \o chunk
  /\ Becomes(DoPush(options, State, chunk), "open")
  /\ UNCHANGED options

\* The end of generation; tail is final text the callback has not seen.
Finish(tail) ==
  /\ status = "open"
  /\ stop.stopped => tail = <<>>
  /\ raw' = raw \o tail
  /\ Becomes(DoFinish(options, DoPush(options, State, tail)), "finished")
  /\ UNCHANGED options

\* What may come next.
Following == {chunk \in Chunks(options) : Follows(options, raw, chunk)}

OutputNext ==
  \E chunk \in Following : (chunk # <<>> /\ Push(chunk)) \/ Finish(chunk)

OutputSpec == OutputInit /\ [][OutputNext]_outputVars

----------------------------------------------------------------------------
\* Properties.

\* No stop sequence lies inside another and ends before it does: of two that
\* overlap, the one that begins first is also whole first.
Unnested(stops) ==
  \A outer, inner \in stops : \A i \in 2..Len(outer) :
    Stands(outer, inner, i) => i + Len(inner) - 1 = Len(outer)

\* What the engine might have gone on with in the chunk that met a stop.
Unread ==
  {<<>>} \cup (IF stop.stopped /\ Unnested(options.stops) THEN Chunks(options) ELSE {})

\* Finishing now gives what the text read so far gives when it is pushed at
\* once.  When no stop sequence is nested in another, it also gives what a longer
\* text gives, of which the engine had read no more when a stop was met: then the
\* client cannot tell where the engine cut the text.  With k/k and / it can:
\* k/k pushed at once shows nothing, while k/ followed by k shows k.
ChunkingIrrelevant ==
  status = "finished" =>
    \A more \in Unread :
      LET whole == DoFinish(options, DoPush(options, Fresh(options), raw \o more))
      IN  ~whole.parser.failed /\ reply = whole.reply /\ visible = whole.visible

\* No stop sequence gets past the filter, however it was cut, and what does is
\* a beginning of the text, up to the first stop sequence; up to the end when
\* there is none.
StopNeverLeaks ==
  LET hit == Find(raw, options.stops)
  IN  /\ ~HasAny(visible, options.stops)
      /\ Len(visible) <= Len(raw) /\ visible = Take(raw, Len(visible))
      /\ hit > 0 /\ status # "failed" => stop.stopped /\ visible = Take(raw, hit - 1)
      /\ hit = 0 /\ status = "finished" => visible = raw

\* Without tools the answer is the visible text cut at the first </think>.
ReasoningThenAnswer ==
  status = "finished" /\ ~options.tools =>
    LET hit == IF options.thinking THEN Find(visible, {ThinkEnd}) ELSE 0
    IN  IF ~options.thinking THEN reply.reasoning = <<>> /\ reply.content = visible
        ELSE IF hit = 0 THEN reply.reasoning = visible /\ reply.content = <<>>
        ELSE /\ reply.reasoning = Take(visible, hit - 1)
             /\ reply.content = Drop(visible, hit + Len(ThinkEnd) - 1)

\* A call body stops inside a string or inside a parameter's value.
InData(body) ==
  \/ Begins(body, Brace) /\ JsonMode(body) # "plain"
  \/ Begins(body, Function) /\ XmlMode(Tail(body)) = "value"

\* A call is only ever a complete, valid frame, within what the request
\* allows; a frame that is cut or invalid fails the answer instead of showing
\* as text; and markers that are data, inside a JSON string or the value of an
\* XML parameter, neither end a call nor make the answer fail.
CallsAreFrames ==
  /\ \A i \in DOMAIN reply.calls : ValidBody(reply.calls[i]) /\ ~InData(reply.calls[i])
  /\ ~options.parallel => Len(reply.calls) <= 1
  /\ ~options.tools => reply.calls = <<>>
  /\ status = "finished" /\ options.tools /\ options.required => reply.calls # <<>>
  /\ options.tools /\ reply.calls = <<>> /\ ~HasAny(visible, {Think}) =>
       ~HasAny(reply.content, {Open})
  /\ status = "open" /\ options.tools /\ ~options.thinking =>
       \A chunk \in Following :
         LET body == Drop(raw \o chunk, Len(Open))
             st   == DoPush(options, State, chunk)
         IN  /\ Stands(raw \o chunk, Open, 1)
             /\ \A i \in Places(body, {Close}) : InData(Take(body, i - 1))
             => ~st.parser.failed /\ st.reply.calls = <<>>
=============================================================================
