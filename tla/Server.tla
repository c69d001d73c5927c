------------------------------- MODULE Server -------------------------------
(***************************************************************************)
(* The HTTP server: asynchronous handlers, one generation worker thread, a *)
(* bounded job queue between them, and per request a bounded channel of    *)
(* events back and a cancellation flag.                                    *)
(*                                                                         *)
(* A request is a client slot: it is used again once its answer is over    *)
(* and its job is gone.  The text of an answer is the number of deltas the *)
(* output processor made so far.                                           *)
(***************************************************************************)
EXTENDS Integers, Sequences, FiniteSets

CONSTANTS Requests,       \* client slots
          Kinds,          \* request options: [stream, json, usage]
          QueueCapacity,  \* QUEUE_CAPACITY
          EventCapacity,  \* EVENT_CAPACITY
          MaxDeltas       \* bound on the deltas of one answer

ASSUME ServerAssumption ==
  /\ Kinds \subseteq [stream : BOOLEAN, json : BOOLEAN, usage : BOOLEAN]
  /\ Kinds # {}
  /\ "none" \notin Requests
  /\ QueueCapacity \in Nat \ {0}
  /\ EventCapacity \in Nat \ {0}
  /\ MaxDeltas \in Nat

VARIABLES
  conn,       \* where each handler is
  kind,       \* options of each request
  queue,      \* jobs waiting, in order
  events,     \* the event channel of each request
  gone,       \* the handler dropped its receiver and its CancelOnDrop guard
  wire,       \* what was sent to each client
  phase, job, \* the worker: where it is, and for which request
  made,       \* deltas the processor has made for job
  stopped,    \* a stop sequence was met (processor.stopped)
  broken,     \* the processor failed (processing_error)
  outcome,    \* finish reason of the engine, or "error"
  outbox      \* events of job the worker still has to send

handlerVars == <<conn, kind, wire>>
workerVars  == <<phase, job, made, stopped, broken, outcome, outbox>>
vars == <<handlerVars, queue, events, gone, workerVars>>

NoJob   == "none"
Item(type, n)   == [type |-> type, n |-> n, finish |-> ""]
Done(f, n)      == [type |-> "done", n |-> n, finish |-> f]
Reasons == {"stop", "length", "tool_calls"}

\* A job holds the sending end of its channel until the worker drops it.
Held(r) == r = job \/ \E i \in DOMAIN queue : queue[i] = r

Idle == job' = NoJob /\ made' = 0 /\ stopped' = FALSE /\ broken' = FALSE
        /\ outcome' = "none" /\ outbox' = <<>>

Init ==
  /\ conn = [r \in Requests |-> "new"]
  /\ kind \in [Requests -> {CHOOSE k \in Kinds : TRUE}]
  /\ queue = <<>>
  /\ events = [r \in Requests |-> <<>>]
  /\ gone = [r \in Requests |-> FALSE]
  /\ wire = [r \in Requests |-> <<>>]
  /\ phase = "recv" /\ job = NoJob /\ made = 0 /\ stopped = FALSE
  /\ broken = FALSE /\ outcome = "none" /\ outbox = <<>>

----------------------------------------------------------------------------
\* Handlers.

\* The handler ends: it drops the receiver and the guard with it.
Leave(r, state) ==
  /\ conn' = [conn EXCEPT ![r] = state]
  /\ gone' = [gone EXCEPT ![r] = TRUE]
  /\ events' = [events EXCEPT ![r] = <<>>]

Sends(r, items) == wire' = [wire EXCEPT ![r] = @ \o items]

Finished == <<Item("[DONE]", 0)>>

\* (Mutated form: an error closes the stream without [DONE].)
ErrorOnly == <<Item("error", 0)>>

StreamError == <<Item("error", 0)>> \o Finished

Room == phase # "dead" /\ Len(queue) < QueueCapacity

\* A request arrives and is parsed: 400 for one that is not valid, 503 when
\* the queue is full or the worker is dead, else its job is queued.
Submit(r, k) ==
  /\ conn[r] = "new"
  /\ kind' = [kind EXCEPT ![r] = k]
  /\ IF Room
     THEN /\ queue' = Append(queue, r)
          /\ conn' = [conn EXCEPT ![r] = "first"]
          /\ UNCHANGED <<events, gone, wire>>
     ELSE /\ Leave(r, "ended")
          /\ Sends(r, <<Item("503", 0)>>)
          /\ UNCHANGED queue
  /\ UNCHANGED workerVars

Malformed(r) ==
  /\ conn[r] = "new"
  /\ Leave(r, "ended")
  /\ Sends(r, <<Item("400", 0)>>)
  /\ UNCHANGED <<kind, queue, workerVars>>

\* The first event decides the status; headers are not sent before it.
FirstEvent(r) ==
  /\ conn[r] = "first"
  /\ events[r] # <<>>
  /\ LET e == Head(events[r])
     IN  \/ /\ e.type = "ready"
            /\ conn' = [conn EXCEPT ![r] =
                         IF kind[r].stream THEN "stream" ELSE "collect"]
            /\ events' = [events EXCEPT ![r] = Tail(@)]
            /\ Sends(r, IF kind[r].stream THEN <<Item("role", 0)>> ELSE <<>>)
            /\ UNCHANGED gone
         \/ /\ e.type = "invalid"
            /\ Leave(r, "ended")
            /\ Sends(r, <<Item("400", 0)>>)
         \/ /\ e.type = "error"
            /\ Leave(r, "ended")
            /\ Sends(r, <<Item("500", 0)>>)
         \/ /\ e.type \in {"delta", "reasoning", "done"}
            /\ Leave(r, "ended")
            /\ Sends(r, <<Item("503", 0)>>)
  /\ UNCHANGED <<kind, queue, workerVars>>

\* recv answers None: the channel is drained and its sender is gone.
WorkerVanished(r) ==
  /\ conn[r] \in {"first", "stream", "collect"}
  /\ events[r] = <<>>
  /\ ~Held(r)
  /\ Leave(r, "ended")
  /\ Sends(r, IF conn[r] = "stream" THEN StreamError ELSE <<Item("503", 0)>>)
  /\ UNCHANGED <<kind, queue, workerVars>>

\* One turn of the SSE loop.
StreamEvent(r) ==
  /\ conn[r] = "stream"
  /\ events[r] # <<>>
  /\ LET e == Head(events[r])
     IN  \/ /\ e.type \in {"delta", "reasoning"}
            /\ Sends(r, <<e>>)
            /\ events' = [events EXCEPT ![r] = Tail(@)]
            /\ UNCHANGED <<conn, gone>>
         \/ /\ e.type = "done"
            /\ Sends(r, <<e>>
                        \o (IF kind[r].usage THEN <<Item("usage", 0)>> ELSE <<>>)
                        \o Finished)
            /\ Leave(r, "ended")
         \/ /\ e.type \in {"invalid", "error"}
            /\ Sends(r, StreamError)
            /\ Leave(r, "ended")
  /\ UNCHANGED <<kind, queue, workerVars>>

\* Encoding a chunk fails (no random bytes for its padding): on any chunk
\* the stream is closed with an error; the usage chunk comes after finish.
EncoderFails(r) ==
  /\ conn[r] = "stream" \/ (conn[r] = "first" /\ kind[r].stream)
  /\ events[r] # <<>>
  /\ LET e == Head(events[r])
     IN  \/ e.type \in {"ready", "delta", "reasoning", "done"} /\ Sends(r, StreamError)
         \/ /\ e.type = "done" /\ conn[r] = "stream" /\ kind[r].usage
            /\ Sends(r, <<e>> \o StreamError)
  /\ Leave(r, "ended")
  /\ UNCHANGED <<kind, queue, workerVars>>

\* One turn of the loop of a response that is not streamed.
CollectEvent(r) ==
  /\ conn[r] = "collect"
  /\ events[r] # <<>>
  /\ LET e == Head(events[r])
     IN  \/ /\ e.type \in {"delta", "reasoning"}
            /\ events' = [events EXCEPT ![r] = Tail(@)]
            /\ UNCHANGED <<conn, gone, wire>>
         \/ /\ e.type = "done"
            /\ Sends(r, <<e>>)
            /\ Leave(r, "ended")
         \/ /\ e.type \in {"invalid", "error"}
            /\ Sends(r, <<Item(IF e.type = "error" THEN "500" ELSE "400", 0)>>)
            /\ Leave(r, "ended")
  /\ UNCHANGED <<kind, queue, workerVars>>

\* The client goes away: the handler, wherever it waits, is dropped.
Disconnect(r) ==
  /\ conn[r] \in {"first", "stream", "collect"}
  /\ Leave(r, "left")
  /\ UNCHANGED <<kind, wire, queue, workerVars>>

\* The slot is used for another request, with a channel of its own.
Again(r) ==
  /\ conn[r] \in {"ended", "left"}
  /\ ~Held(r)
  /\ conn' = [conn EXCEPT ![r] = "new"]
  /\ gone' = [gone EXCEPT ![r] = FALSE]
  /\ wire' = [wire EXCEPT ![r] = <<>>]
  /\ UNCHANGED <<kind, queue, events, workerVars>>

----------------------------------------------------------------------------
\* The worker.

\* A job whose client is gone is skipped.
Recv ==
  /\ phase = "recv"
  /\ queue # <<>>
  /\ queue' = Tail(queue)
  /\ IF gone[Head(queue)]
     THEN UNCHANGED <<phase, job>>
     ELSE phase' = "prepare" /\ job' = Head(queue)
  /\ UNCHANGED <<handlerVars, events, gone, made, stopped, broken, outcome, outbox>>

DropJob == phase' = "recv" /\ Idle

\* A blocking send waits for room, or fails when the receiver is gone.
CanSend == gone[job] \/ Len(events[job]) < EventCapacity

Send(e) ==
  events' = IF gone[job] THEN events ELSE [events EXCEPT ![job] = Append(@, e)]

\* prepare_request: the verdict is the first event.
Prepare ==
  /\ phase = "prepare"
  /\ CanSend
  /\ \/ Send(Item("invalid", 0)) /\ DropJob
     \/ /\ Send(Item("ready", 0))
        /\ IF gone[job]
           THEN DropJob
           ELSE /\ phase' = "generate"
                /\ UNCHANGED <<job, made, stopped, broken, outcome, outbox>>
  /\ UNCHANGED <<handlerVars, queue, gone>>

\* What generate may return once its callback has answered FALSE: it was
\* cancelled, the prefill fails, or the answer went to the final flush.
Declined == {"cancelled", "error", "stop", "length"}

EngineReturns(results) ==
  /\ outcome' \in results
  /\ phase' = "returned"

\* on_text answers FALSE before it looks at any text.
Declines == gone[job] \/ stopped \/ broken

Poll ==
  /\ phase = "generate"
  /\ Declines
  /\ EngineReturns(Declined)
  /\ UNCHANGED <<handlerVars, queue, events, gone, job, made, stopped, broken, outbox>>

\* on_text with a part: the client was there a moment ago.
Text ==
  /\ phase = "generate"
  /\ ~Declines
  /\ phase' = "process"
  /\ UNCHANGED <<handlerVars, queue, events, gone, job, made, stopped, broken,
                 outcome, outbox>>

\* (Mutated form: every answer is sent as it is made.)
PartEvents(n) == IF n = 1 THEN <<Item("delta", made + n)>> ELSE <<>>

\* What a part of text sends: JSON answers are kept back.
LiveEvents(n) ==
  IF n = 1 /\ ~kind[job].json THEN <<Item("delta", made + n)>> ELSE <<>>

\* The output processor takes the part: a delta or none, perhaps a stop
\* sequence, perhaps an error.
Process ==
  /\ phase = "process"
  /\ \/ /\ broken' = TRUE
        /\ EngineReturns(Declined)
        /\ UNCHANGED <<made, stopped, outbox>>
     \/ \E n \in 0..1 :
          /\ made + n <= MaxDeltas
          /\ made' = made + n
          /\ stopped' \in BOOLEAN
          /\ n = 1 \/ stopped'
          /\ outbox' = LiveEvents(n)
          /\ phase' = "send"
          /\ UNCHANGED <<broken, outcome>>
  /\ UNCHANGED <<handlerVars, queue, events, gone, job>>

\* The delta is sent, waiting for room; the callback answers.
SendDelta ==
  /\ phase = "send"
  /\ outbox # <<>> => CanSend
  /\ IF outbox # <<>> THEN Send(outbox[1]) ELSE UNCHANGED events
  /\ outbox' = <<>>
  /\ IF stopped \/ (outbox # <<>> /\ gone[job])
     THEN EngineReturns(Declined)
     ELSE phase' = "generate" /\ UNCHANGED outcome
  /\ UNCHANGED <<handlerVars, queue, gone, job, made, stopped, broken>>

\* The engine is done, or failed.
EngineEnds ==
  /\ phase = "generate"
  /\ EngineReturns({"stop", "length", "error"})
  /\ UNCHANGED <<handlerVars, queue, events, gone, job, made, stopped, broken, outbox>>

\* (Mutated form: the engine's reason is passed on unless calls were made.)
FinishReasonRaw(calls) ==
  IF calls /\ outcome = "stop" THEN "tool_calls" ELSE outcome

FinishReason(calls) ==
  IF stopped THEN "stop" ELSE IF calls /\ outcome = "stop" THEN "tool_calls" ELSE outcome

\* (Mutated form: only what is left over after generation is sent.)
TailLeftOver(n) == {IF n = 0 THEN <<>> ELSE <<Item("delta", made + n)>>}

\* The deltas sent after generation: what the processor still held, or the
\* whole of a JSON answer and the reasoning before it.
TailEvents(n) ==
  LET whole == <<Item("delta", made + n)>>
  IN  IF kind[job].json THEN {whole, <<Item("reasoning", 0)>> \o whole}
      ELSE {IF n = 0 THEN <<>> ELSE whole}

\* After generate: nobody is told about a job whose client is gone, a failure
\* is an error event, an answer is its tail and then Done.
Conclude ==
  /\ phase = "returned"
  /\ IF gone[job]
     THEN DropJob
     ELSE /\ phase' = "deliver"
          /\ \/ outbox' = <<Item("error", 0)>> /\ UNCHANGED made
             \/ /\ outcome # "error" /\ ~broken
                /\ \E n \in 0..1, calls \in BOOLEAN :
                     /\ made + n <= MaxDeltas
                     /\ made' = made + n
                     /\ \E tail \in TailEvents(n) :
                          outbox' = Append(tail, Done(FinishReason(calls), made'))
          /\ UNCHANGED <<job, stopped, broken, outcome>>
  /\ UNCHANGED <<handlerVars, queue, events, gone>>

\* (Mutated form: a send that fails is tried again, for whatever reason.)
DeliverRetry ==
  /\ phase = "deliver"
  /\ IF gone[job] \/ ~CanSend
     THEN UNCHANGED <<events, workerVars>>
     ELSE /\ Send(Head(outbox))
          /\ IF Len(outbox) = 1
             THEN DropJob
             ELSE /\ outbox' = Tail(outbox)
                  /\ UNCHANGED <<phase, job, made, stopped, broken, outcome>>
  /\ UNCHANGED <<handlerVars, queue, gone>>

\* The events are sent one by one; once the receiver is gone every send
\* fails and nothing is left to do.
Deliver ==
  /\ phase = "deliver"
  /\ CanSend
  /\ Send(Head(outbox))
  /\ IF gone[job] \/ Len(outbox) = 1
     THEN DropJob
     ELSE /\ outbox' = Tail(outbox)
          /\ UNCHANGED <<phase, job, made, stopped, broken, outcome>>
  /\ UNCHANGED <<handlerVars, queue, gone>>

\* (Mutated form: the queued jobs outlive the worker that would serve them.)
PanicKeepsQueue ==
  /\ phase \in {"prepare", "generate", "process"}
  /\ phase' = "dead"
  /\ Idle
  /\ UNCHANGED <<handlerVars, queue, events, gone>>

\* A panic in the engine ends the thread: the queue and every sender in it
\* are dropped.
Panic ==
  /\ phase \in {"prepare", "generate", "process"}
  /\ phase' = "dead"
  /\ queue' = <<>>
  /\ Idle
  /\ UNCHANGED <<handlerVars, events, gone>>

----------------------------------------------------------------------------
Worker ==
  Recv \/ Prepare \/ Poll \/ Text \/ Process \/ SendDelta \/ EngineEnds
    \/ Conclude \/ Deliver

\* What the handler does by itself or because its client reads.
Handler(r) ==
  FirstEvent(r) \/ WorkerVanished(r) \/ StreamEvent(r) \/ EncoderFails(r)
    \/ CollectEvent(r)

Client(r) ==
  (\E k \in Kinds : Submit(r, k)) \/ Malformed(r) \/ Disconnect(r) \/ Again(r)

Next == Worker \/ Panic \/ \E r \in Requests : Handler(r) \/ Client(r)

Spec == Init /\ [][Next]_vars

\* The worker thread runs, and what is ready for a client is read in the end
\* unless the client goes away.  Nothing obliges a client to send or to leave,
\* or the engine to panic.
Fairness ==
  /\ WF_vars(Worker)
  /\ \A r \in Requests : WF_vars(Handler(r))

FairSpec == Spec /\ Fairness

----------------------------------------------------------------------------
\* Properties.

\* The places of a type in what was sent.
Sent(r, type) == {i \in 1..Len(wire[r]) : wire[r][i].type = type}

\* A streamed answer opens with the role chunk, and ends, once and for all,
\* with [DONE]; before it stands a finish chunk or an error, and no chunk of
\* text follows either.  The engine's own finish reason "cancelled" is never
\* told to a client, streamed or not: whoever is still there did not cancel.
StreamGrammar ==
  \A r \in Requests :
    LET w == wire[r]
    IN  /\ \A i \in Sent(r, "done") : w[i].finish \in Reasons
        /\ conn[r] \in {"stream", "ended"} /\ Sent(r, "role") # {} =>
          /\ w[1].type = "role"
          /\ conn[r] = "ended" <=> w[Len(w)].type = "[DONE]"
          /\ \A i, j \in Sent(r, "[DONE]") : i = j
          /\ conn[r] = "ended" => Sent(r, "done") \cup Sent(r, "error") # {}
          /\ \A i \in Sent(r, "done") \cup Sent(r, "error"),
                j \in Sent(r, "delta") \cup Sent(r, "reasoning") : j < i

\* What a client reads is what was generated: the deltas come in order with
\* none lost in the channel, and Done accounts for every one of them, sent as
\* it was made, or at once for a JSON answer.
NothingLost ==
  \A r \in Requests :
    LET w == wire[r]
        deltas == Sent(r, "delta")
    IN  conn[r] \in {"stream", "ended"} =>
          /\ ~kind[r].json =>
               \A i \in deltas : w[i].n = Cardinality({j \in deltas : j <= i})
          /\ kind[r].stream => \A d \in Sent(r, "done") :
               IF kind[r].json THEN \E i \in deltas : deltas = {i} /\ w[i].n = w[d].n
               ELSE Cardinality(deltas) = w[d].n

\* JSON content is sent only after validation of the whole: while it is being
\* generated its channel and its stream are empty.
JsonHeldBack ==
  \A r \in Requests :
    kind[r].json /\ job = r /\ phase \in {"generate", "process", "send", "returned"} =>
      /\ Sent(r, "delta") = {}
      /\ \A i \in 1..Len(events[r]) : events[r][i].type = "ready"

\* An accepted request is answered, if its client keeps reading, whatever the
\* other clients do: stop reading for a while, disconnect while queued or
\* streaming, or bring the worker down.
EveryRequestEnds ==
  \A r \in Requests :
    conn[r] \in {"first", "stream", "collect"} ~> conn[r] \in {"ended", "left"}

\* The one worker is never lost to one client: every job it takes it leaves,
\* also when the client of the job stops reading its channel and goes away.
WorkerComesBack == phase # "recv" ~> phase \in {"recv", "dead"}
=============================================================================
