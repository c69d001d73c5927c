------------------------------ MODULE Request ------------------------------
(***************************************************************************)
(* A chat completion request as the server validates it: the messages one  *)
(* after the other with the calls still waiting for a tool result, then    *)
(* the tools and the response format.  Ranges and types of the sampling    *)
(* options are left out.  history is what was read of the request.         *)
(***************************************************************************)
EXTENDS Naturals, Sequences, FiniteSets, ToolConfig

CONSTANTS Ids,         \* tool call ids
          Functions,   \* function names
          NoId,        \* no tool_call_id
          MaxMessages, \* bound on the messages of a request
          MaxCalls,    \* bound on the calls of one message
          MaxTools     \* bound on the tools of a request

ASSUME RequestAssumption == NoId \notin Ids /\ MaxCalls \in Nat

VARIABLES
  history,               \* messages read
  pending,               \* ids of calls without a result
  used_ids,              \* ids of all calls
  conversation_started,  \* a message that is not system or developer was read
  verdict,               \* "reading", "refused" by a message, "incomplete" at
                         \* the end, "messages" read, "invalid" or "accepted"
  tools,                 \* the parsed ToolConfig
  response_format

parseVars == <<history, pending, used_ids, conversation_started, verdict, tools,
          response_format>>

NoTools == Config(<<>>, Choice("absent"), TRUE)

\* developer messages are treated as system messages are.
Roles == {"system", "user", "assistant", "tool"}

\* content and reasoning: whether the message has the key.
Message == [role : Roles, calls : UNION {[1..n -> Ids] : n \in 0..MaxCalls},
            tool_call_id : Ids \cup {NoId}, content : BOOLEAN, reasoning : BOOLEAN]

ParseInit ==
  /\ history = <<>> /\ pending = {} /\ used_ids = {}
  /\ conversation_started = FALSE
  /\ verdict = "reading"
  /\ tools = NoTools /\ response_format = "text"

----------------------------------------------------------------------------
Ids1(m) == {m.calls[i] : i \in 1..Len(m.calls)}

\* Checks that concern a message alone.
Shaped(m) ==
  /\ m.reasoning => m.role = "assistant"
  /\ m.calls # <<>> => m.role = "assistant"
  /\ m.role = "tool" <=> m.tool_call_id # NoId
  /\ m.content \/ m.calls # <<>>

\* Another message may only follow when every call has its result.
Awaits(m) == m.role # "tool" => pending = {}

\* (Mutated form: an id may be used again once it was answered.)
FreshPending(m) == IsInjective(m.calls) /\ Ids1(m) \cap pending = {}

\* Ids of calls are unique in the request, one message included.
FreshIds(m) == IsInjective(m.calls) /\ Ids1(m) \cap used_ids = {}

\* All that messages() asks of message m in the state it is read in.
Readable(m) ==
  /\ Shaped(m)
  /\ m.role = "system" => ~conversation_started
  /\ Awaits(m)
  /\ FreshIds(m)
  /\ m.role = "tool" => m.tool_call_id \in pending

Used(m) == used_ids \cup Ids1(m)

Read(m) ==
  /\ verdict = "reading"
  /\ history' = Append(history, m)
  /\ IF Readable(m)
       THEN /\ conversation_started' = (conversation_started \/ m.role # "system")
            /\ used_ids' = Used(m)
            /\ pending' = (pending \cup Ids1(m)) \ {m.tool_call_id}
            /\ UNCHANGED verdict
       ELSE /\ verdict' = "refused"
            /\ UNCHANGED <<conversation_started, used_ids, pending>>
  /\ UNCHANGED <<tools, response_format>>

\* (Mutated form: the last calls need no result.)
CompleteOpen == history # <<>> /\ \E i \in 1..Len(history) : history[i].role = "user"

\* The checks after the last message.
Complete ==
  /\ history # <<>>
  /\ pending = {}
  /\ \E i \in 1..Len(history) : history[i].role = "user"

EndOfMessages ==
  /\ verdict = "reading"
  /\ verdict' = IF Complete THEN "messages" ELSE "incomplete"
  /\ UNCHANGED <<history, pending, used_ids, conversation_started, tools, response_format>>

\* JSON output and enabled tools exclude each other.
FormatOk(c, format) == ~(format = "json_object" /\ Enabled(c))

\* The rest of parse(): tools, tool_choice, parallel_tool_calls and
\* response_format.
Options(definitions, choice, parallel, format) ==
  /\ verdict = "messages"
  /\ IF /\ Parses(definitions, choice)
        /\ FormatOk(Config(definitions, choice, parallel), format)
       THEN /\ verdict' = "accepted"
            /\ tools' = Config(definitions, choice, parallel)
            /\ response_format' = format
       ELSE /\ verdict' = "invalid"
            /\ UNCHANGED <<tools, response_format>>
  /\ UNCHANGED <<history, pending, used_ids, conversation_started>>

\* The next request is parsed from nothing.
NextRequest ==
  /\ verdict \in {"refused", "incomplete", "invalid", "accepted"}
  /\ history' = <<>> /\ pending' = {} /\ used_ids' = {}
  /\ conversation_started' = FALSE
  /\ verdict' = "reading"
  /\ tools' = NoTools /\ response_format' = "text"

Definitions == UNION {[1..n -> Functions] : n \in 0..MaxTools}
ToolChoices == {Choice(k) : k \in {"absent", "none", "auto", "required"}}
           \cup {Named(f) : f \in Functions}

ParseNext ==
  \/ \E m \in Message : Len(history) < MaxMessages /\ Read(m)
  \/ EndOfMessages
  \/ \E d \in Definitions, c \in ToolChoices, p \in BOOLEAN, f \in {"text", "json_object"} :
       Options(d, c, p, f)
  \/ NextRequest

ParseSpec == ParseInit /\ [][ParseNext]_parseVars

----------------------------------------------------------------------------
\* What a conversation is, said of the whole of it and not message by message.

Calls(h) == {call \in (1..Len(h)) \X (1..MaxCalls) : call[2] <= Len(h[call[1]].calls)}
IdOf(h, call) == h[call[1]].calls[call[2]]

\* Message k is the result of the call: only results lie between them, and
\* none of those is a result of the same call.
ResultOf(h, k, call) ==
  /\ call[1] < k
  /\ h[k].tool_call_id = IdOf(h, call)
  /\ \A j \in (call[1] + 1)..(k - 1) :
       h[j].role = "tool" /\ h[j].tool_call_id # IdOf(h, call)

HasResult(h, call, last) == \E k \in 1..last : ResultOf(h, k, call)

\* No continuation can repair a history that is not orderly: the system
\* messages come first, ids are unique, every result belongs to a call, and
\* nothing but results follows a call until all calls of its message have one.
Orderly(h) ==
  /\ \A i \in 1..Len(h) : Shaped(h[i])
  /\ \A i, j \in 1..Len(h) : i < j /\ h[j].role = "system" => h[i].role = "system"
  /\ \A a, b \in Calls(h) : IdOf(h, a) = IdOf(h, b) => a = b
  /\ \A k \in 1..Len(h) :
       h[k].role = "tool" => \E call \in Calls(h) : ResultOf(h, k, call)
  /\ \A call \in Calls(h) : \A k \in (call[1] + 1)..Len(h) :
       h[k].role # "tool" => HasResult(h, call, k - 1)

\* The ids of the calls that are still without a result.
Open(h) == {IdOf(h, call) : call \in {c \in Calls(h) : ~HasResult(h, c, Len(h))}}

Closed(h) ==
  /\ \E i \in 1..Len(h) : h[i].role = "user"
  /\ \A call \in Calls(h) : HasResult(h, call, Len(h))

\* The scan accepts exactly the conversations: it refuses a message when, and
\* only when, the history with it is no longer orderly, and it accepts the
\* whole exactly when it is orderly and every call has its result.  Meanwhile
\* the ids it keeps are those of the calls that are still without a result.
ScanIsExact ==
  /\ Orderly(history) <=> verdict # "refused"
  /\ verdict = "reading" => pending = Open(history)
  /\ verdict = "incomplete" => ~Closed(history)
  /\ verdict \in {"messages", "invalid", "accepted"} => Closed(history)

\* The tools of an accepted request fit together: a call is accepted exactly
\* when the model was shown its function, the model is told to call a
\* function only when there is one it may call, and a reply that must be a
\* JSON object never competes with calls.
ToolsFit ==
  verdict = "accepted" =>
    /\ {f \in Functions : Callable(tools, f)} = Names(Effective(tools))
    /\ MustCall(tools) => \E f \in Functions : Callable(tools, f)
    /\ response_format = "json_object" => \A f \in Functions : ~Callable(tools, f)
=============================================================================
