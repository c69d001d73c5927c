----------------------------- MODULE ToolConfig -----------------------------
(***************************************************************************)
(* The tools of one request: which definitions the client gave, which of   *)
(* them the chat template shows to the model, which calls the output       *)
(* parser accepts, and what the model is told it must do.                  *)
(***************************************************************************)
EXTENDS Naturals, Sequences, Functions

\* ToolChoice, and "absent" for a request that has none.
Choice(kind) == [kind |-> kind, name |-> ""]
Named(name)  == [kind |-> "named", name |-> name]

Names(definitions) == {definitions[i] : i \in 1..Len(definitions)}

\* What tool_choice means: absent, it depends on there being tools.
Chosen(definitions, choice) ==
  IF choice.kind = "absent"
    THEN IF definitions = <<>> THEN Choice("none") ELSE Choice("auto")
    ELSE choice

\* (Mutated form: a named choice need not name a definition.)
ParsesUndefined(definitions, choice) ==
  /\ IsInjective(definitions)
  /\ definitions = <<>> => Chosen(definitions, choice).kind = "none"

\* ToolConfig::parse succeeds.
Parses(definitions, choice) ==
  /\ IsInjective(definitions)
  /\ choice.kind = "named" => choice.name \in Names(definitions)
  /\ definitions = <<>> => Chosen(definitions, choice).kind = "none"

Config(definitions, choice, parallel) ==
  [definitions |-> definitions,
   choice      |-> Chosen(definitions, choice),
   parallel    |-> parallel]

Enabled(c) == c.choice.kind # "none" /\ c.definitions # <<>>

\* The definitions of the named function.
NamedOnly(definitions, name) ==
  LET kept[i \in 0..Len(definitions)] ==
        IF i = 0 THEN <<>>
        ELSE IF definitions[i] = name THEN Append(kept[i - 1], definitions[i]) ELSE kept[i - 1]
  IN  kept[Len(definitions)]

\* effective_definitions: what the template shows.
Effective(c) ==
  IF c.choice.kind = "none" THEN <<>>
  ELSE IF c.choice.kind = "named" THEN NamedOnly(c.definitions, c.choice.name)
  ELSE c.definitions

\* (Mutated form: any defined function may be called.)
CallableAny(c, name) == Enabled(c) /\ name \in Names(c.definitions)

\* schema_for_call finds a schema: a parsed call to name is accepted.
Callable(c, name) ==
  /\ Enabled(c)
  /\ c.choice.kind = "named" => name = c.choice.name
  /\ name \in Names(c.definitions)

\* instruction tells the model that it must call a function.
MustCall(c) == Enabled(c) /\ c.choice.kind \in {"required", "named"}
=============================================================================
