------------------------------ MODULE MCOutput ------------------------------
(***************************************************************************)
(* Four symbols spell all the markers.  Texts without tools are cut into   *)
(* chunks of one or two symbols, with stop sequences apart or one inside   *)
(* another; those with tools are longer, for a call frame to fit with text *)
(* around it, and come a symbol at a time.  Two                            *)
(* more forms of text begin with a call and go on with what matters inside *)
(* one: quotes and escapes, or the tags of parameters, and closing markers *)
(* whole or cut.                                                           *)
(***************************************************************************)
EXTENDS OutputProcessor

MCOpen     == <<"<", "t", "t">>
MCThink    == <<"<", "k">>
MCThinkEnd == <<"<", "/", "k">>
MCClose    == <<"<", "/", "t">>

TextStops   == {<<"k", "/", "k">>, <<"t", "<">>}
NestedStops == {<<"k", "/", "k">>, <<"/">>}
ToolStops   == {<<"k", "k", "t">>}

Plain(thinking) ==
  [tools |-> FALSE, thinking |-> thinking, required |-> FALSE, parallel |-> TRUE,
   stops |-> TextStops, form |-> "text"]
Offered(thinking, required, parallel) ==
  [tools |-> TRUE, thinking |-> thinking, required |-> required, parallel |-> parallel,
   stops |-> ToolStops, form |-> "text"]
Calling(form) == [Offered(FALSE, FALSE, FALSE) EXCEPT !.form = form]

MCOptions == {Plain(TRUE), Plain(FALSE), [Plain(FALSE) EXCEPT !.stops = NestedStops], 
              Offered(TRUE, FALSE, TRUE), Offered(FALSE, TRUE, FALSE),
              Offered(FALSE, FALSE, TRUE),
              Calling("json"), Calling("xml")}

MCMaxText(o) ==
  IF o.form # "text" THEN 14 ELSE IF o.tools THEN 8 ELSE 6

\* JSON: quotes, escapes and the two halves of a closing marker.
JsonWords(text) ==
  {<<"k">>, <<"e">>} \cup
  (IF text[Len(text)] = "/" THEN {<<"t">>} ELSE {<<"<", "/">>})

\* XML: tags, none of them twice in a row, and whole markers behind a function's
\* closing tag.  The second key comes only behind a parameter: keys are alike.
XmlWords(text) ==
  LET last   == text[Len(text)]
      second == IF last = "/p" THEN {"q"} ELSE {}
  IN  {<<tag>> : tag \in ({"p", "/p", "/f"} \cup second) \ {last}} \cup
      (IF HasAny(text, {<<"/f">>}) THEN {MCClose} ELSE {})

\* Texts of letters.
Texts(n) == UNION {[1..k -> {"<", "/", "k", "t"}] : k \in 0..n}

\* How a call begins.
Beginning(form) == MCOpen \o <<IF form = "json" THEN "t" ELSE "f">>

MCChunks(o) ==
  CASE o.form = "text" -> Texts(IF o.tools THEN 1 ELSE 2)
    [] o.form = "json" -> {<<>>, Beginning("json"), <<"k">>, <<"e">>, <<"t">>, <<"<", "/">>}
    [] o.form = "xml"  -> {<<>>, Beginning("xml"), MCClose} \cup
                          {<<tag>> : tag \in {"p", "q", "/p", "/f"}}

MCFollows(o, text, chunk) ==
  /\ Len(text) + Len(chunk) <= MCMaxText(o)
  /\ o.form # "text" /\ chunk # <<>> =>
       CASE text = <<>> -> chunk = Beginning(o.form)
         [] text # <<>> /\ o.form = "json" -> chunk \in JsonWords(text)
         [] text # <<>> /\ o.form = "xml"  -> chunk \in XmlWords(text)

\* A JSON body whose second symbol, if any, is not a slash, with every string
\* closed and no escape outside of them.
MCValidJson(body) ==
  /\ body # <<>> /\ body[1] = "t"
  /\ Len(body) > 1 => body[2] # "/"
  /\ JsonMode(body) = "plain"
  /\ \A i \in DOMAIN body : body[i] = "e" => JsonMode(Take(body, i - 1)) # "plain"
=============================================================================
