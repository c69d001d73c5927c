----------------------------- MODULE ServerProofs -----------------------------
(***************************************************************************)
(* Proofs about the HTTP server, for any number of clients, any capacities *)
(* of the job queue and of the event channels, and answers of any length:  *)
(* the form of a streamed answer, that no delta is lost on its way, and    *)
(* that JSON content is held back.                                         *)
(*                                                                         *)
(* What was sent to a client, what waits in its channel and what the       *)
(* worker still has to send are one text.  The argument follows that text: *)
(* the worker adds to its end, Deliver and SendDelta move it from the      *)
(* worker to the channel, the handler from the channel to the client.      *)
(*                                                                         *)
(* And about the request it parses first, for any number of messages,      *)
(* calls and tools: the scan refuses a message exactly when no             *)
(* conversation goes on with it (ReadableIsOrderly), for which its two     *)
(* sets of ids are all it needs to keep (Kept), and the tools it lets      *)
(* through are the ones the model is shown.                                *)
(***************************************************************************)
EXTENDS Server, Request, SequenceTheorems, FiniteSetTheorems, WellFoundedInduction, TLAPS

\* Events and chunks.
Types == {"ready", "role", "delta", "reasoning", "done", "error", "invalid",
          "usage", "[DONE]", "400", "500", "503"}
Outcomes == {"none", "stop", "length", "cancelled", "error"}
Chunks == [type : Types, n : Nat, finish : Outcomes \cup {"", "tool_calls"}]

TypeOK ==
  /\ conn \in [Requests -> {"new", "first", "stream", "collect", "ended", "left"}]
  /\ kind \in [Requests -> Kinds]
  /\ queue \in Seq(Requests)
  /\ events \in [Requests -> Seq(Chunks)]
  /\ gone \in [Requests -> BOOLEAN]
  /\ wire \in [Requests -> Seq(Chunks)]
  /\ phase \in {"recv", "prepare", "generate", "process", "send", "returned",
                "deliver", "dead"}
  /\ job \in Requests \cup {NoJob}
  /\ made \in Nat
  /\ stopped \in BOOLEAN
  /\ broken \in BOOLEAN
  /\ outcome \in Outcomes
  /\ outbox \in Seq(Chunks)

\* The worker: when it has a job and something to send, that a job is queued
\* once, and why an answer may be declined.
WorkerPlace ==
  /\ job = NoJob <=> phase \in {"recv", "dead"}
  /\ phase \notin {"send", "deliver"} => outbox = <<>>
  /\ phase = "deliver" => outbox # <<>>
  /\ phase = "send" => Len(outbox) <= 1
  /\ phase = "prepare" \/ job = NoJob => made = 0
  /\ phase = "returned" =>
       outcome \in {"stop", "length", "error"} \/ stopped \/ broken \/ gone[job]
  /\ \A i, j \in 1..Len(queue) : queue[i] = queue[j] => i = j
  /\ \A i \in 1..Len(queue) : queue[i] # job

----------------------------------------------------------------------------
\* The text of one request.

\* What the worker has still to send to r, and the whole text of r.
OutOf(r) == IF job = r THEN outbox ELSE <<>>
Said(r)  == (wire[r] \o events[r]) \o OutOf(r)

Texts == {"delta", "reasoning"}
Opens == {"ready", "role"}

\* Each event stands where it may: the deltas are counted from the second
\* place on, or there is one of them after the reasoning, and Done counts.
WellSaid(s, json) ==
  \A i \in 1..Len(s) :
    /\ s[i].type \in Opens => i = 1
    /\ ~json =>
         /\ s[i].type # "reasoning"
         /\ s[i].type = "delta" => s[i].n = i - 1
         /\ s[i].type = "done" => s[i].n = i - 2
    /\ json =>
         /\ s[i].type = "reasoning" => i = 2
         /\ s[i].type = "delta" => i = 2 \/ (i = 3 /\ s[2].type = "reasoning")
         /\ s[i].type = "done" =>
              i > 2 /\ s[i - 1].type = "delta" /\ s[i - 1].n = s[i].n

\* A stream that is still open.
Opening(w) ==
  /\ w # <<>>
  /\ w[1].type = "role"
  /\ \A i \in 2..Len(w) : w[i].type \in Texts

\* What may end it.
Closing(c) ==
  /\ c # <<>>
  /\ c[Len(c)].type = "[DONE]"
  /\ \E i \in 1..Len(c) : c[i].type \in {"done", "error"}
  /\ \A i \in 1..Len(c) : c[i].type \in {"done", "error", "usage", "[DONE]"}
  /\ \A i \in 1..Len(c) : c[i].type = "[DONE]" => i = Len(c)
  /\ \A i \in 1..Len(c) : c[i].type = "done" => i = 1

\* A finish reason that is told is one of the three.
Told(s) == \A i \in 1..Len(s) : s[i].type = "done" => s[i].finish \in Reasons

\* The two properties of a stream, of what was sent and of where its handler is.
Places(w, type) == {i \in 1..Len(w) : w[i].type = type}

Grammatical(w, c) ==
  c \in {"stream", "ended"} /\ Places(w, "role") # {} =>
    /\ w[1].type = "role"
    /\ c = "ended" <=> w[Len(w)].type = "[DONE]"
    /\ \A i, j \in Places(w, "[DONE]") : i = j
    /\ c = "ended" => Places(w, "done") \cup Places(w, "error") # {}
    /\ \A i \in Places(w, "done") \cup Places(w, "error"),
          j \in Places(w, "delta") \cup Places(w, "reasoning") : j < i

Accounted(w, k) ==
  /\ ~k.json => \A i \in Places(w, "delta") :
                  w[i].n = Cardinality({j \in Places(w, "delta") : j <= i})
  /\ k.stream => \A d \in Places(w, "done") :
       IF k.json THEN \E i \in Places(w, "delta") :
                        Places(w, "delta") = {i} /\ w[i].n = w[d].n
       ELSE Cardinality(Places(w, "delta")) = w[d].n

----------------------------------------------------------------------------
\* One request and the worker.

Queued(r)   == \E i \in 1..Len(queue) : queue[i] = r
Waits(r)    == Queued(r) \/ (job = r /\ phase = "prepare")
Served(r)   == job = r /\ phase \in {"generate", "process", "send", "returned"}

PlaceOf(r) ==
  /\ gone[r] <=> conn[r] \in {"ended", "left"}
  /\ conn[r] \in {"new", "ended", "left"} => events[r] = <<>>
  /\ conn[r] \in {"new", "first", "collect"} => wire[r] = <<>>
  /\ conn[r] = "new" => job # r /\ ~Queued(r)
  /\ conn[r] = "stream" => kind[r].stream /\ Opening(wire[r])
  /\ conn[r] = "collect" => ~kind[r].stream

WaitingOf(r) ==
  Waits(r) => conn[r] \in {"first", "left"} /\ wire[r] = <<>> /\ events[r] = <<>>

TellingOf(r) ==
  conn[r] \in {"first", "stream"} => WellSaid(Said(r), kind[r].json)

ProgressOf(r) ==
  Served(r) /\ conn[r] \in {"first", "stream"} =>
    Len(Said(r)) = IF kind[r].json THEN 1 ELSE made + 1

QuietOf(r) ==
  Served(r) /\ kind[r].json =>
    /\ outbox = <<>>
    /\ \A i \in 1..Len(wire[r]) : wire[r][i].type # "delta"
    /\ \A i \in 1..Len(events[r]) : events[r][i].type = "ready"

ToldOf(r) == Told(wire[r]) /\ Told(events[r]) /\ Told(OutOf(r))

ClosedOf(r) ==
  conn[r] = "ended" => Grammatical(wire[r], "ended") /\ Accounted(wire[r], kind[r])

RequestOK(r) ==
  /\ PlaceOf(r)
  /\ WaitingOf(r)
  /\ TellingOf(r)
  /\ ProgressOf(r)
  /\ QuietOf(r)
  /\ ToldOf(r)
  /\ ClosedOf(r)

IInv ==
  /\ TypeOK
  /\ WorkerPlace
  /\ \A r \in Requests : RequestOK(r)

----------------------------------------------------------------------------
\* Sequences.

\* A sequence that is not empty: its first element and the rest.
LEMMA FirstAndRest ==
  ASSUME NEW S, NEW s \in Seq(S), s # <<>>
  PROVE  /\ Len(s) \in Nat /\ Len(s) >= 1
         /\ Head(s) = s[1] /\ Head(s) \in S
         /\ Tail(s) \in Seq(S) /\ Len(Tail(s)) = Len(s) - 1
         /\ \A i \in 1..Len(Tail(s)) : Tail(s)[i] = s[i + 1]
<1>1. Len(s) \in Nat \ {0}
  BY EmptySeq, LenProperties
<1>2. /\ Head(s) \in S /\ Tail(s) \in Seq(S) /\ Len(Tail(s)) = Len(s) - 1
      /\ \A i \in 1..Len(Tail(s)) : Tail(s)[i] = s[i + 1]
  BY HeadTailProperties
<1>3. Head(s) = s[1]
  OBVIOUS
<1> QED
  BY <1>1, <1>2, <1>3

\* One element.
LEMMA Single ==
  ASSUME NEW S, NEW x \in S
  PROVE  /\ <<x>> \in Seq(S) /\ <<x>> # <<>> /\ Len(<<x>>) = 1 /\ <<x>>[1] = x
         /\ Tail(<<x>>) = <<>> /\ <<x>> = Append(<<>>, x)
OBVIOUS

\* What an element of a concatenation is.
LEMMA PartsOfConcat ==
  ASSUME NEW S, NEW s \in Seq(S), NEW t \in Seq(S)
  PROVE  /\ s \o t \in Seq(S)
         /\ Len(s) \in Nat /\ Len(t) \in Nat /\ Len(s \o t) = Len(s) + Len(t)
         /\ \A i \in 1..Len(s) : (s \o t)[i] = s[i]
         /\ \A i \in 1..Len(t) : (s \o t)[Len(s) + i] = t[i]
         /\ \A i \in 1..Len(s \o t) :
              \/ i \in 1..Len(s) /\ (s \o t)[i] = s[i]
              \/ \E j \in 1..Len(t) : i = Len(s) + j /\ (s \o t)[i] = t[j]
<1> DEFINE c == s \o t
<1>1. Len(s) \in Nat /\ Len(t) \in Nat
  BY LenProperties
<1>2. /\ c \in Seq(S) /\ Len(c) = Len(s) + Len(t)
      /\ \A i \in 1..Len(s) + Len(t) : c[i] = IF i <= Len(s) THEN s[i] ELSE t[i - Len(s)]
  BY ConcatProperties
<1> HIDE DEF c
<1>3. \A i \in 1..Len(s) : c[i] = s[i]
  BY <1>1, <1>2
<1>4. \A i \in 1..Len(t) : c[Len(s) + i] = t[i]
  BY <1>1, <1>2
<1>5. ASSUME NEW i \in 1..Len(c)
      PROVE  \/ i \in 1..Len(s) /\ c[i] = s[i]
             \/ \E j \in 1..Len(t) : i = Len(s) + j /\ c[i] = t[j]
  <2>1. CASE i <= Len(s)
    BY <1>1, <1>2, <2>1
  <2>2. CASE ~(i <= Len(s))
    <3>1. i - Len(s) \in 1..Len(t) /\ i = Len(s) + (i - Len(s)) /\ c[i] = t[i - Len(s)]
      BY <1>1, <1>2, <2>2
    <3> QED
      BY <3>1
  <2> QED
    BY <2>1, <2>2
<1> QED
  BY <1>1, <1>2, <1>3, <1>4, <1>5 DEF c

\* The first of the second part moves to the end of the first part.
LEMMA MoveHead ==
  ASSUME NEW S, NEW s \in Seq(S), NEW t \in Seq(S), t # <<>>
  PROVE  s \o t = Append(s, Head(t)) \o Tail(t)
<1> DEFINE h == Head(t)
           l == Tail(t)
           o == <<h>>
           c == o \o l
<1>1. /\ Len(t) \in Nat /\ Len(t) >= 1 /\ h = t[1] /\ h \in S
      /\ l \in Seq(S) /\ Len(l) = Len(t) - 1 /\ \A i \in 1..Len(l) : l[i] = t[i + 1]
  BY FirstAndRest
<1>2. o \in Seq(S) /\ Len(o) = 1 /\ o[1] = h
  BY <1>1, Single
<1>3. Append(s, h) = s \o o
  BY <1>1, AppendIsConcat
<1> HIDE DEF h, l, o
<1>8. o \in Seq(S) /\ l \in Seq(S)
  BY <1>1, <1>2
<1>9. /\ c \in Seq(S) /\ Len(c) = Len(o) + Len(l)
      /\ \A i \in 1..Len(o) + Len(l) : c[i] = IF i <= Len(o) THEN o[i] ELSE l[i - Len(o)]
  BY <1>8, ConcatProperties
<1>7. (s \o o) \o l = s \o c
  BY <1>8, ConcatAssociative, SMTT(30)
<1>4. /\ c \in Seq(S) /\ Len(c) = 1 + Len(l)
      /\ \A i \in 1..1 + Len(l) : c[i] = IF i <= 1 THEN o[i] ELSE l[i - 1]
  BY <1>2, <1>9
<1> HIDE DEF c
<1>5. Len(t) = Len(c) /\ \A i \in 1..Len(t) : t[i] = c[i]
  <2>1. Len(c) = Len(t)
    BY <1>1, <1>4
  <2>2. ASSUME NEW i \in 1..Len(t), i > 1
        PROVE  t[i] = c[i]
    <3>1. i - 1 \in 1..Len(l) /\ (i - 1) + 1 = i
      BY <1>1, <2>2
    <3>2. l[i - 1] = t[i]
      BY <1>1, <3>1
    <3> QED
      BY <1>1, <1>4, <2>1, <2>2, <3>2
  <2>3. c[1] = t[1]
    BY <1>1, <1>2, <1>4
  <2> QED
    BY <1>1, <2>1, <2>2, <2>3
<1>6. t = c
  BY <1>4, <1>5, SeqEqual
<1> QED
  BY <1>3, <1>6, <1>7 DEF h, l

\* The same where there is a third part: from the second to the first.
LEMMA MoveToFirst ==
  ASSUME NEW S, NEW s \in Seq(S), NEW t \in Seq(S), NEW u \in Seq(S), t # <<>>
  PROVE  (s \o t) \o u = (Append(s, Head(t)) \o Tail(t)) \o u
BY MoveHead

\* From the third to the second.
LEMMA MoveToSecond ==
  ASSUME NEW S, NEW s \in Seq(S), NEW t \in Seq(S), NEW u \in Seq(S), u # <<>>
  PROVE  (s \o t) \o u = (s \o Append(t, Head(u))) \o Tail(u)
<1> DEFINE h == Head(u)
           a == Append(t, h)
           l == Tail(u)
<1>1. h \in S /\ l \in Seq(S)
  BY FirstAndRest
<1>2. a \in Seq(S)
  BY <1>1, AppendProperties
<1>3. t \o u = a \o l
  BY MoveHead
<1> HIDE DEF a, l
<1>4. (s \o t) \o u = s \o (t \o u)
  BY ConcatAssociative, SMTT(30)
<1>5. (s \o a) \o l = s \o (a \o l)
  BY <1>1, <1>2, ConcatAssociative, SMTT(30)
<1> QED
  BY <1>3, <1>4, <1>5 DEF a, l

\* Appending to the last part appends to the whole.
LEMMA AppendToLast ==
  ASSUME NEW S, NEW s \in Seq(S), NEW t \in Seq(S), NEW x \in S
  PROVE  s \o Append(t, x) = Append(s \o t, x)
<1> DEFINE o == <<x>>
           b == s \o t
<1>1. o \in Seq(S) /\ b \in Seq(S)
  BY Single, ConcatProperties
<1>2. Append(t, x) = t \o o
  BY AppendIsConcat
<1>3. Append(b, x) = b \o o
  BY <1>1, AppendIsConcat
<1> HIDE DEF o
<1>4. (s \o t) \o o = s \o (t \o o)
  BY <1>1, ConcatAssociative, SMTT(30)
<1> QED
  BY <1>2, <1>3, <1>4

----------------------------------------------------------------------------
\* Texts.

\* The items the server makes.
LEMMA ItemType ==
  ASSUME NEW type \in Types, NEW n \in Nat
  PROVE  /\ Item(type, n) \in Chunks
         /\ Item(type, n).type = type /\ Item(type, n).n = n /\ Item(type, n).finish = ""
BY DEF Item, Chunks, Types

LEMMA DoneType ==
  ASSUME NEW f \in Outcomes \cup {"tool_calls"}, NEW n \in Nat
  PROVE  /\ Done(f, n) \in Chunks
         /\ Done(f, n).type = "done" /\ Done(f, n).n = n /\ Done(f, n).finish = f
BY DEF Done, Chunks, Types

\* The first part of what is well said is.
LEMMA WellSaidPart ==
  ASSUME NEW s \in Seq(Chunks), NEW t \in Seq(Chunks), NEW j,
         WellSaid(s, j), Len(t) <= Len(s), \A i \in 1..Len(t) : t[i] = s[i]
  PROVE  WellSaid(t, j)
<1>1. Len(s) \in Nat /\ Len(t) \in Nat
  BY LenProperties
<1> SUFFICES ASSUME NEW i \in 1..Len(t)
             PROVE  /\ t[i].type \in Opens => i = 1
                    /\ ~j =>
                         /\ t[i].type # "reasoning"
                         /\ t[i].type = "delta" => t[i].n = i - 1
                         /\ t[i].type = "done" => t[i].n = i - 2
                    /\ j =>
                         /\ t[i].type = "reasoning" => i = 2
                         /\ t[i].type = "delta" =>
                              i = 2 \/ (i = 3 /\ t[2].type = "reasoning")
                         /\ t[i].type = "done" =>
                              i > 2 /\ t[i - 1].type = "delta" /\ t[i - 1].n = t[i].n
  BY DEF WellSaid
<1>2. i \in 1..Len(s) /\ t[i] = s[i]
  BY <1>1
<1>3. i = 3 => t[2] = s[2]
  BY <1>1
<1>4. i > 2 => t[i - 1] = s[i - 1]
  BY <1>1
<1> QED
  BY <1>2, <1>3, <1>4 DEF WellSaid

\* What may be said after s.
Follows(s, x, j) ==
  /\ x.type \notin Opens \/ s = <<>>
  /\ ~j =>
       /\ x.type # "reasoning"
       /\ x.type = "delta" => x.n = Len(s)
       /\ x.type = "done" => x.n = Len(s) - 1
  /\ j =>
       /\ x.type = "reasoning" => Len(s) = 1
       /\ x.type = "delta" => Len(s) = 1 \/ (Len(s) = 2 /\ s[2].type = "reasoning")
       /\ x.type = "done" =>
            Len(s) > 1 /\ s[Len(s)].type = "delta" /\ s[Len(s)].n = x.n

LEMMA WellSaidMore ==
  ASSUME NEW s \in Seq(Chunks), NEW x \in Chunks, NEW j,
         WellSaid(s, j), Follows(s, x, j)
  PROVE  WellSaid(Append(s, x), j)
<1> DEFINE t == Append(s, x)
<1>1. /\ t \in Seq(Chunks) /\ Len(t) = Len(s) + 1
      /\ (\A i \in 1..Len(s) : t[i] = s[i]) /\ t[Len(s) + 1] = x
  BY AppendProperties
<1>2. Len(s) \in Nat /\ (s = <<>> => Len(s) = 0)
  BY LenProperties
<1> HIDE DEF t
<1> SUFFICES ASSUME NEW i \in 1..Len(t)
             PROVE  /\ t[i].type \in Opens => i = 1
                    /\ ~j =>
                         /\ t[i].type # "reasoning"
                         /\ t[i].type = "delta" => t[i].n = i - 1
                         /\ t[i].type = "done" => t[i].n = i - 2
                    /\ j =>
                         /\ t[i].type = "reasoning" => i = 2
                         /\ t[i].type = "delta" =>
                              i = 2 \/ (i = 3 /\ t[2].type = "reasoning")
                         /\ t[i].type = "done" =>
                              i > 2 /\ t[i - 1].type = "delta" /\ t[i - 1].n = t[i].n
  BY DEF WellSaid, t
<1>3. CASE i <= Len(s)
  <2>1. i \in 1..Len(s) /\ t[i] = s[i]
    BY <1>1, <1>2, <1>3
  <2>2. i = 3 => t[2] = s[2]
    BY <1>1, <1>2, <1>3
  <2>3. i > 2 => t[i - 1] = s[i - 1]
    BY <1>1, <1>2, <1>3
  <2> QED
    BY <2>1, <2>2, <2>3 DEF WellSaid
<1>4. CASE i = Len(s) + 1
  <2>1. t[i] = x
    BY <1>1, <1>4
  <2>2. i = 3 => t[2] = s[2]
    BY <1>1, <1>2, <1>4
  <2>3. i > 2 => t[i - 1] = s[Len(s)]
    BY <1>1, <1>2, <1>4
  <2> QED
    BY <1>2, <1>4, <2>1, <2>2, <2>3 DEF Follows
<1> QED
  BY <1>1, <1>2, <1>3, <1>4

\* The role chunk stands where the ready event stood.
LEMMA WellSaidOpened ==
  ASSUME NEW s \in Seq(Chunks), NEW t \in Seq(Chunks), NEW j,
         WellSaid(s, j), Len(t) = Len(s), \A i \in 2..Len(t) : t[i] = s[i],
         t # <<>> => t[1].type = "role"
  PROVE  WellSaid(t, j)
<1>1. Len(s) \in Nat /\ Len(t) \in Nat /\ (t = <<>> => Len(t) = 0)
  BY LenProperties
<1> SUFFICES ASSUME NEW i \in 1..Len(t)
             PROVE  /\ t[i].type \in Opens => i = 1
                    /\ ~j =>
                         /\ t[i].type # "reasoning"
                         /\ t[i].type = "delta" => t[i].n = i - 1
                         /\ t[i].type = "done" => t[i].n = i - 2
                    /\ j =>
                         /\ t[i].type = "reasoning" => i = 2
                         /\ t[i].type = "delta" =>
                              i = 2 \/ (i = 3 /\ t[2].type = "reasoning")
                         /\ t[i].type = "done" =>
                              i > 2 /\ t[i - 1].type = "delta" /\ t[i - 1].n = t[i].n
  BY DEF WellSaid
<1>2. CASE i = 1
  BY <1>1, <1>2
<1>3. CASE i > 1
  <2>1. i \in 1..Len(s) /\ t[i] = s[i]
    BY <1>1, <1>3
  <2>2. i = 3 => t[2] = s[2]
    BY <1>1, <1>3
  <2>3. i > 2 => t[i - 1] = s[i - 1]
    BY <1>1, <1>3
  <2> QED
    BY <2>1, <2>2, <2>3 DEF WellSaid
<1> QED
  BY <1>1, <1>2, <1>3

\* An open stream that is not JSON: every chunk behind the role is a delta,
\* and its number is its count.
LEMMA DeltasCounted ==
  ASSUME NEW w \in Seq(Chunks), NEW j, ~j, Opening(w), WellSaid(w, j)
  PROVE  /\ Places(w, "delta") = 2..Len(w)
         /\ Cardinality(Places(w, "delta")) = Len(w) - 1
         /\ \A i \in Places(w, "delta") :
              w[i].n = Cardinality({l \in Places(w, "delta") : l <= i})
<1>1. Len(w) \in Nat /\ Len(w) >= 1
  BY FirstAndRest DEF Opening
<1>2. \A i \in 1..Len(w) : w[i].type = "delta" <=> i \in 2..Len(w)
  BY <1>1 DEF Opening, WellSaid, Texts
<1>3. Places(w, "delta") = 2..Len(w)
  BY <1>1, <1>2 DEF Places
<1>4. Cardinality(2..Len(w)) = Len(w) - 1
  BY <1>1, FS_Interval
<1>5. ASSUME NEW i \in 2..Len(w)
      PROVE  w[i].n = Cardinality({l \in 2..Len(w) : l <= i})
  <2>1. {l \in 2..Len(w) : l <= i} = 2..i
    BY <1>1
  <2>2. Cardinality(2..i) = i - 1
    BY <1>1, FS_Interval
  <2>3. i \in 1..Len(w) /\ w[i].type = "delta"
    BY <1>1, <1>2
  <2>4. w[i].n = i - 1
    BY <2>3 DEF WellSaid
  <2> QED
    BY <2>1, <2>2, <2>4
<1> QED
  BY <1>3, <1>4, <1>5

\* A stream that is still open has both properties.
LEMMA OpenStream ==
  ASSUME NEW w \in Seq(Chunks), NEW k, Opening(w), WellSaid(w, k.json)
  PROVE  Grammatical(w, "stream") /\ Accounted(w, k)
<1>1. Len(w) \in Nat /\ Len(w) >= 1
  BY FirstAndRest DEF Opening
<1>2. \A i \in 1..Len(w) : w[i].type \in {"role", "delta", "reasoning"}
  BY <1>1 DEF Opening, Texts
<1>3. /\ Places(w, "done") = {} /\ Places(w, "error") = {} /\ Places(w, "[DONE]") = {}
      /\ w[Len(w)].type # "[DONE]"
  BY <1>1, <1>2 DEF Places
<1>4. Grammatical(w, "stream")
  BY <1>3 DEF Grammatical, Opening
<1>5. Accounted(w, k)
  BY <1>3, DeltasCounted DEF Accounted
<1> QED
  BY <1>4, <1>5

\* An open stream that is closed with an error, or with Done where Done may
\* follow, has both.
LEMMA ClosedStream ==
  ASSUME NEW w \in Seq(Chunks), NEW c \in Seq(Chunks), NEW k,
         Opening(w), Closing(c), WellSaid(w, k.json),
         c[1].type = "done" => WellSaid(Append(w, c[1]), k.json)
  PROVE  Grammatical(w \o c, "ended") /\ Accounted(w \o c, k)
<1> DEFINE t == w \o c
           a == Append(w, c[1])
<1>1. Len(w) \in Nat /\ Len(w) >= 1 /\ Len(c) \in Nat /\ Len(c) >= 1
  BY FirstAndRest DEF Opening, Closing
<1>2. /\ t \in Seq(Chunks) /\ Len(t) = Len(w) + Len(c)
      /\ \A i \in 1..Len(w) : t[i] = w[i]
      /\ \A i \in 1..Len(c) : t[Len(w) + i] = c[i]
      /\ \A i \in 1..Len(t) :
           \/ i \in 1..Len(w) /\ t[i] = w[i]
           \/ \E j \in 1..Len(c) : i = Len(w) + j /\ t[i] = c[j]
  BY PartsOfConcat
<1>3. /\ a \in Seq(Chunks) /\ Len(a) = Len(w) + 1
      /\ (\A i \in 1..Len(w) : a[i] = w[i]) /\ a[Len(w) + 1] = c[1]
  <2>1. c[1] \in Chunks
    BY <1>1, ElementOfSeq
  <2> QED
    BY <2>1, AppendProperties
<1> HIDE DEF t, a
<1>4. /\ \A i \in 1..Len(w) : w[i].type \in {"role", "delta", "reasoning"}
      /\ \A i \in 1..Len(w) : w[i].type = "role" => i = 1
  BY <1>1 DEF Opening, Texts
<1>5. /\ \A i \in 1..Len(c) : c[i].type \in {"done", "error", "usage", "[DONE]"}
      /\ \A i \in 1..Len(c) : c[i].type = "[DONE]" => i = Len(c)
      /\ \A i \in 1..Len(c) : c[i].type = "done" => i = 1
  BY DEF Closing
<1>6. \A x \in {"role", "delta", "reasoning"} : Places(t, x) = Places(w, x)
  <2> SUFFICES ASSUME NEW x \in {"role", "delta", "reasoning"}
               PROVE  Places(t, x) = Places(w, x)
    OBVIOUS
  <2>1. ASSUME NEW i \in 1..Len(t), t[i].type = x
        PROVE  i \in 1..Len(w) /\ w[i].type = x
    BY <1>2, <1>5, <2>1
  <2>2. ASSUME NEW i \in 1..Len(w), w[i].type = x
        PROVE  i \in 1..Len(t) /\ t[i].type = x
    BY <1>1, <1>2, <2>2
  <2> QED
    BY <2>1, <2>2 DEF Places
<1>7. \A i \in Places(t, "done") \cup Places(t, "error") \cup Places(t, "[DONE]") :
         \E j \in 1..Len(c) : i = Len(w) + j /\ t[i] = c[j]
  BY <1>2, <1>4 DEF Places
<1>8. Grammatical(t, "ended")
  <2>1. t[1].type = "role"
    BY <1>1, <1>2 DEF Opening
  <2>2. t[Len(t)].type = "[DONE]"
    BY <1>1, <1>2 DEF Closing
  <2>3. \A i, j \in Places(t, "[DONE]") : i = j
    <3>1. ASSUME NEW i \in Places(t, "[DONE]") PROVE i = Len(w) + Len(c)
      <4>1. PICK j \in 1..Len(c) : i = Len(w) + j /\ t[i] = c[j]
        BY <1>7
      <4>2. c[j].type = "[DONE]"
        BY <4>1 DEF Places
      <4> QED
        BY <1>5, <4>1, <4>2
    <3> QED
      BY <3>1
  <2>4. Places(t, "done") \cup Places(t, "error") # {}
    <3>1. PICK i \in 1..Len(c) : c[i].type \in {"done", "error"}
      BY DEF Closing
    <3>2. Len(w) + i \in 1..Len(t) /\ t[Len(w) + i] = c[i]
      BY <1>1, <1>2
    <3>3. Len(w) + i \in Places(t, "done") \cup Places(t, "error")
      BY <3>1, <3>2 DEF Places
    <3> QED
      BY <3>3
  <2>5. ASSUME NEW i \in Places(t, "done") \cup Places(t, "error"),
               NEW j \in Places(t, "delta") \cup Places(t, "reasoning")
        PROVE  j < i
    <3>1. j \in 1..Len(w)
      BY <1>6 DEF Places
    <3>2. PICK l \in 1..Len(c) : i = Len(w) + l
      BY <1>7
    <3> QED
      BY <1>1, <3>1, <3>2
  <2> QED
    BY <2>1, <2>2, <2>3, <2>4, <2>5 DEF Grammatical
<1>9. \A i \in Places(t, "delta") : i \in 1..Len(w) /\ t[i] = w[i] /\ w[i].type = "delta"
  BY <1>2, <1>6 DEF Places
<1>10. ASSUME NEW d \in Places(t, "done")
       PROVE  /\ d = Len(w) + 1 /\ t[d] = a[Len(w) + 1] /\ a[Len(w) + 1].type = "done"
              /\ Len(w) + 1 \in 1..Len(a) /\ WellSaid(a, k.json)
  <2>1. PICK l \in 1..Len(c) : d = Len(w) + l /\ t[d] = c[l]
    BY <1>7
  <2>2. c[l].type = "done"
    BY <2>1 DEF Places
  <2>3. l = 1
    BY <1>5, <2>2
  <2> QED
    BY <1>1, <1>3, <2>1, <2>2, <2>3 DEF a
<1>11. CASE ~k.json
  <2>1. /\ Cardinality(Places(t, "delta")) = Len(w) - 1
        /\ \A i \in Places(t, "delta") :
             t[i].n = Cardinality({l \in Places(t, "delta") : l <= i})
    BY <1>6, <1>9, <1>11, DeltasCounted
  <2>2. \A d \in Places(t, "done") : t[d].n = Len(w) - 1
    <3> SUFFICES ASSUME NEW d \in Places(t, "done") PROVE t[d].n = Len(w) - 1
      OBVIOUS
    <3>1. a[Len(w) + 1].n = (Len(w) + 1) - 2
      BY <1>10, <1>11 DEF WellSaid
    <3> QED
      BY <1>1, <1>10, <3>1
  <2> QED
    BY <1>8, <1>11, <2>1, <2>2 DEF Accounted, t
<1>12. CASE k.json
  <2>1. ASSUME NEW d \in Places(t, "done")
        PROVE  /\ Places(t, "delta") = {Len(w)}
               /\ t[Len(w)].n = t[d].n
    <3>1. /\ Len(w) + 1 > 2 /\ a[(Len(w) + 1) - 1].type = "delta"
          /\ a[(Len(w) + 1) - 1].n = a[Len(w) + 1].n
      BY <1>10, <1>12 DEF WellSaid
    <3>2. Len(w) \in 1..Len(w) /\ (Len(w) + 1) - 1 = Len(w)
      BY <1>1
    <3>3. w[Len(w)].type = "delta" /\ w[Len(w)].n = a[Len(w) + 1].n
      BY <1>3, <3>1, <3>2
    <3>4. ASSUME NEW i \in 1..Len(w), w[i].type = "delta"
          PROVE  i = 2 \/ (i = 3 /\ w[2].type = "reasoning")
      BY <1>12, <3>4 DEF WellSaid
    <3>5. Len(w) = 2 \/ (Len(w) = 3 /\ w[2].type = "reasoning")
      BY <3>2, <3>3, <3>4
    <3>6. Places(w, "delta") = {Len(w)}
      <4>1. Len(w) \in Places(w, "delta")
        BY <3>2, <3>3 DEF Places
      <4>2. ASSUME NEW i \in Places(w, "delta") PROVE i = Len(w)
        <5>1. i \in 1..Len(w) /\ w[i].type = "delta"
          BY DEF Places
        <5>2. i = 2 \/ (i = 3 /\ w[2].type = "reasoning")
          BY <3>4, <5>1
        <5>3. i = 2 => w[2].type # "reasoning"
          BY <5>1
        <5>4. Len(w) = 2 => i # 3
          <6>1. Len(w) = 2 => i \in 1..2
            BY <5>1
          <6> QED
            BY <6>1
        <5>5. CASE i = 2
          BY <3>5, <5>3, <5>5
        <5>6. CASE i = 3
          BY <3>5, <5>4, <5>6
        <5> QED
          BY <5>2, <5>5, <5>6
      <4> QED
        BY <4>1, <4>2
    <3>7. t[Len(w)] = w[Len(w)]
      BY <1>2, <3>2
    <3> QED
      BY <1>6, <1>10, <3>3, <3>6, <3>7
  <2>2. \A d \in Places(t, "done") :
          \E i \in Places(t, "delta") : Places(t, "delta") = {i} /\ t[i].n = t[d].n
    <3> SUFFICES ASSUME NEW d \in Places(t, "done")
                 PROVE  \E i \in Places(t, "delta") :
                          Places(t, "delta") = {i} /\ t[i].n = t[d].n
      OBVIOUS
    <3>1. Places(t, "delta") = {Len(w)} /\ t[Len(w)].n = t[d].n
      BY <2>1
    <3> QED
      BY <3>1
  <2>3. Accounted(t, k)
    BY <1>12, <2>2 DEF Accounted
  <2> QED
    BY <1>8, <2>3 DEF t
<1> QED
  BY <1>11, <1>12

\* An answer without role and deltas has both, if it is streamed without Done.
LEMMA ClosedOther ==
  ASSUME NEW c \in Seq(Chunks), NEW k,
         \A i \in 1..Len(c) : c[i].type \notin {"role", "delta"},
         k.stream => \A i \in 1..Len(c) : c[i].type # "done"
  PROVE  Grammatical(c, "ended") /\ Accounted(c, k)
<1>1. Places(c, "role") = {} /\ Places(c, "delta") = {} /\ (k.stream => Places(c, "done") = {})
  BY DEF Places
<1> QED
  BY <1>1 DEF Grammatical, Accounted

LEMMA NotEmpty ==
  ASSUME NEW s, Len(s) \in Nat \ {0}
  PROVE  s # <<>>
BY EmptySeq

\* Two items and three.
LEMMA TwoItems ==
  ASSUME NEW S, NEW a \in S, NEW b \in S
  PROVE  /\ <<a>> \o <<b>> \in Seq(S) /\ Len(<<a>> \o <<b>>) = 2
         /\ (<<a>> \o <<b>>)[1] = a /\ (<<a>> \o <<b>>)[2] = b
<1> DEFINE s == <<a>>
           t == <<b>>
           c == s \o t
<1>1. s \in Seq(S) /\ Len(s) = 1 /\ s[1] = a /\ t \in Seq(S) /\ Len(t) = 1 /\ t[1] = b
  BY Single
<1> HIDE DEF s, t
<1>2. s \in Seq(S) /\ t \in Seq(S)
  BY <1>1
<1>3. /\ c \in Seq(S) /\ Len(c) = Len(s) + Len(t)
      /\ \A i \in 1..Len(s) : c[i] = s[i]
      /\ \A i \in 1..Len(t) : c[Len(s) + i] = t[i]
  BY <1>2, PartsOfConcat
<1> HIDE DEF c
<1>4. c[1] = s[1] /\ c[1 + 1] = t[1] /\ Len(c) = 1 + 1
  BY <1>1, <1>3
<1>5. c \in Seq(S) /\ Len(c) = 2 /\ c[1] = a /\ c[2] = b
  BY <1>1, <1>3, <1>4
<1> QED
  BY <1>5 DEF c, s, t

LEMMA ThreeItems ==
  ASSUME NEW S, NEW x \in S, NEW y \in S, NEW z \in S
  PROVE  /\ (<<x>> \o <<y>>) \o <<z>> = <<x>> \o (<<y>> \o <<z>>)
         /\ <<x>> \o (<<y>> \o <<z>>) \in Seq(S)
         /\ Len(<<x>> \o (<<y>> \o <<z>>)) = 3
         /\ (<<x>> \o (<<y>> \o <<z>>))[1] = x
         /\ (<<x>> \o (<<y>> \o <<z>>))[2] = y
         /\ (<<x>> \o (<<y>> \o <<z>>))[3] = z
<1> DEFINE s == <<x>>
           t == <<y>>
           u == <<z>>
           v == t \o u
           d == s \o v
<1>1. s \in Seq(S) /\ Len(s) = 1 /\ s[1] = x /\ t \in Seq(S) /\ u \in Seq(S)
  BY Single
<1>2. v \in Seq(S) /\ Len(v) = 2 /\ v[1] = y /\ v[2] = z
  BY TwoItems
<1> HIDE DEF s, t, u
<1>3. s \in Seq(S) /\ t \in Seq(S) /\ u \in Seq(S)
  BY <1>1
<1>4. (s \o t) \o u = s \o (t \o u)
  BY <1>3, ConcatAssociative, SMTT(30)
<1>5. (s \o t) \o u = d
  BY <1>4
<1> HIDE DEF v
<1>6. s \in Seq(S) /\ v \in Seq(S)
  BY <1>1, <1>2
<1>7. /\ d \in Seq(S) /\ Len(d) = Len(s) + Len(v)
      /\ \A i \in 1..Len(s) : d[i] = s[i]
      /\ \A i \in 1..Len(v) : d[Len(s) + i] = v[i]
  BY <1>6, PartsOfConcat
<1> HIDE DEF d
<1>8. d[1] = s[1] /\ d[1 + 1] = v[1] /\ d[1 + 2] = v[2] /\ Len(d) = 1 + 2
  BY <1>1, <1>2, <1>7
<1>9. d \in Seq(S) /\ Len(d) = 3 /\ d[1] = x /\ d[2] = y /\ d[3] = z
  BY <1>1, <1>2, <1>7, <1>8
<1> QED
  BY <1>5, <1>9 DEF d, v, s, t, u

LEMMA ClosingTwo ==
  ASSUME NEW c \in Seq(Chunks), Len(c) = 2, c[1].type \in {"done", "error"},
         c[2].type = "[DONE]"
  PROVE  Closing(c) /\ \A i \in 1..Len(c) : c[i].type = "done" => c[i] = c[1]
<1>1. c # <<>>
  BY NotEmpty
<1>2. \A i \in 1..2 : i = 1 \/ i = 2
  OBVIOUS
<1> QED
  BY <1>1, <1>2 DEF Closing

LEMMA ClosingThree ==
  ASSUME NEW c \in Seq(Chunks), Len(c) = 3, c[1].type \in {"done", "error"},
         c[2].type \in {"usage", "error"}, c[3].type = "[DONE]"
  PROVE  Closing(c) /\ \A i \in 1..Len(c) : c[i].type = "done" => c[i] = c[1]
<1>1. c # <<>>
  BY NotEmpty
<1>2. \A i \in 1..3 : i = 1 \/ i = 2 \/ i = 3
  OBVIOUS
<1> QED
  BY <1>1, <1>2 DEF Closing

\* An error and [DONE].
LEMMA StreamErrorItems ==
  /\ StreamError \in Seq(Chunks) /\ Len(StreamError) = 2
  /\ StreamError[1].type = "error" /\ StreamError[2].type = "[DONE]"
  /\ Closing(StreamError)
<1>1. /\ Item("error", 0) \in Chunks /\ Item("error", 0).type = "error"
      /\ Item("[DONE]", 0) \in Chunks /\ Item("[DONE]", 0).type = "[DONE]"
  <2>1. "error" \in Types /\ "[DONE]" \in Types /\ 0 \in Nat
    BY DEF Types
  <2> QED
    BY <2>1, ItemType
<1>2. /\ StreamError \in Seq(Chunks) /\ Len(StreamError) = 2
      /\ StreamError[1] = Item("error", 0) /\ StreamError[2] = Item("[DONE]", 0)
  BY <1>1, TwoItems DEF StreamError, Finished
<1>3. Closing(StreamError)
  BY <1>1, <1>2, ClosingTwo
<1> QED
  BY <1>1, <1>2, <1>3

\* Done, perhaps the usage, and [DONE]; or Done and an error.
LEMMA DoneItems ==
  ASSUME NEW e \in Chunks, e.type = "done", NEW u \in BOOLEAN
  PROVE  \A c \in {<<e>> \o (IF u THEN <<Item("usage", 0)>> ELSE <<>>) \o Finished,
                   <<e>> \o StreamError} :
           /\ c \in Seq(Chunks) /\ c[1] = e /\ Closing(c)
           /\ \A i \in 1..Len(c) : c[i].type = "done" => c[i] = e
<1> DEFINE f == Item("[DONE]", 0)
           g == Item("usage", 0)
           h == Item("error", 0)
           Good(c) == /\ c \in Seq(Chunks) /\ c[1] = e /\ Closing(c)
                      /\ \A i \in 1..Len(c) : c[i].type = "done" => c[i] = e
<1>1. /\ h \in Chunks /\ h.type = "error"
      /\ g \in Chunks /\ g.type = "usage"
      /\ f \in Chunks /\ f.type = "[DONE]"
  <2>1. "error" \in Types /\ "usage" \in Types /\ "[DONE]" \in Types /\ 0 \in Nat
    BY DEF Types
  <2> QED
    BY <2>1, ItemType, ZenonT(30)
<1> HIDE DEF f, g, h
<1>2. Good(<<e>> \o <<f>>)
  <2> DEFINE c == <<e>> \o <<f>>
  <2>1. c \in Seq(Chunks) /\ Len(c) = 2 /\ c[1] = e /\ c[2] = f
    BY <1>1, TwoItems
  <2> HIDE DEF c
  <2>2. Closing(c) /\ \A i \in 1..Len(c) : c[i].type = "done" => c[i] = c[1]
    BY <1>1, <2>1, ClosingTwo
  <2> QED
    BY <2>1, <2>2 DEF c
<1>3. ASSUME NEW y \in Chunks, y.type \in {"usage", "error"}
      PROVE  Good(<<e>> \o (<<y>> \o <<f>>))
  <2> DEFINE c == <<e>> \o (<<y>> \o <<f>>)
  <2>1. f \in Chunks
    BY <1>1
  <2>2. c \in Seq(Chunks) /\ Len(c) = 3 /\ c[1] = e /\ c[2] = y /\ c[3] = f
    BY <2>1, ThreeItems
  <2> HIDE DEF c
  <2>3. Closing(c) /\ \A i \in 1..Len(c) : c[i].type = "done" => c[i] = c[1]
    BY <1>1, <1>3, <2>2, ClosingThree
  <2> QED
    BY <2>2, <2>3 DEF c
<1>4. <<e>> \o <<>> = <<e>>
  BY Single, ConcatEmptySeq
<1>5. (<<e>> \o <<g>>) \o <<f>> = <<e>> \o (<<g>> \o <<f>>)
  BY <1>1, ThreeItems
<1>6. Good((<<e>> \o <<>>) \o Finished)
  BY <1>2, <1>4 DEF Finished, f
<1>7. Good((<<e>> \o <<g>>) \o Finished)
  <2>1. Good(<<e>> \o (<<g>> \o <<f>>))
    BY <1>1, <1>3
  <2> HIDE DEF Good
  <2> QED
    BY <1>5, <2>1 DEF Finished, f
<1>8. Good(<<e>> \o StreamError)
  <2>1. Good(<<e>> \o (<<h>> \o <<f>>))
    BY <1>1, <1>3
  <2> HIDE DEF Good
  <2> QED
    BY <2>1 DEF StreamError, Finished, f, h
<1> HIDE DEF Good
<1>9. \A c \in {<<e>> \o (IF u THEN <<Item("usage", 0)>> ELSE <<>>) \o Finished,
                <<e>> \o StreamError} : Good(c)
  BY <1>6, <1>7, <1>8 DEF g
<1> QED
  BY <1>9 DEF Good

----------------------------------------------------------------------------
\* Types.

LEMMA NoJobType == NoJob \notin Requests
BY ServerAssumption DEF NoJob

\* Every status item and what else stands alone.
LEMMA AloneItems ==
  ASSUME NEW x \in {"400", "500", "503", "role", "error", "ready", "invalid"}
  PROVE  /\ <<Item(x, 0)>> \in Seq(Chunks) /\ Item(x, 0) \in Chunks
         /\ Len(<<Item(x, 0)>>) = 1 /\ <<Item(x, 0)>>[1].type = x
         /\ Item(x, 0).type = x
<1>1. x \in Types /\ 0 \in Nat
  BY DEF Types
<1>2. Item(x, 0) \in Chunks /\ Item(x, 0).type = x
  BY <1>1, ItemType
<1> QED
  BY <1>2, Single

LEMMA LeaveTypes ==
  ASSUME TypeOK, NEW r \in Requests, NEW s \in {"ended", "left"}, Leave(r, s)
  PROVE  /\ conn' \in [Requests -> {"new", "first", "stream", "collect", "ended", "left"}]
         /\ gone' \in [Requests -> BOOLEAN]
         /\ events' \in [Requests -> Seq(Chunks)]
<1>1. <<>> \in Seq(Chunks)
  BY EmptySeq
<1> QED
  BY <1>1 DEF TypeOK, Leave

LEMMA SendsTypes ==
  ASSUME TypeOK, NEW r \in Requests, NEW c \in Seq(Chunks), Sends(r, c)
  PROVE  /\ wire' \in [Requests -> Seq(Chunks)]
         /\ wire'[r] = wire[r] \o c
         /\ \A q \in Requests : q # r => wire'[q] = wire[q]
<1>1. wire \in [Requests -> Seq(Chunks)] /\ wire' = [wire EXCEPT ![r] = wire[r] \o c]
  BY DEF TypeOK, Sends
<1>2. wire[r] \in Seq(Chunks)
  BY <1>1
<1>3. wire[r] \o c \in Seq(Chunks)
  BY <1>2, ConcatProperties
<1> QED
  BY <1>1, <1>3

\* The first event of a channel and the rest.
LEMMA HeadOfEvents ==
  ASSUME TypeOK, NEW r \in Requests, events[r] # <<>>
  PROVE  /\ events[r] \in Seq(Chunks) /\ Head(events[r]) \in Chunks
         /\ Head(events[r]) = events[r][1] /\ Len(events[r]) \in Nat /\ Len(events[r]) >= 1
         /\ Tail(events[r]) \in Seq(Chunks) /\ Len(Tail(events[r])) = Len(events[r]) - 1
         /\ \A i \in 1..Len(Tail(events[r])) : Tail(events[r])[i] = events[r][i + 1]
<1>1. events[r] \in Seq(Chunks)
  BY DEF TypeOK
<1> QED
  BY <1>1, FirstAndRest

LEMMA SendTypes ==
  ASSUME TypeOK, job \in Requests, NEW e \in Chunks, Send(e)
  PROVE  /\ events' \in [Requests -> Seq(Chunks)]
         /\ gone[job] => events' = events
         /\ ~gone[job] => events'[job] = Append(events[job], e)
         /\ \A q \in Requests : q # job => events'[q] = events[q]
<1>1. events \in [Requests -> Seq(Chunks)]
  BY DEF TypeOK
<1>2. events[job] \in Seq(Chunks)
  BY <1>1
<1>3. Append(events[job], e) \in Seq(Chunks)
  BY <1>2, AppendProperties
<1>4. gone[job] => events' = events
  BY DEF Send
<1>5. ~gone[job] => events' = [events EXCEPT ![job] = Append(events[job], e)]
  BY DEF Send
<1> QED
  BY <1>1, <1>3, <1>4, <1>5

LEMMA IdleTypes ==
  ASSUME Idle
  PROVE  /\ job' = NoJob /\ made' = 0 /\ made' \in Nat /\ stopped' = FALSE /\ broken' = FALSE
         /\ outcome' \in Outcomes /\ outbox' = <<>> /\ outbox' \in Seq(Chunks)
<1>1. <<>> \in Seq(Chunks)
  BY EmptySeq
<1> QED
  BY <1>1 DEF Idle, Outcomes

\* The first event opens the answer or ends it with a status.
LEMMA FirstEventCases ==
  ASSUME NEW r \in Requests, FirstEvent(r)
  PROVE  /\ conn[r] = "first" /\ events[r] # <<>> /\ UNCHANGED <<kind, queue, workerVars>>
         /\ \/ /\ Head(events[r]).type = "ready"
               /\ conn' = [conn EXCEPT ![r] = IF kind[r].stream THEN "stream" ELSE "collect"]
               /\ events' = [events EXCEPT ![r] = Tail(events[r])]
               /\ Sends(r, IF kind[r].stream THEN <<Item("role", 0)>> ELSE <<>>)
               /\ gone' = gone
            \/ \E x \in {"400", "500", "503"} :
                 Leave(r, "ended") /\ Sends(r, <<Item(x, 0)>>)
<1> DEFINE e == Head(events[r])
<1>1. conn[r] = "first" /\ events[r] # <<>> /\ UNCHANGED <<kind, queue, workerVars>>
  BY DEF FirstEvent
<1>2. CASE e.type = "ready"
  BY <1>1, <1>2 DEF FirstEvent
<1>3. CASE e.type # "ready"
  <2>1. \E x \in {"400", "500", "503"} : Leave(r, "ended") /\ Sends(r, <<Item(x, 0)>>)
    BY <1>3 DEF FirstEvent
  <2> QED
    BY <1>1, <2>1
<1> QED
  BY <1>2, <1>3

\* A turn of the stream passes a chunk of text on, or ends the stream.
LEMMA StreamEventCases ==
  ASSUME TypeOK, NEW r \in Requests, StreamEvent(r)
  PROVE  /\ conn[r] = "stream" /\ events[r] # <<>> /\ UNCHANGED <<kind, queue, workerVars>>
         /\ \/ /\ Head(events[r]).type \in Texts
               /\ Sends(r, <<Head(events[r])>>)
               /\ events' = [events EXCEPT ![r] = Tail(events[r])]
               /\ UNCHANGED <<conn, gone>>
            \/ /\ Head(events[r]).type = "done" /\ Leave(r, "ended")
               /\ \E u \in BOOLEAN :
                    Sends(r, <<Head(events[r])>>
                             \o (IF u THEN <<Item("usage", 0)>> ELSE <<>>) \o Finished)
            \/ Leave(r, "ended") /\ Sends(r, StreamError)
<1> DEFINE e == Head(events[r])
           c(u) == <<e>> \o (IF u THEN <<Item("usage", 0)>> ELSE <<>>) \o Finished
<1>1. conn[r] = "stream" /\ events[r] # <<>> /\ UNCHANGED <<kind, queue, workerVars>>
  BY DEF StreamEvent
<1>2. CASE e.type \in Texts
  BY <1>1, <1>2 DEF StreamEvent, Texts
<1>3. CASE e.type = "done"
  <2>1. Leave(r, "ended") /\ Sends(r, c(kind[r].usage))
    BY <1>3 DEF StreamEvent
  <2>2. kind[r].usage \in BOOLEAN
    BY ServerAssumption DEF TypeOK
  <2> HIDE DEF c
  <2>3. \E u \in BOOLEAN : Sends(r, c(u))
    BY <2>1, <2>2
  <2> QED
    BY <1>1, <1>3, <2>1, <2>3 DEF c
<1>4. CASE e.type \notin Texts /\ e.type # "done"
  <2>1. Leave(r, "ended") /\ Sends(r, StreamError)
    BY <1>4 DEF StreamEvent, Texts
  <2> QED
    BY <1>1, <2>1
<1> QED
  BY <1>2, <1>3, <1>4

\* A turn of the loop without a stream.
LEMMA CollectEventCases ==
  ASSUME NEW r \in Requests, CollectEvent(r)
  PROVE  /\ conn[r] = "collect" /\ events[r] # <<>> /\ UNCHANGED <<kind, queue, workerVars>>
         /\ \/ /\ events' = [events EXCEPT ![r] = Tail(events[r])]
               /\ UNCHANGED <<conn, gone, wire>>
            \/ /\ Head(events[r]).type = "done"
               /\ Leave(r, "ended") /\ Sends(r, <<Head(events[r])>>)
            \/ \E x \in {"400", "500"} : Leave(r, "ended") /\ Sends(r, <<Item(x, 0)>>)
<1> DEFINE e == Head(events[r])
<1>1. conn[r] = "collect" /\ events[r] # <<>> /\ UNCHANGED <<kind, queue, workerVars>>
  BY DEF CollectEvent
<1>2. CASE e.type \in {"delta", "reasoning"}
  BY <1>1, <1>2 DEF CollectEvent
<1>3. CASE e.type = "done"
  BY <1>1, <1>3 DEF CollectEvent
<1>4. CASE e.type \notin {"delta", "reasoning", "done"}
  <2>1. \E x \in {"400", "500"} : Leave(r, "ended") /\ Sends(r, <<Item(x, 0)>>)
    BY <1>4 DEF CollectEvent
  <2> QED
    BY <1>1, <2>1
<1> QED
  BY <1>2, <1>3, <1>4

LEMMA HandlerTypes ==
  ASSUME TypeOK, NEW r \in Requests, Handler(r) \/ Client(r)
  PROVE  TypeOK'
<1> USE DEF handlerVars, workerVars
<1>1. ASSUME NEW k \in Kinds, Submit(r, k) PROVE TypeOK'
  <2>1. CASE Room
    <3>1. queue \in Seq(Requests)
      BY DEF TypeOK
    <3>2. Append(queue, r) \in Seq(Requests)
      BY <3>1, AppendProperties
    <3> QED
      BY <1>1, <2>1, <3>2 DEF Submit, TypeOK
  <2>2. CASE ~Room
    <3>1. Leave(r, "ended") /\ Sends(r, <<Item("503", 0)>>) /\ UNCHANGED <<queue, workerVars>>
          /\ kind' = [kind EXCEPT ![r] = k]
      BY <1>1, <2>2 DEF Submit
    <3>2. <<Item("503", 0)>> \in Seq(Chunks)
      BY AloneItems
    <3>3. wire' \in [Requests -> Seq(Chunks)]
      BY <3>1, <3>2, SendsTypes
    <3>4. kind' \in [Requests -> Kinds]
      BY <3>1 DEF TypeOK
    <3> QED
      BY <3>1, <3>3, <3>4, LeaveTypes DEF TypeOK
  <2> QED
    BY <2>1, <2>2
<1>2. ASSUME NEW c \in Seq(Chunks), Leave(r, "ended"), Sends(r, c),
             UNCHANGED <<kind, queue, workerVars>>
      PROVE  TypeOK'
  <2>1. wire' \in [Requests -> Seq(Chunks)]
    BY <1>2, SendsTypes
  <2> QED
    BY <1>2, <2>1, LeaveTypes DEF TypeOK
<1>3. CASE Malformed(r)
  BY <1>2, <1>3, AloneItems DEF Malformed
<1>4. CASE FirstEvent(r)
  <2>1. CASE \E x \in {"400", "500", "503"} : Leave(r, "ended") /\ Sends(r, <<Item(x, 0)>>)
    <3>1. PICK x \in {"400", "500", "503"} : Leave(r, "ended") /\ Sends(r, <<Item(x, 0)>>)
      BY <2>1
    <3>2. <<Item(x, 0)>> \in Seq(Chunks)
      BY AloneItems
    <3>3. UNCHANGED <<kind, queue, workerVars>>
      BY <1>4 DEF FirstEvent
    <3> QED
      BY <1>2, <3>1, <3>2, <3>3
  <2>2. CASE /\ conn' = [conn EXCEPT ![r] = IF kind[r].stream THEN "stream" ELSE "collect"]
             /\ events' = [events EXCEPT ![r] = Tail(events[r])]
             /\ Sends(r, IF kind[r].stream THEN <<Item("role", 0)>> ELSE <<>>)
             /\ gone' = gone
    <3>1. UNCHANGED <<kind, queue, workerVars>> /\ events[r] # <<>>
      BY <1>4 DEF FirstEvent
    <3>2. (IF kind[r].stream THEN <<Item("role", 0)>> ELSE <<>>) \in Seq(Chunks)
      BY AloneItems, EmptySeq
    <3>3. wire' \in [Requests -> Seq(Chunks)]
      BY <2>2, <3>2, SendsTypes
    <3>4. Tail(events[r]) \in Seq(Chunks)
      BY <3>1, HeadOfEvents
    <3>5. events' \in [Requests -> Seq(Chunks)]
      BY <2>2, <3>4 DEF TypeOK
    <3>6. conn' \in [Requests -> {"new", "first", "stream", "collect", "ended", "left"}]
      BY <2>2 DEF TypeOK
    <3> QED
      BY <2>2, <3>1, <3>3, <3>5, <3>6 DEF TypeOK
  <2> QED
    BY <1>4, <2>1, <2>2, FirstEventCases
<1>5. CASE WorkerVanished(r)
  <2>1. (IF conn[r] = "stream" THEN StreamError ELSE <<Item("503", 0)>>) \in Seq(Chunks)
    BY AloneItems, StreamErrorItems
  <2> QED
    BY <1>2, <1>5, <2>1 DEF WorkerVanished
<1>6. CASE StreamEvent(r)
  <2> DEFINE e == Head(events[r])
  <2>1. e \in Chunks /\ Tail(events[r]) \in Seq(Chunks) /\ UNCHANGED <<kind, queue, workerVars>>
    BY <1>6, HeadOfEvents DEF StreamEvent
  <2>2. CASE /\ Sends(r, <<e>>) /\ events' = [events EXCEPT ![r] = Tail(events[r])]
             /\ UNCHANGED <<conn, gone>>
    <3>1. <<e>> \in Seq(Chunks)
      BY <2>1, Single
    <3>2. wire' \in [Requests -> Seq(Chunks)]
      BY <2>2, <3>1, SendsTypes
    <3>3. events' \in [Requests -> Seq(Chunks)]
      BY <2>1, <2>2 DEF TypeOK
    <3> QED
      BY <2>1, <2>2, <3>2, <3>3 DEF TypeOK
  <2>3. ASSUME e.type = "done", Leave(r, "ended"), NEW u \in BOOLEAN,
               Sends(r, <<e>> \o (IF u THEN <<Item("usage", 0)>> ELSE <<>>) \o Finished)
        PROVE  TypeOK'
    <3> DEFINE c == <<e>> \o (IF u THEN <<Item("usage", 0)>> ELSE <<>>) \o Finished
    <3>1. c \in Seq(Chunks)
      BY <2>1, <2>3, DoneItems
    <3> HIDE DEF c
    <3> QED
      BY <1>2, <2>1, <2>3, <3>1 DEF c
  <2>4. CASE Leave(r, "ended") /\ Sends(r, StreamError)
    BY <1>2, <2>1, <2>4, StreamErrorItems
  <2> QED
    BY <1>6, <2>2, <2>3, <2>4, StreamEventCases
<1>7. CASE EncoderFails(r)
  <2> DEFINE e == Head(events[r])
  <2>1. e \in Chunks
    BY <1>7, HeadOfEvents DEF EncoderFails
  <2>2. Leave(r, "ended") /\ UNCHANGED <<kind, queue, workerVars>>
    BY <1>7 DEF EncoderFails
  <2>3. CASE Sends(r, StreamError)
    BY <1>2, <2>2, <2>3, StreamErrorItems
  <2>4. CASE e.type = "done" /\ Sends(r, <<e>> \o StreamError)
    <3>1. <<e>> \o StreamError \in Seq(Chunks)
      BY <2>1, <2>4, DoneItems
    <3> QED
      BY <1>2, <2>2, <2>4, <3>1
  <2> QED
    BY <1>7, <2>3, <2>4 DEF EncoderFails
<1>8. CASE CollectEvent(r)
  <2> DEFINE e == Head(events[r])
  <2>1. e \in Chunks /\ Tail(events[r]) \in Seq(Chunks) /\ UNCHANGED <<kind, queue, workerVars>>
    BY <1>8, HeadOfEvents DEF CollectEvent
  <2>2. CASE Leave(r, "ended") /\ Sends(r, <<e>>)
    <3>1. <<e>> \in Seq(Chunks)
      BY <2>1, Single
    <3> QED
      BY <1>2, <2>1, <2>2, <3>1
  <2>3. ASSUME NEW x \in {"400", "500"}, Leave(r, "ended"), Sends(r, <<Item(x, 0)>>)
        PROVE  TypeOK'
    <3>1. <<Item(x, 0)>> \in Seq(Chunks)
      BY AloneItems
    <3> QED
      BY <1>2, <2>1, <2>3, <3>1
  <2>4. CASE /\ events' = [events EXCEPT ![r] = Tail(events[r])]
             /\ UNCHANGED <<conn, gone, wire>>
    <3>1. events' \in [Requests -> Seq(Chunks)]
      BY <2>1, <2>4 DEF TypeOK
    <3> QED
      BY <2>1, <2>4, <3>1 DEF TypeOK
  <2> QED
    BY <1>8, <2>2, <2>3, <2>4, CollectEventCases
<1>9. CASE Disconnect(r)
  BY <1>9, LeaveTypes DEF Disconnect, TypeOK
<1>10. CASE Again(r)
  <2>1. <<>> \in Seq(Chunks)
    BY EmptySeq
  <2> QED
    BY <1>10, <2>1 DEF Again, TypeOK
<1> QED
  BY <1>1, <1>3, <1>4, <1>5, <1>6, <1>7, <1>8, <1>9, <1>10 DEF Handler, Client

\* A job is one of the requests.
LEMMA JobType ==
  ASSUME TypeOK, WorkerPlace, phase \notin {"recv", "dead"}
  PROVE  job \in Requests /\ events[job] \in Seq(Chunks) /\ wire[job] \in Seq(Chunks)
<1>1. job \in Requests
  BY DEF TypeOK, WorkerPlace
<1> QED
  BY <1>1 DEF TypeOK

\* The deltas of a part and of the tail.
LEMMA DeltaType ==
  ASSUME NEW m \in Nat
  PROVE  /\ Item("delta", m) \in Chunks /\ Item("delta", m).type = "delta"
         /\ Item("delta", m).n = m
         /\ <<Item("delta", m)>> \in Seq(Chunks)
<1>1. "delta" \in Types
  BY DEF Types
<1>2. Item("delta", m) \in Chunks /\ Item("delta", m).type = "delta" /\ Item("delta", m).n = m
  BY <1>1, ItemType
<1> QED
  BY <1>2, Single

LEMMA ReasoningType ==
  /\ Item("reasoning", 0) \in Chunks /\ Item("reasoning", 0).type = "reasoning"
  /\ <<Item("reasoning", 0)>> \in Seq(Chunks)
<1>1. "reasoning" \in Types /\ 0 \in Nat
  BY DEF Types
<1>2. Item("reasoning", 0) \in Chunks /\ Item("reasoning", 0).type = "reasoning"
  BY <1>1, ItemType
<1> QED
  BY <1>2, Single

\* What is sent while the answer is generated, and behind it.
LEMMA LiveType ==
  ASSUME NEW n \in 0..1, made \in Nat
  PROVE  LiveEvents(n) \in Seq(Chunks)
<1>1. made + n \in Nat /\ <<>> \in Seq(Chunks)
  BY EmptySeq
<1> QED
  BY <1>1, DeltaType DEF LiveEvents

LEMMA TailCases ==
  ASSUME NEW n \in 0..1, made \in Nat, NEW tail \in TailEvents(n)
  PROVE  /\ tail \in Seq(Chunks)
         /\ \/ tail = <<>> /\ n = 0 /\ ~kind[job].json
            \/ tail = <<Item("delta", made + n)>> /\ (n = 0 => kind[job].json)
            \/ /\ tail = Append(<<Item("reasoning", 0)>>, Item("delta", made + n))
               /\ kind[job].json
<1> DEFINE d == Item("delta", made + n)
           p == <<Item("reasoning", 0)>>
<1>1. made + n \in Nat /\ <<>> \in Seq(Chunks)
  BY EmptySeq
<1>2. d \in Chunks /\ <<d>> \in Seq(Chunks)
  BY <1>1, DeltaType
<1>3. p \in Seq(Chunks)
  BY ReasoningType
<1> HIDE DEF d, p
<1>4. p \o <<d>> = Append(p, d) /\ Append(p, d) \in Seq(Chunks)
  BY <1>2, <1>3, AppendIsConcat, AppendProperties
<1>5. \/ tail = <<>> /\ n = 0 /\ ~kind[job].json
      \/ tail = <<d>> /\ (n = 0 => kind[job].json)
      \/ tail = p \o <<d>> /\ kind[job].json
  BY DEF TailEvents, d, p
<1> QED
  BY <1>1, <1>2, <1>4, <1>5 DEF d, p

LEMMA WorkerTypes ==
  ASSUME TypeOK, WorkerPlace, Worker \/ Panic
  PROVE  TypeOK'
<1> USE DEF handlerVars, workerVars
<1>1. CASE Recv
  <2>1. queue \in Seq(Requests) /\ queue # <<>>
    BY <1>1 DEF Recv, TypeOK
  <2>2. Tail(queue) \in Seq(Requests) /\ Head(queue) \in Requests
    BY <2>1, FirstAndRest
  <2> QED
    BY <1>1, <2>2 DEF Recv, TypeOK
<1>2. CASE Prepare
  <2>1. job \in Requests
    BY <1>2, JobType DEF Prepare
  <2>2. Item("invalid", 0) \in Chunks /\ Item("ready", 0) \in Chunks
    BY AloneItems
  <2>3. events' \in [Requests -> Seq(Chunks)]
    <3>1. CASE Send(Item("invalid", 0))
      BY <2>1, <2>2, <3>1, SendTypes
    <3>2. CASE Send(Item("ready", 0))
      BY <2>1, <2>2, <3>2, SendTypes
    <3> QED
      BY <1>2, <3>1, <3>2 DEF Prepare
  <2>4. UNCHANGED <<conn, kind, wire, queue, gone>>
    BY <1>2 DEF Prepare
  <2>5. CASE DropJob
    BY <2>3, <2>4, <2>5, IdleTypes DEF TypeOK, DropJob
  <2>6. CASE ~DropJob
    <3>1. phase' = "generate" /\ UNCHANGED <<job, made, stopped, broken, outcome, outbox>>
      BY <1>2, <2>6 DEF Prepare
    <3> QED
      BY <2>3, <2>4, <3>1 DEF TypeOK
  <2> QED
    BY <2>5, <2>6
<1>3. CASE Poll
  BY <1>3 DEF Poll, EngineReturns, Declined, TypeOK, Outcomes
<1>4. CASE Text
  BY <1>4 DEF Text, TypeOK
<1>5. CASE Process
  <2>1. UNCHANGED <<conn, kind, wire, queue, events, gone, job>>
    BY <1>5 DEF Process
  <2>2. CASE broken' = TRUE /\ EngineReturns(Declined) /\ UNCHANGED <<made, stopped, outbox>>
    BY <2>1, <2>2 DEF EngineReturns, Declined, TypeOK, Outcomes
  <2>3. CASE \E n \in 0..1 : /\ made' = made + n /\ stopped' \in BOOLEAN
                             /\ outbox' = LiveEvents(n) /\ phase' = "send"
                             /\ UNCHANGED <<broken, outcome>>
    <3>1. PICK n \in 0..1 : /\ made' = made + n /\ stopped' \in BOOLEAN
                            /\ outbox' = LiveEvents(n) /\ phase' = "send"
                            /\ UNCHANGED <<broken, outcome>>
      BY <2>3
    <3>2. made \in Nat /\ made + n \in Nat
      BY DEF TypeOK
    <3>3. LiveEvents(n) \in Seq(Chunks)
      BY <3>2, LiveType
    <3> QED
      BY <2>1, <3>1, <3>2, <3>3 DEF TypeOK
  <2> QED
    BY <1>5, <2>2, <2>3 DEF Process
<1>6. CASE SendDelta
  <2>1. job \in Requests /\ outbox \in Seq(Chunks)
    BY <1>6, JobType DEF SendDelta, TypeOK
  <2>2. events' \in [Requests -> Seq(Chunks)]
    <3>1. CASE outbox = <<>>
      BY <1>6, <3>1 DEF SendDelta, TypeOK
    <3>2. CASE outbox # <<>>
      <4>1. outbox[1] \in Chunks
        BY <2>1, <3>2, FirstAndRest
      <4> QED
        BY <1>6, <2>1, <3>2, <4>1, SendTypes DEF SendDelta
    <3> QED
      BY <3>1, <3>2
  <2>3. outbox' \in Seq(Chunks)
    BY <1>6, EmptySeq DEF SendDelta
  <2>4. outcome' \in Outcomes /\ phase' \in {"returned", "generate"}
    BY <1>6 DEF SendDelta, EngineReturns, Declined, TypeOK, Outcomes
  <2> QED
    BY <1>6, <2>2, <2>3, <2>4 DEF SendDelta, TypeOK
<1>7. CASE EngineEnds
  BY <1>7 DEF EngineEnds, EngineReturns, TypeOK, Outcomes
<1>8. CASE Conclude
  <2>1. UNCHANGED <<conn, kind, wire, queue, events, gone>>
    BY <1>8 DEF Conclude
  <2>2. CASE DropJob
    BY <2>1, <2>2, IdleTypes DEF TypeOK, DropJob
  <2>3. CASE ~DropJob
    <3>1. phase' = "deliver" /\ UNCHANGED <<job, stopped, broken, outcome>>
      BY <1>8, <2>3 DEF Conclude
    <3>2. made' \in Nat /\ outbox' \in Seq(Chunks)
      <4>1. CASE outbox' = <<Item("error", 0)>> /\ UNCHANGED made
        BY <4>1, AloneItems DEF TypeOK
      <4>2. ASSUME NEW n \in 0..1, NEW calls \in BOOLEAN, made' = made + n,
                   NEW tail \in TailEvents(n),
                   outbox' = Append(tail, Done(FinishReason(calls), made'))
            PROVE  made' \in Nat /\ outbox' \in Seq(Chunks)
        <5>1. made \in Nat /\ made' \in Nat
          BY <4>2 DEF TypeOK
        <5>2. FinishReason(calls) \in Outcomes \cup {"tool_calls"}
          BY DEF FinishReason, TypeOK, Outcomes
        <5>3. Done(FinishReason(calls), made') \in Chunks
          BY <5>1, <5>2, DoneType
        <5>4. tail \in Seq(Chunks)
          BY <5>1, TailCases
        <5> QED
          BY <4>2, <5>1, <5>3, <5>4, AppendProperties
      <4> QED
        BY <1>8, <2>3, <4>1, <4>2 DEF Conclude
    <3> QED
      BY <2>1, <3>1, <3>2 DEF TypeOK
  <2> QED
    BY <2>2, <2>3
<1>9. CASE Deliver
  <2>1. job \in Requests /\ outbox \in Seq(Chunks) /\ outbox # <<>>
    BY <1>9, JobType DEF Deliver, TypeOK, WorkerPlace
  <2>2. Head(outbox) \in Chunks /\ Tail(outbox) \in Seq(Chunks)
    BY <2>1, FirstAndRest
  <2>3. events' \in [Requests -> Seq(Chunks)]
    BY <1>9, <2>1, <2>2, SendTypes DEF Deliver
  <2>4. UNCHANGED <<conn, kind, wire, queue, gone>>
    BY <1>9 DEF Deliver
  <2>5. CASE DropJob
    BY <2>3, <2>4, <2>5, IdleTypes DEF TypeOK, DropJob
  <2>6. CASE ~DropJob
    <3>1. outbox' = Tail(outbox) /\ UNCHANGED <<phase, job, made, stopped, broken, outcome>>
      BY <1>9, <2>6 DEF Deliver
    <3> QED
      BY <2>2, <2>3, <2>4, <3>1 DEF TypeOK
  <2> QED
    BY <2>5, <2>6
<1>10. CASE Panic
  <2>1. queue' \in Seq(Requests)
    BY <1>10, EmptySeq DEF Panic
  <2> QED
    BY <1>10, <2>1, IdleTypes DEF Panic, TypeOK
<1> QED
  BY <1>1, <1>2, <1>3, <1>4, <1>5, <1>6, <1>7, <1>8, <1>9, <1>10 DEF Worker

----------------------------------------------------------------------------
\* The worker's place.

\* A handler leaves the worker alone, and a receiver that is dropped stays
\* dropped while the worker holds the job.
LEMMA HandlerKeepsWorker ==
  ASSUME TypeOK, WorkerPlace, NEW r \in Requests, PlaceOf(r), Handler(r) \/ Client(r)
  PROVE  WorkerPlace' /\ UNCHANGED workerVars
<1>1. UNCHANGED workerVars
  BY DEF Handler, Client, FirstEvent, WorkerVanished, StreamEvent, EncoderFails,
         CollectEvent, Submit, Malformed, Disconnect, Again
<1>2. phase \notin {"recv", "dead"} /\ gone[job] => gone'[job]
  <2> SUFFICES ASSUME phase \notin {"recv", "dead"}, gone[job] PROVE gone'[job]
    OBVIOUS
  <2>1. job \in Requests
    BY JobType
  <2>2. CASE gone' = gone \/ gone' = [gone EXCEPT ![r] = TRUE]
    BY <2>1, <2>2 DEF TypeOK
  <2>3. CASE Again(r)
    <3>1. job # r
      BY <2>3 DEF Again, Held
    <3> QED
      BY <2>1, <2>3, <3>1 DEF Again, TypeOK
  <2>4. CASE Handler(r)
    BY <2>2, <2>4 DEF Handler, FirstEvent, WorkerVanished, StreamEvent, EncoderFails,
                      CollectEvent, Leave
  <2>5. CASE Client(r) /\ ~Again(r)
    BY <2>2, <2>5 DEF Client, Submit, Malformed, Disconnect, Leave
  <2> QED
    BY <2>3, <2>4, <2>5
<1>3. /\ \A i, j \in 1..Len(queue') : queue'[i] = queue'[j] => i = j
      /\ \A i \in 1..Len(queue') : queue'[i] # job
  <2>1. CASE queue' = queue
    BY <2>1 DEF WorkerPlace
  <2>2. CASE queue' # queue
    <3>1. conn[r] = "new" /\ queue' = Append(queue, r)
      BY <2>2 DEF Handler, Client, FirstEvent, WorkerVanished, StreamEvent, EncoderFails,
                  CollectEvent, Submit, Malformed, Disconnect, Again
    <3>2. job # r /\ \A i \in 1..Len(queue) : queue[i] # r
      BY <3>1 DEF PlaceOf, Queued
    <3>3. queue \in Seq(Requests) /\ Len(queue) \in Nat
      BY LenProperties DEF TypeOK
    <3>4. /\ Len(queue') = Len(queue) + 1 /\ queue'[Len(queue) + 1] = r
          /\ \A i \in 1..Len(queue) : queue'[i] = queue[i]
      BY <3>1, <3>3, AppendProperties
    <3>5. ASSUME NEW i \in 1..Len(queue') PROVE i \in 1..Len(queue) \/ i = Len(queue) + 1
      BY <3>3, <3>4
    <3>6. \A i \in 1..Len(queue') : queue'[i] # job
      BY <3>2, <3>4, <3>5 DEF WorkerPlace
    <3>7. \A i, j \in 1..Len(queue') : queue'[i] = queue'[j] => i = j
      BY <3>2, <3>4, <3>5 DEF WorkerPlace
    <3> QED
      BY <3>6, <3>7
  <2> QED
    BY <2>1, <2>2
<1>4. UNCHANGED <<phase, job, made, stopped, broken, outcome, outbox>>
  BY <1>1 DEF workerVars
<1>5. phase = "returned" =>
        outcome \in {"stop", "length", "error"} \/ stopped \/ broken \/ gone'[job]
  BY <1>2 DEF WorkerPlace
<1>6. WorkerPlace'
  BY <1>3, <1>4, <1>5 DEF WorkerPlace
<1> QED
  BY <1>1, <1>6

\* What the worker does keeps its place.
LEMMA WorkerKeepsPlace ==
  ASSUME TypeOK, WorkerPlace, Worker \/ Panic
  PROVE  WorkerPlace'
<1> USE DEF handlerVars, workerVars
<1>0. queue \in Seq(Requests) /\ outbox \in Seq(Chunks)
  BY DEF TypeOK
<1>1. CASE Recv
  <2>1. queue # <<>> /\ queue' = Tail(queue)
    BY <1>1 DEF Recv
  <2>2. /\ Len(queue) \in Nat /\ Len(queue) >= 1 /\ Head(queue) = queue[1]
        /\ Head(queue) \in Requests /\ Len(queue') = Len(queue) - 1
        /\ \A i \in 1..Len(queue') : queue'[i] = queue[i + 1]
    BY <1>0, <2>1, FirstAndRest
  <2>3. ASSUME NEW i \in 1..Len(queue')
        PROVE  i + 1 \in 1..Len(queue) /\ i + 1 # 1 /\ queue'[i] = queue[i + 1]
    BY <2>2
  <2>4. \A i, j \in 1..Len(queue') : queue'[i] = queue'[j] => i = j
    <3> SUFFICES ASSUME NEW i \in 1..Len(queue'), NEW j \in 1..Len(queue'),
                        queue'[i] = queue'[j]
                 PROVE  i = j
      OBVIOUS
    <3>1. i + 1 = j + 1
      BY <2>3 DEF WorkerPlace
    <3> QED
      BY <2>2, <3>1
  <2>5. \A i \in 1..Len(queue') : queue'[i] # queue[1] /\ queue'[i] # job
    BY <2>2, <2>3 DEF WorkerPlace
  <2>6. Head(queue) # NoJob
    BY <2>2, NoJobType
  <2> QED
    BY <1>1, <2>2, <2>4, <2>5, <2>6 DEF Recv, WorkerPlace
<1>2. ASSUME DropJob, UNCHANGED <<queue>>
      PROVE  WorkerPlace'
  <2>1. \A i \in 1..Len(queue) : queue[i] \in Requests
    BY <1>0, ElementOfSeq
  <2> QED
    BY <1>2, <2>1, NoJobType DEF DropJob, Idle, WorkerPlace
<1>3. CASE Prepare
  BY <1>2, <1>3 DEF Prepare, WorkerPlace
<1>4. CASE Poll
  BY <1>4 DEF Poll, Declines, EngineReturns, WorkerPlace
<1>5. CASE Text
  BY <1>5 DEF Text, WorkerPlace
<1>6. CASE Process
  <2>1. UNCHANGED <<queue, gone, job>> /\ phase = "process"
    BY <1>6 DEF Process
  <2>2. CASE broken' = TRUE /\ EngineReturns(Declined) /\ UNCHANGED <<made, stopped, outbox>>
    BY <2>1, <2>2 DEF EngineReturns, WorkerPlace
  <2>3. ASSUME NEW n \in 0..1, outbox' = LiveEvents(n), phase' = "send"
        PROVE  WorkerPlace'
    <3>1. Len(LiveEvents(n)) <= 1
      BY EmptySeq DEF LiveEvents
    <3> QED
      BY <2>1, <2>3, <3>1 DEF WorkerPlace
  <2> QED
    BY <1>6, <2>2, <2>3 DEF Process
<1>7. CASE SendDelta
  <2>1. UNCHANGED <<queue, gone, job>> /\ phase = "send" /\ outbox' = <<>> /\ UNCHANGED <<stopped, broken>>
    BY <1>7 DEF SendDelta
  <2>2. \/ phase' = "generate"
        \/ phase' = "returned" /\ (stopped \/ gone[job])
    BY <1>7 DEF SendDelta, EngineReturns
  <2> QED
    BY <2>1, <2>2 DEF WorkerPlace
<1>8. CASE EngineEnds
  BY <1>8 DEF EngineEnds, EngineReturns, WorkerPlace
<1>9. CASE Conclude
  <2>1. CASE DropJob
    BY <1>2, <1>9, <2>1 DEF Conclude
  <2>2. CASE ~DropJob
    <3>1. /\ phase' = "deliver" /\ UNCHANGED <<job, stopped, broken, outcome, queue, gone>>
          /\ phase = "returned"
      BY <1>9, <2>2 DEF Conclude
    <3>2. outbox' # <<>>
      <4>1. CASE outbox' = <<Item("error", 0)>>
        BY <4>1, AloneItems
      <4>2. ASSUME NEW n \in 0..1, NEW calls \in BOOLEAN, made' = made + n,
                   NEW tail \in TailEvents(n),
                   outbox' = Append(tail, Done(FinishReason(calls), made'))
            PROVE  outbox' # <<>>
        <5>1. made \in Nat /\ made' \in Nat
          BY <4>2 DEF TypeOK
        <5>2. FinishReason(calls) \in Outcomes \cup {"tool_calls"}
          BY DEF FinishReason, TypeOK, Outcomes
        <5>3. Done(FinishReason(calls), made') \in Chunks
          BY <5>1, <5>2, DoneType
        <5>4. tail \in Seq(Chunks)
          BY <5>1, TailCases
        <5> QED
          BY <4>2, <5>3, <5>4, AppendProperties
      <4> QED
        BY <1>9, <2>2, <4>1, <4>2 DEF Conclude
    <3> QED
      BY <3>1, <3>2 DEF WorkerPlace
  <2> QED
    BY <2>1, <2>2
<1>10. CASE Deliver
  <2>1. CASE DropJob
    BY <1>2, <1>10, <2>1 DEF Deliver
  <2>2. CASE ~DropJob
    <3>1. /\ outbox' = Tail(outbox) /\ Len(outbox) # 1
          /\ UNCHANGED <<phase, job, made, stopped, broken, outcome, queue, gone>>
          /\ phase = "deliver" /\ outbox # <<>>
      BY <1>10, <2>2 DEF Deliver, WorkerPlace
    <3>2. outbox' # <<>>
      <4>1. Len(outbox) \in Nat /\ Len(outbox) >= 1 /\ Len(outbox') = Len(outbox) - 1
        BY <1>0, <3>1, FirstAndRest
      <4>2. Len(outbox') \in Nat \ {0}
        BY <3>1, <4>1
      <4> QED
        BY <4>2, NotEmpty
    <3> QED
      BY <3>1, <3>2 DEF WorkerPlace
  <2> QED
    BY <2>1, <2>2
<1>11. CASE Panic
  <2>1. Len(queue') = 0
    BY <1>11, EmptySeq DEF Panic
  <2> QED
    BY <1>11, <2>1 DEF Panic, Idle, WorkerPlace
<1> QED
  BY <1>1, <1>3, <1>4, <1>5, <1>6, <1>7, <1>8, <1>9, <1>10, <1>11 DEF Worker

----------------------------------------------------------------------------
\* The requests a step is not about.

\* Nothing that concerns q has changed but where it may have been dropped from.
Untouched(q) ==
  /\ UNCHANGED <<conn[q], kind[q], events[q], gone[q], wire[q]>>
  /\ OutOf(q)' = OutOf(q)
  /\ job' = q \/ Queued(q)' => job = q \/ Queued(q)
  /\ Waits(q)' => Waits(q)
  /\ Served(q)' => Served(q) /\ UNCHANGED made

LEMMA Others ==
  ASSUME NEW q \in Requests, RequestOK(q), Untouched(q)
  PROVE  RequestOK(q)'
<1>1. PlaceOf(q)'
  <2>1. PlaceOf(q)
    BY DEF RequestOK
  <2> QED
    BY <2>1 DEF Untouched, PlaceOf
<1>2. WaitingOf(q)'
  <2>1. WaitingOf(q)
    BY DEF RequestOK
  <2> QED
    BY <2>1 DEF Untouched, WaitingOf
<1>3. Said(q)' = Said(q)
  BY DEF Untouched, Said
<1>4. TellingOf(q)'
  <2>1. TellingOf(q)
    BY DEF RequestOK
  <2> QED
    BY <1>3, <2>1 DEF Untouched, TellingOf
<1>5. ProgressOf(q)'
  <2>1. ProgressOf(q)
    BY DEF RequestOK
  <2> QED
    BY <1>3, <2>1 DEF Untouched, ProgressOf
<1>6. QuietOf(q)'
  <2>1. QuietOf(q)
    BY DEF RequestOK
  <2>2. Served(q)' => outbox' = outbox
    BY DEF Untouched, OutOf, Served
  <2> QED
    BY <2>1, <2>2 DEF Untouched, QuietOf
<1>7. ToldOf(q)'
  <2>1. ToldOf(q)
    BY DEF RequestOK
  <2> QED
    BY <2>1 DEF Untouched, ToldOf
<1>8. ClosedOf(q)'
  <2>1. ClosedOf(q)
    BY DEF RequestOK
  <2> QED
    BY <2>1 DEF Untouched, ClosedOf
<1> QED
  BY <1>1, <1>2, <1>4, <1>5, <1>6, <1>7, <1>8 DEF RequestOK

\* A handler's step is about its own request.
LEMMA HandlersApart ==
  ASSUME TypeOK, NEW r \in Requests, Handler(r) \/ Client(r), UNCHANGED workerVars,
         NEW q \in Requests, q # r
  PROVE  Untouched(q)
<1>1. UNCHANGED <<conn[q], kind[q], events[q], gone[q], wire[q]>>
  <2>1. /\ conn' = conn \/ \E x : conn' = [conn EXCEPT ![r] = x]
        /\ kind' = kind \/ \E x : kind' = [kind EXCEPT ![r] = x]
        /\ events' = events \/ \E x : events' = [events EXCEPT ![r] = x]
        /\ gone' = gone \/ \E x : gone' = [gone EXCEPT ![r] = x]
        /\ wire' = wire \/ \E x : wire' = [wire EXCEPT ![r] = x]
    BY DEF Handler, Client, FirstEvent, WorkerVanished, StreamEvent, EncoderFails,
           CollectEvent, Submit, Malformed, Disconnect, Again, Leave, Sends
  <2> QED
    BY <2>1 DEF TypeOK
<1>2. queue' = queue \/ queue' = Append(queue, r)
  BY DEF Handler, Client, FirstEvent, WorkerVanished, StreamEvent, EncoderFails,
         CollectEvent, Submit, Malformed, Disconnect, Again
<1>3. Queued(q)' => Queued(q)
  <2>1. CASE queue' = queue
    BY <2>1 DEF Queued
  <2>2. CASE queue' = Append(queue, r)
    <3>1. queue \in Seq(Requests) /\ Len(queue) \in Nat
      BY LenProperties DEF TypeOK
    <3>2. /\ Len(queue') = Len(queue) + 1 /\ queue'[Len(queue) + 1] = r
          /\ \A i \in 1..Len(queue) : queue'[i] = queue[i]
      BY <2>2, <3>1, AppendProperties
    <3>3. ASSUME NEW i \in 1..Len(queue'), queue'[i] = q
          PROVE  i \in 1..Len(queue) /\ queue[i] = q
      BY <3>1, <3>2, <3>3
    <3> QED
      BY <3>3 DEF Queued
  <2> QED
    BY <1>2, <2>1, <2>2
<1> QED
  BY <1>1, <1>3 DEF Untouched, workerVars, OutOf, Waits, Served

\* The worker's step is about its job, before it or behind it.
LEMMA WorkerApart ==
  ASSUME TypeOK, WorkerPlace, Worker \/ Panic, ~Recv,
         NEW q \in Requests, q # job
  PROVE  Untouched(q)
<1>1. UNCHANGED <<conn, kind, gone, wire>>
  BY DEF Worker, Prepare, Poll, Text, Process, SendDelta, EngineEnds, Conclude,
         Deliver, Panic, handlerVars
<1>2. events'[q] = events[q]
  <2>1. events' = events \/ \E x : events' = [events EXCEPT ![job] = x]
    BY DEF Worker, Prepare, Poll, Text, Process, SendDelta, EngineEnds, Conclude,
           Deliver, Panic, Send
  <2> QED
    BY <2>1 DEF TypeOK
<1>3. job' = job \/ job' = NoJob
  BY DEF Worker, Prepare, Poll, Text, Process, SendDelta, EngineEnds, Conclude,
         Deliver, Panic, DropJob, Idle
<1>4. q # NoJob
  BY NoJobType
<1>5. queue' = queue \/ queue' = <<>>
  BY DEF Worker, Prepare, Poll, Text, Process, SendDelta, EngineEnds, Conclude,
         Deliver, Panic
<1>6. Queued(q)' => Queued(q)
  <2>1. CASE queue' = queue
    BY <2>1 DEF Queued
  <2>2. CASE queue' = <<>>
    <3>1. Len(queue') = 0
      BY <2>2, EmptySeq
    <3> QED
      BY <3>1 DEF Queued
  <2> QED
    BY <1>5, <2>1, <2>2
<1> QED
  BY <1>1, <1>2, <1>3, <1>4, <1>6 DEF Untouched, OutOf, Waits, Served

----------------------------------------------------------------------------
\* The steps of a handler, for its own request.

\* What was sent is a part of the whole text, also with one event more.
LEMMA SentIsWellSaid ==
  ASSUME TypeOK, NEW r \in Requests, NEW j, WellSaid(Said(r), j)
  PROVE  /\ WellSaid(wire[r], j)
         /\ events[r] # <<>> => WellSaid(Append(wire[r], Head(events[r])), j)
<1> DEFINE w == wire[r]
           e == events[r]
           o == OutOf(r)
           we == w \o e
           s == we \o o
<1>1. w \in Seq(Chunks) /\ e \in Seq(Chunks) /\ o \in Seq(Chunks)
  BY EmptySeq DEF TypeOK, OutOf
<1>2. s = Said(r)
  BY DEF Said
<1> HIDE DEF w, e, o
<1>3. /\ we \in Seq(Chunks) /\ Len(w) \in Nat /\ Len(e) \in Nat /\ Len(we) = Len(w) + Len(e)
      /\ \A i \in 1..Len(w) : we[i] = w[i]
      /\ \A i \in 1..Len(e) : we[Len(w) + i] = e[i]
  BY <1>1, PartsOfConcat
<1>4. we \in Seq(Chunks)
  BY <1>3
<1> HIDE DEF we
<1>5. /\ s \in Seq(Chunks) /\ Len(o) \in Nat /\ Len(s) = Len(we) + Len(o)
      /\ \A i \in 1..Len(we) : s[i] = we[i]
  BY <1>1, <1>4, PartsOfConcat
<1> HIDE DEF s
<1>6. WellSaid(w, j)
  <2>1. Len(w) <= Len(s) /\ \A i \in 1..Len(w) : w[i] = s[i]
    BY <1>3, <1>5
  <2> QED
    BY <1>1, <1>2, <1>5, <2>1, WellSaidPart
<1>7. ASSUME e # <<>> PROVE WellSaid(Append(w, Head(e)), j)
  <2> DEFINE h == Head(e)
             a == Append(w, h)
  <2>1. h \in Chunks /\ h = e[1] /\ Len(e) >= 1
    BY <1>1, <1>7, FirstAndRest
  <2> HIDE DEF h
  <2>2. /\ a \in Seq(Chunks) /\ Len(a) = Len(w) + 1
        /\ (\A i \in 1..Len(w) : a[i] = w[i]) /\ a[Len(w) + 1] = h
    BY <1>1, <2>1, AppendProperties
  <2> HIDE DEF a
  <2>3. Len(a) <= Len(s)
    BY <1>3, <1>5, <2>1, <2>2
  <2>4. s[Len(w) + 1] = h
    BY <1>3, <1>5, <2>1
  <2>5. ASSUME NEW i \in 1..Len(a) PROVE a[i] = s[i]
    <3>1. i \in 1..Len(w) \/ i = Len(w) + 1
      BY <1>3, <2>2
    <3>2. \A l \in 1..Len(w) : s[l] = w[l]
      BY <1>3, <1>5
    <3> QED
      BY <2>2, <2>4, <3>1, <3>2
  <2>6. WellSaid(a, j)
    BY <1>2, <1>5, <2>2, <2>3, <2>5, WellSaidPart
  <2> QED
    BY <2>6 DEF a, h
<1> QED
  BY <1>6, <1>7 DEF w, e

\* A request whose handler ends is in order, if what it sent has the form.
LEMMA Leaving ==
  ASSUME IInv, NEW r \in Requests, NEW c \in Seq(Chunks),
         Leave(r, "ended"), Sends(r, c), UNCHANGED <<queue, workerVars>>,
         kind'[r] = kind[r] \/ ~Served(r), ~Waits(r),
         Queued(r)' => Queued(r),
         \A i \in 1..Len(c) : c[i].type # "delta",
         \A i \in 1..Len(c) : c[i].type = "done" => c[i].finish \in Reasons,
         Grammatical(wire[r] \o c, "ended"), Accounted(wire[r] \o c, kind'[r])
  PROVE  RequestOK(r)'
<1>1. TypeOK /\ RequestOK(r)
  BY DEF IInv
<1>2. conn'[r] = "ended" /\ gone'[r] = TRUE /\ events'[r] = <<>>
  BY <1>1 DEF Leave, TypeOK
<1>3. wire'[r] = wire[r] \o c /\ wire[r] \in Seq(Chunks)
  BY <1>1, SendsTypes DEF TypeOK
<1>4. Len(events'[r]) = 0
  BY <1>2, EmptySeq
<1>5. UNCHANGED <<queue, phase, job, made, stopped, broken, outcome, outbox>>
  BY DEF workerVars
<1> DEFINE w == wire[r]
           v == wire'[r]
<1>6. /\ Len(w) \in Nat /\ Len(c) \in Nat
      /\ \A i \in 1..Len(v) : \/ i \in 1..Len(w) /\ v[i] = w[i]
                              \/ \E l \in 1..Len(c) : i = Len(w) + l /\ v[i] = c[l]
  <2>1. w \in Seq(Chunks)
    BY <1>3
  <2> HIDE DEF w
  <2>2. v = w \o c
    BY <1>3 DEF w
  <2> HIDE DEF v
  <2> QED
    BY <2>1, <2>2, PartsOfConcat
<1>7. PlaceOf(r)'
  BY <1>2 DEF PlaceOf
<1>8. ~Waits(r)'
  BY <1>5 DEF Waits, Queued
<1>9. QuietOf(r)'
  <2> SUFFICES ASSUME Served(r)', kind'[r].json PROVE QuietOf(r)'
    BY DEF QuietOf
  <2>1. Served(r) /\ kind'[r] = kind[r]
    BY <1>5 DEF Served
  <2>2. outbox = <<>> /\ \A i \in 1..Len(wire[r]) : wire[r][i].type # "delta"
    BY <1>1, <2>1 DEF RequestOK, QuietOf
  <2>3. \A i \in 1..Len(v) : v[i].type # "delta"
    BY <1>6, <2>2
  <2> QED
    BY <1>4, <1>5, <2>2, <2>3 DEF QuietOf
<1>10. ToldOf(r)'
  <2>1. Told(wire[r]) /\ Told(OutOf(r))
    BY <1>1 DEF RequestOK, ToldOf
  <2>2. Told(v)
    BY <1>6, <2>1 DEF Told
  <2>3. Told(events'[r])
    BY <1>4 DEF Told
  <2>4. OutOf(r)' = OutOf(r)
    BY <1>5 DEF OutOf
  <2> QED
    BY <2>1, <2>2, <2>3, <2>4 DEF ToldOf
<1>11. ClosedOf(r)'
  BY <1>2, <1>3 DEF ClosedOf
<1>12. WaitingOf(r)' /\ TellingOf(r)' /\ ProgressOf(r)'
  BY <1>2, <1>8 DEF WaitingOf, TellingOf, ProgressOf
<1> QED
  BY <1>7, <1>9, <1>10, <1>11, <1>12 DEF RequestOK

\* One status item on a wire where nothing was sent.
LEMMA LeavingWithStatus ==
  ASSUME IInv, NEW r \in Requests, NEW x \in {"400", "500", "503"},
         Leave(r, "ended"), Sends(r, <<Item(x, 0)>>), UNCHANGED <<queue, workerVars>>,
         kind'[r] = kind[r] \/ ~Served(r), ~Waits(r), wire[r] = <<>>
  PROVE  RequestOK(r)'
<1> DEFINE c == <<Item(x, 0)>>
<1>1. c \in Seq(Chunks) /\ Len(c) = 1 /\ c[1].type = x
  BY AloneItems
<1>2. Sends(r, c)
  OBVIOUS
<1> HIDE DEF c
<1>3. \A i \in 1..Len(c) : c[i].type \notin {"role", "delta", "done"}
  BY <1>1
<1>4. <<>> \o c = c
  BY <1>1, ConcatEmptySeq
<1>5. Grammatical(c, "ended") /\ Accounted(c, kind'[r])
  BY <1>1, <1>3, ClosedOther
<1>6. Queued(r)' => Queued(r)
  BY DEF Queued
<1> QED
  BY <1>1, <1>2, <1>3, <1>4, <1>5, <1>6, Leaving

\* An open stream ends.
LEMMA LeavingStream ==
  ASSUME IInv, NEW r \in Requests, NEW c \in Seq(Chunks), conn[r] = "stream",
         Leave(r, "ended"), Sends(r, c), UNCHANGED <<kind, queue, workerVars>>,
         Closing(c), ~Waits(r),
         c[1].type = "done" => events[r] # <<>> /\ c[1] = Head(events[r]),
         \A i \in 1..Len(c) : c[i].type = "done" => c[i] = c[1]
  PROVE  RequestOK(r)'
<1>1. TypeOK /\ RequestOK(r)
  BY DEF IInv
<1>2. Opening(wire[r]) /\ WellSaid(Said(r), kind[r].json) /\ wire[r] \in Seq(Chunks)
  BY <1>1 DEF RequestOK, PlaceOf, TellingOf, TypeOK
<1>3. /\ WellSaid(wire[r], kind[r].json)
      /\ c[1].type = "done" => WellSaid(Append(wire[r], c[1]), kind[r].json)
  BY <1>1, <1>2, SentIsWellSaid
<1>4. Grammatical(wire[r] \o c, "ended") /\ Accounted(wire[r] \o c, kind[r])
  BY <1>2, <1>3, ClosedStream
<1>5. \A i \in 1..Len(c) : c[i].type # "delta"
  BY DEF Closing
<1>6. c[1].type = "done" => c[1].finish \in Reasons
  <2> SUFFICES ASSUME c[1].type = "done" PROVE c[1].finish \in Reasons
    OBVIOUS
  <2>1. c[1] = events[r][1] /\ 1 \in 1..Len(events[r])
    BY <1>1, HeadOfEvents
  <2>2. Told(events[r])
    BY <1>1 DEF RequestOK, ToldOf
  <2> QED
    BY <2>1, <2>2 DEF Told
<1>7. \A i \in 1..Len(c) : c[i].type = "done" => c[i].finish \in Reasons
  BY <1>6
<1>8. (Queued(r)' => Queued(r)) /\ UNCHANGED <<queue, workerVars>> /\ kind'[r] = kind[r]
  BY DEF Queued
<1> QED
  BY <1>4, <1>5, <1>7, <1>8, Leaving

\* A channel with an event in it is not that of a waiting request.
LEMMA HeardFrom ==
  ASSUME IInv, NEW r \in Requests, events[r] # <<>> \/ conn[r] = "new"
  PROVE  ~Waits(r)
<1>1. RequestOK(r)
  BY DEF IInv
<1> QED
  BY <1>1 DEF RequestOK, WaitingOf, PlaceOf, Waits

\* Neither is one that the worker does not hold.
LEMMA NotHeld ==
  ASSUME TypeOK, NEW r \in Requests, ~Held(r)
  PROVE  ~Waits(r) /\ ~Served(r) /\ job # r /\ ~Queued(r)
<1>1. DOMAIN queue = 1..Len(queue)
  BY LenProperties DEF TypeOK
<1> QED
  BY <1>1 DEF Held, Waits, Served, Queued

LEMMA SubmitKeeps ==
  ASSUME IInv, NEW r \in Requests, NEW k \in Kinds, Submit(r, k)
  PROVE  RequestOK(r)'
<1>1. TypeOK /\ RequestOK(r) /\ conn[r] = "new" /\ kind' = [kind EXCEPT ![r] = k]
  BY DEF IInv, Submit
<1>2. UNCHANGED <<phase, job, made, stopped, broken, outcome, outbox>>
  BY DEF Submit, workerVars
<1>3. wire[r] = <<>> /\ events[r] = <<>> /\ ~gone[r] /\ job # r /\ ~Waits(r) /\ ~Served(r)
  BY <1>1, HeardFrom DEF RequestOK, PlaceOf, Served
<1>4. CASE Room
  <2>1. conn'[r] = "first" /\ UNCHANGED <<events, gone, wire>>
    BY <1>1, <1>4 DEF Submit, TypeOK
  <2>2. Said(r)' = (<<>> \o <<>>) \o <<>>
    BY <1>2, <1>3, <2>1 DEF Said, OutOf
  <2>3. (<<>> \o <<>>) \o <<>> = <<>> /\ Len(<<>>) = 0
    BY EmptySeq, ConcatEmptySeq
  <2>4. TellingOf(r)'
    BY <2>2, <2>3 DEF TellingOf, WellSaid
  <2>5. ~Served(r)'
    BY <1>2, <1>3 DEF Served
  <2>6. ToldOf(r)'
    BY <1>2, <1>3, <2>1, <2>3 DEF ToldOf, Told, OutOf
  <2> QED
    BY <1>3, <2>1, <2>4, <2>5, <2>6
       DEF RequestOK, PlaceOf, WaitingOf, ProgressOf, QuietOf, ClosedOf
<1>5. CASE ~Room
  <2>1. Leave(r, "ended") /\ Sends(r, <<Item("503", 0)>>) /\ UNCHANGED <<queue, workerVars>>
    BY <1>5 DEF Submit
  <2> QED
    BY <1>3, <2>1, LeavingWithStatus
<1> QED
  BY <1>4, <1>5

LEMMA MalformedKeeps ==
  ASSUME IInv, NEW r \in Requests, Malformed(r)
  PROVE  RequestOK(r)'
<1>1. TypeOK /\ RequestOK(r) /\ conn[r] = "new"
  BY DEF IInv, Malformed
<1>2. wire[r] = <<>> /\ ~Waits(r)
  BY <1>1, HeardFrom DEF RequestOK, PlaceOf
<1>3. /\ Leave(r, "ended") /\ Sends(r, <<Item("400", 0)>>) /\ UNCHANGED <<queue, workerVars>>
      /\ kind' = kind
  BY DEF Malformed
<1> QED
  BY <1>2, <1>3, LeavingWithStatus

LEMMA FirstEventKeeps ==
  ASSUME IInv, NEW r \in Requests, FirstEvent(r)
  PROVE  RequestOK(r)'
<1> DEFINE e == events[r]
           l == Tail(events[r])
           o == OutOf(r)
<1>1. TypeOK /\ RequestOK(r) /\ conn[r] = "first" /\ e # <<>> /\ ~Waits(r)
  BY HeardFrom DEF IInv, FirstEvent
<1>2. UNCHANGED <<kind, queue, workerVars>>
  BY FirstEventCases
<1>3. wire[r] = <<>> /\ ~gone[r]
  BY <1>1 DEF RequestOK, PlaceOf
<1>4. ASSUME NEW x \in {"400", "500", "503"}, Leave(r, "ended"), Sends(r, <<Item(x, 0)>>)
      PROVE  RequestOK(r)'
  <2>1. UNCHANGED <<queue, workerVars>> /\ kind'[r] = kind[r]
    BY <1>2
  <2> QED
    BY <1>1, <1>3, <1>4, <2>1, LeavingWithStatus
<1>5. CASE /\ Head(e).type = "ready"
           /\ conn' = [conn EXCEPT ![r] = IF kind[r].stream THEN "stream" ELSE "collect"]
           /\ events' = [events EXCEPT ![r] = l]
           /\ Sends(r, IF kind[r].stream THEN <<Item("role", 0)>> ELSE <<>>)
           /\ gone' = gone
  <2>1. UNCHANGED <<kind, queue, phase, job, made, stopped, broken, outcome, outbox>>
    BY <1>2 DEF workerVars
  <2>2. /\ e \in Seq(Chunks) /\ Head(e) \in Chunks /\ Head(e) = e[1] /\ Len(e) \in Nat
        /\ Len(e) >= 1 /\ l \in Seq(Chunks) /\ Len(l) = Len(e) - 1
        /\ \A i \in 1..Len(l) : l[i] = e[i + 1]
    BY <1>1, HeadOfEvents
  <2>3. events'[r] = l
    BY <1>1, <1>5 DEF TypeOK
  <2>4. ~Waits(r)' /\ (Queued(r)' <=> Queued(r)) /\ (Served(r)' <=> Served(r)) /\ OutOf(r)' = o
    BY <1>1, <2>1 DEF Waits, Queued, Served, OutOf
  <2>5. o \in Seq(Chunks)
    BY <1>1, EmptySeq DEF TypeOK, OutOf
  <2>7. Told(l)
    <3>1. Told(e)
      BY <1>1 DEF RequestOK, ToldOf
    <3>2. ASSUME NEW i \in 1..Len(l) PROVE i + 1 \in 1..Len(e) /\ l[i] = e[i + 1]
      BY <2>2
    <3> HIDE DEF l, e
    <3> QED
      BY <3>1, <3>2 DEF Told
  <2>8. Served(r) /\ kind[r].json =>
          outbox = <<>> /\ \A i \in 1..Len(l) : l[i].type = "ready"
    <3>1. Served(r) /\ kind[r].json =>
            outbox = <<>> /\ \A i \in 1..Len(e) : e[i].type = "ready"
      BY <1>1 DEF RequestOK, QuietOf
    <3>2. ASSUME NEW i \in 1..Len(l) PROVE i + 1 \in 1..Len(e) /\ l[i] = e[i + 1]
      BY <2>2
    <3> HIDE DEF l, e
    <3> QED
      BY <3>1, <3>2
  <2>9. CASE ~kind[r].stream
    <3>1. conn'[r] = "collect"
      BY <1>1, <1>5, <2>9 DEF TypeOK
    <3>2. wire'[r] = <<>>
      <4>1. Sends(r, <<>>) /\ <<>> \in Seq(Chunks)
        BY <1>5, <2>9, EmptySeq
      <4>2. wire'[r] = wire[r] \o <<>>
        BY <1>1, <4>1, SendsTypes
      <4> QED
        BY <1>3, <4>1, <4>2, ConcatEmptySeq
    <3>3. Len(<<>>) = 0
      BY EmptySeq
    <3>4. Told(o)
      BY <1>1 DEF RequestOK, ToldOf
    <3>5. ToldOf(r)'
      BY <2>3, <2>4, <2>7, <3>2, <3>3, <3>4 DEF ToldOf, Told
    <3>6. QuietOf(r)'
      BY <2>1, <2>3, <2>4, <2>8, <3>2, <3>3 DEF QuietOf
    <3>7. PlaceOf(r)'
      BY <1>3, <1>5, <2>1, <2>9, <3>1, <3>2 DEF PlaceOf
    <3> QED
      BY <2>4, <3>1, <3>5, <3>6, <3>7
         DEF RequestOK, WaitingOf, TellingOf, ProgressOf, ClosedOf
  <2>10. CASE kind[r].stream
    <3> DEFINE x == Item("role", 0)
               p == <<x>>
               h == <<Head(e)>>
               rest == l \o o
    <3>1. conn'[r] = "stream"
      BY <1>1, <1>5, <2>10 DEF TypeOK
    <3>2. /\ x \in Chunks /\ x.type = "role" /\ p \in Seq(Chunks) /\ Len(p) = 1 /\ p[1] = x
          /\ p # <<>>
      BY AloneItems, Single
    <3>3. wire'[r] = p
      <4>1. Sends(r, p) /\ p \in Seq(Chunks)
        BY <1>5, <2>10, <3>2
      <4> HIDE DEF p
      <4>2. wire'[r] = wire[r] \o p
        BY <1>1, <4>1, SendsTypes
      <4> QED
        BY <1>3, <4>1, <4>2, ConcatEmptySeq
    <3>4. h \in Seq(Chunks) /\ Len(h) = 1 /\ h[1] = Head(e) /\ h = Append(<<>>, Head(e))
      BY <2>2, Single
    <3>5. Said(r) = h \o rest
      <4>1. Said(r) = (<<>> \o e) \o o
        BY <1>3 DEF Said
      <4>2. (<<>> \o e) \o o = (Append(<<>>, Head(e)) \o l) \o o
        BY <1>1, <2>2, <2>5, EmptySeq, MoveToFirst
      <4> HIDE DEF h, l, o
      <4>3. h \in Seq(Chunks) /\ l \in Seq(Chunks) /\ o \in Seq(Chunks)
        BY <2>2, <2>5, <3>4
      <4>4. (h \o l) \o o = h \o (l \o o)
        BY <4>3, ConcatAssociative, SMTT(30)
      <4> QED
        BY <3>4, <4>1, <4>2, <4>4
    <3>6. Said(r)' = p \o rest
      <4>1. Said(r)' = (p \o l) \o o
        BY <2>3, <2>4, <3>3 DEF Said
      <4> HIDE DEF p, l, o
      <4>2. p \in Seq(Chunks) /\ l \in Seq(Chunks) /\ o \in Seq(Chunks)
        BY <2>2, <2>5, <3>2
      <4>3. (p \o l) \o o = p \o (l \o o)
        BY <4>2, ConcatAssociative, SMTT(30)
      <4> QED
        BY <4>1, <4>3
    <3>7. rest \in Seq(Chunks)
      BY <2>2, <2>5, ConcatProperties
    <3> DEFINE s == h \o rest
               t == p \o rest
    <3> HIDE DEF h, p, rest
    <3>8. /\ s \in Seq(Chunks) /\ Len(s) = Len(h) + Len(rest) /\ Len(rest) \in Nat
          /\ \A i \in 1..Len(h) : s[i] = h[i]
          /\ \A i \in 1..Len(rest) : s[Len(h) + i] = rest[i]
      BY <3>4, <3>7, PartsOfConcat
    <3>20. p \in Seq(Chunks)
      BY <3>2
    <3>9. /\ t \in Seq(Chunks) /\ Len(t) = Len(p) + Len(rest)
          /\ \A i \in 1..Len(p) : t[i] = p[i]
          /\ \A i \in 1..Len(rest) : t[Len(p) + i] = rest[i]
      BY <3>7, <3>20, PartsOfConcat
    <3> HIDE DEF s, t
    <3>10. Len(t) = Len(s) /\ \A i \in 2..Len(t) : t[i] = s[i]
      <4>1. Len(s) = 1 + Len(rest) /\ Len(t) = 1 + Len(rest)
        BY <3>2, <3>4, <3>8, <3>9
      <4>2. ASSUME NEW i \in 2..Len(t) PROVE t[i] = s[i]
        <5>1. i - 1 \in 1..Len(rest) /\ 1 + (i - 1) = i
          BY <3>8, <4>1
        <5>2. t[1 + (i - 1)] = rest[i - 1] /\ s[1 + (i - 1)] = rest[i - 1]
          BY <3>2, <3>4, <3>8, <3>9, <5>1
        <5> QED
          BY <5>1, <5>2
      <4> QED
        BY <4>1, <4>2
    <3>11. t[1].type = "role"
      BY <3>2, <3>9
    <3>12. WellSaid(s, kind[r].json)
      BY <1>1, <3>5 DEF RequestOK, TellingOf, s
    <3>13. WellSaid(t, kind[r].json)
      BY <3>8, <3>9, <3>10, <3>11, <3>12, WellSaidOpened
    <3>14. Said(r)' = t /\ Said(r) = s
      BY <3>5, <3>6 DEF s, t
    <3>15. TellingOf(r)' /\ ProgressOf(r)'
      <4>1. ProgressOf(r) /\ UNCHANGED <<kind, made>>
        BY <1>1, <2>1 DEF RequestOK
      <4> QED
        BY <1>1, <2>4, <3>10, <3>13, <3>14, <4>1 DEF TellingOf, ProgressOf
    <3>16. ToldOf(r)'
      <4>1. Told(o)
        BY <1>1 DEF RequestOK, ToldOf
      <4>2. Told(p)
        BY <3>2 DEF Told
      <4> QED
        BY <2>3, <2>4, <2>7, <3>3, <4>1, <4>2 DEF ToldOf
    <3>17. QuietOf(r)'
      <4>1. \A i \in 1..Len(p) : p[i].type # "delta"
        BY <3>2
      <4> QED
        BY <2>1, <2>3, <2>4, <2>8, <3>3, <4>1 DEF QuietOf
    <3>18. Opening(p)
      BY <3>2 DEF Opening
    <3>19. PlaceOf(r)'
      BY <1>3, <1>5, <2>1, <2>10, <3>1, <3>3, <3>18 DEF PlaceOf
    <3> QED
      BY <2>4, <3>1, <3>15, <3>16, <3>17, <3>19 DEF RequestOK, WaitingOf, ClosedOf
  <2> QED
    BY <2>9, <2>10
<1> QED
  BY <1>4, <1>5, FirstEventCases

LEMMA WorkerVanishedKeeps ==
  ASSUME IInv, NEW r \in Requests, WorkerVanished(r)
  PROVE  RequestOK(r)'
<1>1. /\ TypeOK /\ RequestOK(r) /\ events[r] = <<>> /\ ~Held(r) /\ Leave(r, "ended")
      /\ conn[r] \in {"first", "stream", "collect"}
      /\ Sends(r, IF conn[r] = "stream" THEN StreamError ELSE <<Item("503", 0)>>)
      /\ UNCHANGED <<kind, queue, workerVars>>
  BY DEF IInv, WorkerVanished
<1>2. ~Waits(r)
  BY <1>1, NotHeld
<1>3. CASE conn[r] = "stream"
  <2>1. Sends(r, StreamError) /\ Leave(r, "ended") /\ UNCHANGED <<kind, queue, workerVars>>
    BY <1>1, <1>3
  <2>2. /\ StreamError \in Seq(Chunks) /\ Closing(StreamError)
        /\ StreamError[1].type # "done"
        /\ \A i \in 1..Len(StreamError) : StreamError[i].type # "done"
    <3>1. /\ StreamError \in Seq(Chunks) /\ Len(StreamError) = 2 /\ Closing(StreamError)
          /\ StreamError[1].type = "error" /\ StreamError[2].type = "[DONE]"
      BY StreamErrorItems
    <3>2. \A i \in 1..2 : i = 1 \/ i = 2
      OBVIOUS
    <3> QED
      BY <3>1, <3>2
  <2> QED
    BY <1>2, <1>3, <2>1, <2>2, LeavingStream
<1>4. CASE conn[r] # "stream"
  <2>1. wire[r] = <<>>
    BY <1>1, <1>4 DEF RequestOK, PlaceOf
  <2>2. Sends(r, <<Item("503", 0)>>) /\ UNCHANGED <<queue, workerVars>> /\ kind'[r] = kind[r]
    BY <1>1, <1>4
  <2> QED
    BY <1>1, <1>2, <2>1, <2>2, LeavingWithStatus
<1> QED
  BY <1>3, <1>4

LEMMA StreamEventKeeps ==
  ASSUME IInv, NEW r \in Requests, StreamEvent(r)
  PROVE  RequestOK(r)'
<1> DEFINE e == events[r]
           h == Head(e)
           l == Tail(e)
           o == OutOf(r)
           w == wire[r]
<1>1. /\ TypeOK /\ RequestOK(r) /\ conn[r] = "stream" /\ e # <<>> /\ ~Waits(r)
      /\ UNCHANGED <<kind, queue, workerVars>>
  BY HeardFrom, StreamEventCases DEF IInv
<1>2. /\ e \in Seq(Chunks) /\ h \in Chunks /\ h = e[1] /\ Len(e) \in Nat
      /\ Len(e) >= 1 /\ l \in Seq(Chunks) /\ Len(l) = Len(e) - 1
      /\ \A i \in 1..Len(l) : l[i] = e[i + 1]
  BY <1>1, HeadOfEvents
<1>3. CASE Leave(r, "ended") /\ Sends(r, StreamError)
  <2>1. /\ StreamError \in Seq(Chunks) /\ Closing(StreamError)
        /\ StreamError[1].type # "done"
        /\ \A i \in 1..Len(StreamError) : StreamError[i].type # "done"
    <3>1. /\ StreamError \in Seq(Chunks) /\ Len(StreamError) = 2 /\ Closing(StreamError)
          /\ StreamError[1].type = "error" /\ StreamError[2].type = "[DONE]"
      BY StreamErrorItems
    <3>2. \A i \in 1..2 : i = 1 \/ i = 2
      OBVIOUS
    <3> QED
      BY <3>1, <3>2
  <2> QED
    BY <1>1, <1>3, <2>1, LeavingStream
<1>4. ASSUME h.type = "done", Leave(r, "ended"), NEW u \in BOOLEAN,
             Sends(r, <<h>> \o (IF u THEN <<Item("usage", 0)>> ELSE <<>>) \o Finished)
      PROVE  RequestOK(r)'
  <2> DEFINE c == <<h>> \o (IF u THEN <<Item("usage", 0)>> ELSE <<>>) \o Finished
  <2>1. /\ c \in Seq(Chunks) /\ c[1] = h /\ Closing(c)
        /\ \A i \in 1..Len(c) : c[i].type = "done" => c[i] = h
    BY <1>2, <1>4, DoneItems
  <2>2. Sends(r, c)
    BY <1>4
  <2> HIDE DEF c
  <2> QED
    BY <1>1, <1>4, <2>1, <2>2, LeavingStream
<1>5. CASE /\ h.type \in Texts /\ Sends(r, <<h>>)
           /\ events' = [events EXCEPT ![r] = l] /\ UNCHANGED <<conn, gone>>
  <2>1. UNCHANGED <<kind, queue, phase, job, made, stopped, broken, outcome, outbox>>
    BY <1>1 DEF workerVars
  <2>2. events'[r] = l /\ conn'[r] = "stream" /\ ~gone'[r]
    BY <1>1, <1>5 DEF TypeOK, RequestOK, PlaceOf
  <2>3. w \in Seq(Chunks) /\ <<h>> \in Seq(Chunks) /\ h \in Chunks
    BY <1>1, <1>2, Single DEF TypeOK
  <2>4. wire'[r] = w \o <<h>>
    BY <1>1, <1>5, <2>3, SendsTypes
  <2>5. wire'[r] = Append(w, h)
    <3>1. Append(w, h) = w \o <<h>>
      BY <2>3, AppendIsConcat
    <3> QED
      BY <2>4, <3>1
  <2>6. ~Waits(r)' /\ (Queued(r)' <=> Queued(r)) /\ (Served(r)' <=> Served(r)) /\ OutOf(r)' = o
    BY <1>1, <2>1 DEF Waits, Queued, Served, OutOf
  <2>7. o \in Seq(Chunks)
    BY <1>1, EmptySeq DEF TypeOK, OutOf
  <2>8. Said(r)' = Said(r)
    <3>1. Said(r) = (w \o e) \o o
      BY DEF Said
    <3>2. Said(r)' = (Append(w, h) \o l) \o o
      BY <2>2, <2>5, <2>6 DEF Said
    <3>3. w \in Seq(Chunks) /\ e \in Seq(Chunks) /\ o \in Seq(Chunks) /\ e # <<>>
      BY <1>1, <1>2, <2>3, <2>7
    <3> HIDE DEF w, e, o
    <3>4. (w \o e) \o o = (Append(w, Head(e)) \o Tail(e)) \o o
      BY <3>3, MoveToFirst
    <3> QED
      BY <3>1, <3>2, <3>4
  <2>9. ~(Served(r) /\ kind[r].json)
    <3>1. Served(r) /\ kind[r].json => h.type = "ready"
      BY <1>1, <1>2 DEF RequestOK, QuietOf
    <3> QED
      BY <1>5, <3>1 DEF Texts
  <2>10. /\ Len(Append(w, h)) = Len(w) + 1 /\ Len(w) \in Nat
         /\ (\A i \in 1..Len(w) : Append(w, h)[i] = w[i]) /\ Append(w, h)[Len(w) + 1] = h
         /\ Append(w, h) # <<>>
    BY <2>3, AppendProperties, LenProperties
  <2>11. Opening(wire'[r])
    <3>4. Opening(w)
      BY <1>1 DEF RequestOK, PlaceOf
    <3>5. w \in Seq(Chunks) /\ w # <<>>
      BY <2>3, <3>4 DEF Opening
    <3>6. Len(w) >= 1
      BY <3>5, FirstAndRest
    <3>1. Opening(w) /\ Len(w) >= 1
      BY <3>4, <3>6
    <3> DEFINE v == Append(w, h)
    <3>2. ASSUME NEW i \in 2..Len(v) PROVE v[i].type \in Texts
      <4>1. i \in 2..Len(w) \/ i = Len(w) + 1
        BY <2>10
      <4>2. i \in 2..Len(w) => v[i] = w[i] /\ w[i].type \in Texts
        BY <2>10, <3>1 DEF Opening
      <4> QED
        BY <1>5, <2>10, <4>1, <4>2
    <3>3. v[1].type = "role" /\ v # <<>>
      BY <2>10, <3>1 DEF Opening
    <3> QED
      BY <2>5, <3>2, <3>3 DEF Opening
  <2>12. PlaceOf(r)'
    BY <1>1, <2>1, <2>2, <2>11 DEF PlaceOf, RequestOK
  <2>13. TellingOf(r)' /\ ProgressOf(r)'
    BY <1>1, <2>1, <2>2, <2>6, <2>8 DEF RequestOK, TellingOf, ProgressOf
  <2>14. QuietOf(r)'
    BY <2>1, <2>6, <2>9 DEF QuietOf
  <2>15. ToldOf(r)'
    <3>1. Told(w) /\ Told(e) /\ Told(o)
      BY <1>1 DEF RequestOK, ToldOf
    <3>2. Told(l)
      <4>1. ASSUME NEW i \in 1..Len(l) PROVE i + 1 \in 1..Len(e) /\ l[i] = e[i + 1]
        BY <1>2
      <4> HIDE DEF l, e
      <4> QED
        BY <3>1, <4>1 DEF Told
    <3>3. Told(Append(w, h))
      <4> DEFINE v == Append(w, h)
      <4>1. ASSUME NEW i \in 1..Len(v) PROVE (i \in 1..Len(w) /\ v[i] = w[i]) \/ v[i] = h
        BY <2>10
      <4>2. h.type # "done"
        BY <1>5 DEF Texts
      <4> HIDE DEF v
      <4>3. Told(v)
        BY <3>1, <4>1, <4>2 DEF Told
      <4> QED
        BY <4>3 DEF v
    <3> QED
      BY <2>2, <2>5, <2>6, <3>1, <3>2, <3>3 DEF ToldOf
  <2> QED
    BY <2>2, <2>6, <2>12, <2>13, <2>14, <2>15 DEF RequestOK, WaitingOf, ClosedOf
<1> QED
  BY <1>1, <1>3, <1>4, <1>5, StreamEventCases

LEMMA EncoderFailsKeeps ==
  ASSUME IInv, NEW r \in Requests, EncoderFails(r)
  PROVE  RequestOK(r)'
<1> DEFINE e == Head(events[r])
<1>1. /\ TypeOK /\ RequestOK(r) /\ events[r] # <<>> /\ ~Waits(r) /\ Leave(r, "ended")
      /\ UNCHANGED <<kind, queue, workerVars>>
      /\ conn[r] = "stream" \/ conn[r] = "first"
  BY HeardFrom DEF IInv, EncoderFails
<1>2. /\ StreamError \in Seq(Chunks) /\ Closing(StreamError)
      /\ \A i \in 1..Len(StreamError) : StreamError[i].type \notin {"done", "role", "delta"}
      /\ StreamError[1].type # "done"
  <2>1. /\ StreamError \in Seq(Chunks) /\ Len(StreamError) = 2 /\ Closing(StreamError)
        /\ StreamError[1].type = "error" /\ StreamError[2].type = "[DONE]"
    BY StreamErrorItems
  <2>2. \A i \in 1..2 : i = 1 \/ i = 2
    OBVIOUS
  <2> QED
    BY <2>1, <2>2
<1>3. CASE conn[r] = "stream" /\ Sends(r, StreamError)
  BY <1>1, <1>2, <1>3, LeavingStream
<1>4. CASE conn[r] = "first" /\ Sends(r, StreamError)
  <2>1. wire[r] = <<>>
    BY <1>1, <1>4 DEF RequestOK, PlaceOf
  <2>2. <<>> \o StreamError = StreamError
    BY <1>2, ConcatEmptySeq
  <2>3. Grammatical(StreamError, "ended") /\ Accounted(StreamError, kind'[r])
    BY <1>2, ClosedOther
  <2>4. (Queued(r)' => Queued(r)) /\ UNCHANGED <<queue, workerVars>> /\ kind'[r] = kind[r]
    BY <1>1 DEF Queued
  <2> QED
    BY <1>1, <1>2, <1>4, <2>1, <2>2, <2>3, <2>4, Leaving
<1>5. CASE e.type = "done" /\ conn[r] = "stream" /\ Sends(r, <<e>> \o StreamError)
  <2> DEFINE c == <<e>> \o StreamError
  <2>1. e \in Chunks
    BY <1>1, HeadOfEvents
  <2>2. /\ c \in Seq(Chunks) /\ c[1] = e /\ Closing(c)
        /\ \A i \in 1..Len(c) : c[i].type = "done" => c[i] = e
    BY <1>5, <2>1, DoneItems
  <2>3. Sends(r, c)
    BY <1>5
  <2> HIDE DEF c
  <2> QED
    BY <1>1, <1>5, <2>2, <2>3, LeavingStream
<1> QED
  BY <1>1, <1>3, <1>4, <1>5 DEF EncoderFails

LEMMA CollectEventKeeps ==
  ASSUME IInv, NEW r \in Requests, CollectEvent(r)
  PROVE  RequestOK(r)'
<1> DEFINE e == events[r]
           h == Head(e)
           l == Tail(e)
<1>1. /\ TypeOK /\ RequestOK(r) /\ conn[r] = "collect" /\ e # <<>> /\ ~Waits(r)
      /\ UNCHANGED <<kind, queue, workerVars>>
  BY HeardFrom, CollectEventCases DEF IInv
<1>2. /\ e \in Seq(Chunks) /\ h \in Chunks /\ h = e[1] /\ Len(e) \in Nat
      /\ Len(e) >= 1 /\ l \in Seq(Chunks) /\ Len(l) = Len(e) - 1
      /\ \A i \in 1..Len(l) : l[i] = e[i + 1]
  BY <1>1, HeadOfEvents
<1>3. wire[r] = <<>> /\ ~kind[r].stream /\ ~gone[r]
  BY <1>1 DEF RequestOK, PlaceOf
<1>4. ASSUME NEW x \in {"400", "500"}, Leave(r, "ended"), Sends(r, <<Item(x, 0)>>)
      PROVE  RequestOK(r)'
  <2>1. UNCHANGED <<queue, workerVars>> /\ kind'[r] = kind[r]
    BY <1>1
  <2> QED
    BY <1>1, <1>3, <1>4, <2>1, LeavingWithStatus
<1>5. CASE h.type = "done" /\ Leave(r, "ended") /\ Sends(r, <<h>>)
  <2> DEFINE c == <<h>>
  <2>1. c \in Seq(Chunks) /\ Len(c) = 1 /\ c[1] = h
    BY <1>2, Single
  <2>2. Sends(r, c)
    BY <1>5
  <2> HIDE DEF c
  <2>3. \A i \in 1..Len(c) : c[i].type \notin {"role", "delta"}
    BY <1>5, <2>1
  <2>4. <<>> \o c = c
    BY <2>1, ConcatEmptySeq
  <2>5. kind'[r] = kind[r] /\ UNCHANGED <<queue, workerVars>> /\ (Queued(r)' => Queued(r))
    BY <1>1 DEF Queued
  <2>6. Grammatical(c, "ended") /\ Accounted(c, kind'[r])
    BY <1>3, <2>1, <2>3, <2>5, ClosedOther
  <2>7. \A i \in 1..Len(c) : c[i].type = "done" => c[i].finish \in Reasons
    <3>1. h.finish \in Reasons
      <4>1. Told(e) /\ 1 \in 1..Len(e) /\ e[1].type = "done"
        BY <1>1, <1>2, <1>5 DEF RequestOK, ToldOf
      <4>2. e[1].finish \in Reasons
        BY <4>1 DEF Told
      <4> QED
        BY <1>2, <4>2
    <3> QED
      BY <2>1, <3>1
  <2>8. Grammatical(wire[r] \o c, "ended") /\ Accounted(wire[r] \o c, kind'[r])
    BY <1>3, <2>4, <2>6
  <2>9. \A i \in 1..Len(c) : c[i].type # "delta"
    BY <2>3
  <2> QED
    BY <1>1, <1>5, <2>1, <2>2, <2>5, <2>7, <2>8, <2>9, Leaving
<1>6. CASE events' = [events EXCEPT ![r] = l] /\ UNCHANGED <<conn, gone, wire>>
  <2>1. UNCHANGED <<kind, queue, phase, job, made, stopped, broken, outcome, outbox>>
    BY <1>1 DEF workerVars
  <2>2. events'[r] = l
    BY <1>1, <1>6 DEF TypeOK
  <2>3. ~Waits(r)' /\ (Served(r)' <=> Served(r)) /\ OutOf(r)' = OutOf(r)
    BY <1>1, <2>1 DEF Waits, Queued, Served, OutOf
  <2>4. ASSUME NEW i \in 1..Len(l) PROVE i + 1 \in 1..Len(e) /\ l[i] = e[i + 1]
    BY <1>2
  <2>5. ToldOf(r) /\ QuietOf(r)
    BY <1>1 DEF RequestOK
  <2>6. Told(l)
    <3>1. Told(e)
      BY <2>5 DEF ToldOf
    <3> HIDE DEF l, e
    <3> QED
      BY <2>4, <3>1 DEF Told
  <2>7. Served(r) /\ kind[r].json => \A i \in 1..Len(l) : l[i].type = "ready"
    <3>1. Served(r) /\ kind[r].json => \A i \in 1..Len(e) : e[i].type = "ready"
      BY <2>5 DEF QuietOf
    <3> HIDE DEF l, e
    <3> QED
      BY <2>4, <3>1
  <2>8. ToldOf(r)'
    BY <1>6, <2>2, <2>3, <2>5, <2>6 DEF ToldOf
  <2>9. QuietOf(r)'
    BY <1>6, <2>1, <2>2, <2>3, <2>5, <2>7 DEF QuietOf
  <2>10. PlaceOf(r)'
    BY <1>1, <1>3, <1>6, <2>1 DEF PlaceOf
  <2> QED
    BY <1>1, <1>6, <2>3, <2>8, <2>9, <2>10
       DEF RequestOK, WaitingOf, TellingOf, ProgressOf, ClosedOf
<1> QED
  BY <1>4, <1>5, <1>6, CollectEventCases

LEMMA DisconnectKeeps ==
  ASSUME IInv, NEW r \in Requests, Disconnect(r)
  PROVE  RequestOK(r)'
<1>1. /\ TypeOK /\ RequestOK(r) /\ conn[r] \in {"first", "stream", "collect"}
      /\ Leave(r, "left") /\ UNCHANGED <<kind, wire, queue, workerVars>>
  BY DEF IInv, Disconnect
<1>2. UNCHANGED <<kind, wire, queue, phase, job, made, stopped, broken, outcome, outbox>>
  BY <1>1 DEF workerVars
<1>3. conn'[r] = "left" /\ gone'[r] = TRUE /\ events'[r] = <<>> /\ Len(events'[r]) = 0
  BY <1>1, EmptySeq DEF Leave, TypeOK
<1>4. (Waits(r)' <=> Waits(r)) /\ (Served(r)' <=> Served(r)) /\ OutOf(r)' = OutOf(r)
  BY <1>2 DEF Waits, Queued, Served, OutOf
<1>5. PlaceOf(r)' /\ WaitingOf(r)'
  BY <1>1, <1>2, <1>3, <1>4 DEF RequestOK, PlaceOf, WaitingOf
<1>6. QuietOf(r)'
  <2>1. QuietOf(r)
    BY <1>1 DEF RequestOK
  <2> QED
    BY <1>2, <1>3, <1>4, <2>1 DEF QuietOf
<1>7. ToldOf(r)'
  <2>1. ToldOf(r)
    BY <1>1 DEF RequestOK
  <2> QED
    BY <1>2, <1>3, <1>4, <2>1 DEF ToldOf, Told
<1> QED
  BY <1>3, <1>5, <1>6, <1>7 DEF RequestOK, TellingOf, ProgressOf, ClosedOf

LEMMA AgainKeeps ==
  ASSUME IInv, NEW r \in Requests, Again(r)
  PROVE  RequestOK(r)'
<1>1. /\ TypeOK /\ RequestOK(r) /\ conn[r] \in {"ended", "left"} /\ ~Held(r)
      /\ UNCHANGED <<kind, queue, events, workerVars>>
  BY DEF IInv, Again
<1>2. UNCHANGED <<kind, events, queue, phase, job, made, stopped, broken, outcome, outbox>>
  BY <1>1 DEF workerVars
<1>3. conn'[r] = "new" /\ gone'[r] = FALSE /\ wire'[r] = <<>> /\ events[r] = <<>>
      /\ Len(wire'[r]) = 0
  BY <1>1, EmptySeq DEF Again, TypeOK, RequestOK, PlaceOf
<1>4. ~Waits(r) /\ ~Served(r) /\ job # r /\ ~Queued(r)
  BY <1>1, NotHeld
<1>5. ~Waits(r)' /\ ~Served(r)' /\ job' # r /\ ~Queued(r)' /\ OutOf(r)' = <<>>
  BY <1>2, <1>4 DEF Waits, Queued, Served, OutOf
<1>6. ToldOf(r)'
  <2>1. Len(<<>>) = 0
    BY EmptySeq
  <2> QED
    BY <1>2, <1>3, <1>5, <2>1 DEF ToldOf, Told
<1> QED
  BY <1>2, <1>3, <1>5, <1>6
     DEF RequestOK, PlaceOf, WaitingOf, TellingOf, ProgressOf, QuietOf, ClosedOf

\* Every step of a handler or a client keeps the invariant.
LEMMA HandlerKeeps ==
  ASSUME IInv, NEW r \in Requests, Handler(r) \/ Client(r)
  PROVE  IInv'
<1>1. TypeOK /\ WorkerPlace /\ \A q \in Requests : RequestOK(q)
  BY DEF IInv
<1>2. TypeOK'
  BY <1>1, HandlerTypes
<1>3. WorkerPlace' /\ UNCHANGED workerVars
  <2>1. PlaceOf(r)
    BY <1>1 DEF RequestOK
  <2> QED
    BY <1>1, <2>1, HandlerKeepsWorker
<1>4. RequestOK(r)'
  BY SubmitKeeps, MalformedKeeps, FirstEventKeeps, WorkerVanishedKeeps, StreamEventKeeps,
     EncoderFailsKeeps, CollectEventKeeps, DisconnectKeeps, AgainKeeps
     DEF Handler, Client
<1>5. ASSUME NEW q \in Requests, q # r PROVE RequestOK(q)'
  BY <1>1, <1>3, <1>5, HandlersApart, Others
<1> QED
  BY <1>2, <1>3, <1>4, <1>5 DEF IInv

----------------------------------------------------------------------------
\* The steps of the worker, for its job.

\* Where nobody listens any more there is nothing left to say.
LEMMA Dropped ==
  ASSUME IInv, NEW r \in Requests, gone[r], UNCHANGED <<conn, kind, gone, wire, events>>,
         OutOf(r)' = <<>>, ~Waits(r)', Served(r)' => Served(r)
  PROVE  RequestOK(r)'
<1>1. RequestOK(r) /\ conn[r] \in {"ended", "left"} /\ conn'[r] \in {"ended", "left"}
  BY DEF IInv, RequestOK, PlaceOf
<1>2. PlaceOf(r)'
  BY <1>1 DEF RequestOK, PlaceOf
<1>3. QuietOf(r)'
  <2>1. QuietOf(r)
    BY <1>1 DEF RequestOK
  <2>2. Served(r)' => outbox' = <<>>
    BY DEF Served, OutOf
  <2> QED
    BY <2>1, <2>2 DEF QuietOf
<1>4. ToldOf(r)'
  <2>1. Told(wire[r]) /\ Told(events[r])
    BY <1>1 DEF RequestOK, ToldOf
  <2>2. Len(<<>>) = 0
    BY EmptySeq
  <2>3. Told(OutOf(r)')
    BY <2>2 DEF Told
  <2> QED
    BY <2>1, <2>3 DEF ToldOf
<1>5. ClosedOf(r)'
  <2>1. ClosedOf(r)
    BY <1>1 DEF RequestOK
  <2> QED
    BY <2>1 DEF ClosedOf
<1> QED
  BY <1>1, <1>2, <1>3, <1>4, <1>5 DEF RequestOK, WaitingOf, TellingOf, ProgressOf

LEMMA MoveEvent ==
  \A w, e, o \in Seq(Chunks) :
    o # <<>> => (w \o e) \o o = (w \o Append(e, Head(o))) \o Tail(o)
BY MoveToSecond

\* An event moves from the worker to the channel.
LEMMA Moved ==
  ASSUME IInv, NEW r \in Requests, job = r, ~gone[r], conn[r] # "new", outbox # <<>>,
         UNCHANGED <<conn, kind, gone, wire>>,
         events'[r] = Append(events[r], Head(outbox)), OutOf(r)' = Tail(outbox),
         ~Waits(r)', Served(r)' => Served(r) /\ UNCHANGED made
  PROVE  RequestOK(r)'
<1> DEFINE w == wire[r]
           e == events[r]
           h == Head(outbox)
           a == Append(e, h)
<1>1. TypeOK /\ RequestOK(r)
  BY DEF IInv
<1>2. w \in Seq(Chunks) /\ e \in Seq(Chunks) /\ outbox \in Seq(Chunks)
  BY <1>1 DEF TypeOK
<1>3. /\ Len(outbox) \in Nat /\ Len(outbox) >= 1 /\ h = outbox[1] /\ h \in Chunks
      /\ Tail(outbox) \in Seq(Chunks) /\ Len(Tail(outbox)) = Len(outbox) - 1
      /\ \A i \in 1..Len(Tail(outbox)) : Tail(outbox)[i] = outbox[i + 1]
  BY <1>2, FirstAndRest
<1>4. OutOf(r) = outbox
  BY DEF OutOf
<1>5. Said(r)' = Said(r)
  <2>1. Said(r) = (w \o e) \o outbox
    BY <1>4 DEF Said
  <2>2. Said(r)' = (w \o a) \o Tail(outbox)
    BY DEF Said
  <2>3. w \in Seq(Chunks) /\ e \in Seq(Chunks) /\ outbox \in Seq(Chunks) /\ outbox # <<>>
    BY <1>2
  <2> HIDE DEF w, e
  <2>4. (w \o e) \o outbox = (w \o Append(e, Head(outbox))) \o Tail(outbox)
    BY <2>3, MoveEvent, Zenon
  <2> QED
    BY <2>1, <2>2, <2>4
<1>6. PlaceOf(r)'
  BY <1>1 DEF RequestOK, PlaceOf
<1>7. TellingOf(r)' /\ ProgressOf(r)'
  <2>1. TellingOf(r) /\ ProgressOf(r)
    BY <1>1 DEF RequestOK
  <2> QED
    BY <1>5, <2>1 DEF TellingOf, ProgressOf
<1>8. ~(Served(r)' /\ kind'[r].json)
  <2>1. Served(r) => ~kind[r].json
    BY <1>1 DEF RequestOK, QuietOf
  <2> QED
    BY <2>1
<1>9. ToldOf(r)'
  <2>1. Told(w) /\ Told(e) /\ Told(outbox)
    BY <1>1, <1>4 DEF RequestOK, ToldOf
  <2>2. Told(Tail(outbox))
    <3>1. ASSUME NEW i \in 1..Len(Tail(outbox))
          PROVE  i + 1 \in 1..Len(outbox) /\ Tail(outbox)[i] = outbox[i + 1]
      BY <1>3
    <3> QED
      BY <2>1, <3>1 DEF Told
  <2>3. Told(a)
    <3>1. /\ Len(a) = Len(e) + 1 /\ (\A i \in 1..Len(e) : a[i] = e[i])
          /\ a[Len(e) + 1] = h /\ Len(e) \in Nat
      BY <1>2, <1>3, AppendProperties, LenProperties
    <3>2. ASSUME NEW i \in 1..Len(a) PROVE (i \in 1..Len(e) /\ a[i] = e[i]) \/ a[i] = outbox[1]
      BY <1>3, <3>1
    <3>3. 1 \in 1..Len(outbox)
      BY <1>3
    <3> HIDE DEF a, e
    <3> QED
      BY <2>1, <3>2, <3>3 DEF Told
  <2> QED
    BY <2>1, <2>2, <2>3 DEF ToldOf
<1>10. WaitingOf(r)' /\ ClosedOf(r)'
  <2>1. ClosedOf(r)
    BY <1>1 DEF RequestOK
  <2> QED
    BY <2>1 DEF WaitingOf, ClosedOf
<1> QED
  BY <1>6, <1>7, <1>8, <1>9, <1>10 DEF RequestOK, QuietOf

\* The worker has more to say: o, on an empty outbox.
LEMMA Grown ==
  ASSUME IInv, NEW r \in Requests, job = r, job' = r, outbox = <<>>,
         UNCHANGED <<conn, kind, gone, wire, events>>, ~Waits(r)', ~Queued(r)',
         outbox' \in Seq(Chunks), Told(outbox'),
         conn[r] \in {"first", "stream"} =>
           /\ WellSaid((wire[r] \o events[r]) \o outbox', kind[r].json)
           /\ Served(r)' => Len((wire[r] \o events[r]) \o outbox') =
                              IF kind[r].json THEN 1 ELSE made' + 1,
         Served(r)' /\ kind[r].json => Served(r) /\ outbox' = <<>>
  PROVE  RequestOK(r)'
<1>1. RequestOK(r)
  BY DEF IInv
<1>2. Said(r)' = (wire[r] \o events[r]) \o outbox' /\ OutOf(r)' = outbox'
  BY DEF Said, OutOf
<1>3. TellingOf(r)' /\ ProgressOf(r)'
  BY <1>2 DEF TellingOf, ProgressOf
<1>4. PlaceOf(r)'
  BY <1>1 DEF RequestOK, PlaceOf
<1>5. QuietOf(r)'
  <2>1. QuietOf(r)
    BY <1>1 DEF RequestOK
  <2> QED
    BY <2>1 DEF QuietOf
<1>6. ToldOf(r)'
  <2>1. ToldOf(r)
    BY <1>1 DEF RequestOK
  <2> QED
    BY <1>2, <2>1 DEF ToldOf
<1>7. WaitingOf(r)' /\ ClosedOf(r)'
  <2>1. ClosedOf(r)
    BY <1>1 DEF RequestOK
  <2> QED
    BY <2>1 DEF WaitingOf, ClosedOf
<1> QED
  BY <1>3, <1>4, <1>5, <1>6, <1>7 DEF RequestOK

\* The job is not also queued.
LEMMA JobPlace ==
  ASSUME IInv, job \in Requests
  PROVE  /\ ~Queued(job) /\ conn[job] # "new"
         /\ phase = "prepare" => Waits(job)
         /\ gone[job] <=> conn[job] \in {"ended", "left"}
         /\ phase # "prepare" => ~Waits(job)
<1>1. RequestOK(job) /\ WorkerPlace
  BY DEF IInv
<1> QED
  BY <1>1 DEF RequestOK, PlaceOf, WorkerPlace, Queued, Waits

LEMMA RecvKeeps ==
  ASSUME IInv, Recv, NEW r \in Requests
  PROVE  RequestOK(r)'
<1>1. /\ TypeOK /\ WorkerPlace /\ RequestOK(r) /\ phase = "recv" /\ queue # <<>>
      /\ queue' = Tail(queue) /\ queue \in Seq(Requests)
      /\ UNCHANGED <<conn, kind, wire, events, gone, made, stopped, broken, outcome, outbox>>
  BY DEF IInv, Recv, TypeOK, handlerVars
<1>2. outbox = <<>> /\ job = NoJob /\ r # NoJob
  BY <1>1, NoJobType DEF WorkerPlace
<1>3. /\ Len(queue) \in Nat /\ Len(queue) >= 1 /\ Head(queue) = queue[1]
      /\ Len(queue') = Len(queue) - 1
      /\ \A i \in 1..Len(queue') : queue'[i] = queue[i + 1]
  BY <1>1, FirstAndRest
<1>4. Queued(r)' => Queued(r)
  <2>1. ASSUME NEW i \in 1..Len(queue') PROVE i + 1 \in 1..Len(queue) /\ queue'[i] = queue[i + 1]
    BY <1>3
  <2> QED
    BY <2>1 DEF Queued
<1>5. Queued(queue[1])
  BY <1>3 DEF Queued
<1>6. \/ job' = job /\ phase' = phase
      \/ job' = queue[1] /\ phase' = "prepare"
  BY <1>3 DEF Recv
<1>7. Untouched(r)
  BY <1>1, <1>2, <1>4, <1>5, <1>6 DEF Untouched, OutOf, Waits, Served
<1> QED
  BY <1>1, <1>7, Others

\* Once the job is dropped it is neither served nor queued.
LEMMA DroppedJob ==
  ASSUME IInv, NEW r \in Requests, job = r, DropJob, UNCHANGED queue
  PROVE  ~Waits(r)' /\ ~Served(r)' /\ OutOf(r)' = <<>> /\ ~Queued(r)'
<1>1. job' # r
  BY NoJobType DEF DropJob, Idle
<1>2. ~Queued(r)'
  BY JobPlace DEF Queued
<1> QED
  BY <1>1, <1>2 DEF Waits, Served, OutOf

LEMMA PrepareKeeps ==
  ASSUME IInv, Prepare, NEW r \in Requests, job = r
  PROVE  RequestOK(r)'
<1>1. /\ TypeOK /\ WorkerPlace /\ RequestOK(r) /\ phase = "prepare"
      /\ UNCHANGED <<conn, kind, wire, queue, gone>>
  BY DEF IInv, Prepare, handlerVars
<1>2. /\ outbox = <<>> /\ made = 0 /\ Waits(r) /\ ~Queued(r) /\ ~Queued(r)'
      /\ conn[r] \in {"first", "left"} /\ wire[r] = <<>> /\ events[r] = <<>>
      /\ gone[r] <=> conn[r] = "left"
  BY <1>1, JobPlace DEF WorkerPlace, RequestOK, WaitingOf, PlaceOf, Queued
<1>3. CASE gone[r]
  <2>1. DropJob /\ UNCHANGED events
    BY <1>3 DEF Prepare, Send
  <2> QED
    BY <1>1, <1>3, <2>1, Dropped, DroppedJob
<1>4. ASSUME ~gone[r], NEW x \in {"invalid", "ready"}, Send(Item(x, 0)),
             OutOf(r)' = <<>>, ~Waits(r)', Served(r)' => x = "ready" /\ made' = made /\ outbox' = <<>>
      PROVE  RequestOK(r)'
  <2> DEFINE e == Item(x, 0)
             v == <<e>>
  <2>1. e \in Chunks /\ e.type = x /\ v \in Seq(Chunks) /\ Len(v) = 1 /\ v[1] = e
    BY AloneItems, Single
  <2>2. events'[r] = v
    <3>1. events'[r] = Append(events[r], e)
      BY <1>1, <1>4, <2>1, SendTypes
    <3>2. v = Append(<<>>, e)
      BY <2>1, Single
    <3> QED
      BY <1>2, <3>1, <3>2
  <2>3. Said(r)' = v
    <3>1. Said(r)' = (<<>> \o v) \o <<>>
      BY <1>1, <1>2, <1>4, <2>2 DEF Said
    <3>2. v \in Seq(Chunks)
      BY <2>1
    <3> HIDE DEF v
    <3> QED
      BY <3>1, <3>2, ConcatEmptySeq
  <2> HIDE DEF v, e
  <2>4. WellSaid(v, kind[r].json)
    BY <2>1 DEF WellSaid, Opens
  <2>5. PlaceOf(r)'
    BY <1>1, <1>2, <1>4 DEF PlaceOf
  <2>6. TellingOf(r)' /\ ProgressOf(r)'
    BY <1>1, <1>2, <1>4, <2>1, <2>3, <2>4 DEF TellingOf, ProgressOf
  <2>7. Len(<<>>) = 0
    BY EmptySeq
  <2>8. QuietOf(r)'
    <3>1. wire'[r] = <<>> /\ events'[r] = v /\ (Served(r)' => x = "ready" /\ outbox' = <<>>)
      BY <1>1, <1>2, <1>4, <2>2
    <3>2. ASSUME x = "ready", NEW i \in 1..Len(v) PROVE v[i].type = "ready"
      <4>1. i = 1
        BY <2>1
      <4> QED
        BY <2>1, <3>2, <4>1
    <3> QED
      BY <2>7, <3>1, <3>2 DEF QuietOf
  <2>9. ToldOf(r)'
    <3>1. wire'[r] = <<>> /\ events'[r] = v /\ OutOf(r)' = <<>>
      BY <1>1, <1>2, <1>4, <2>2
    <3>2. Told(<<>>)
      BY <2>7 DEF Told
    <3>3. Told(v)
      <4>1. ASSUME NEW i \in 1..Len(v) PROVE v[i].type # "done"
        <5>1. i = 1
          BY <2>1
        <5> QED
          BY <2>1, <5>1
      <4> QED
        BY <4>1 DEF Told
    <3>4. ToldOf(r)' <=> Told(wire'[r]) /\ Told(events'[r]) /\ Told(OutOf(r)')
      BY DEF ToldOf, Told
    <3> QED
      BY <3>1, <3>2, <3>3, <3>4
  <2> QED
    BY <1>1, <1>2, <1>4, <2>5, <2>6, <2>8, <2>9 DEF RequestOK, WaitingOf, ClosedOf
<1>5. CASE ~gone[r] /\ Send(Item("invalid", 0)) /\ DropJob
  BY <1>1, <1>4, <1>5, DroppedJob
<1>6. CASE /\ ~gone[r] /\ Send(Item("ready", 0)) /\ phase' = "generate"
           /\ UNCHANGED <<job, made, stopped, broken, outcome, outbox>>
  <2>1. OutOf(r)' = <<>> /\ ~Waits(r)' /\ made' = made /\ outbox' = <<>>
    BY <1>2, <1>6 DEF OutOf, Waits
  <2> QED
    BY <1>4, <1>6, <2>1
<1> QED
  BY <1>3, <1>5, <1>6 DEF Prepare

\* A step within the engine is about nothing that was said.
LEMMA EngineKeeps ==
  ASSUME IInv, NEW r \in Requests, job = r, phase \in {"generate", "process", "send"},
         phase' \in {"generate", "process", "send", "returned"},
         UNCHANGED <<conn, kind, wire, queue, events, gone, job, made>>,
         OutOf(r)' = OutOf(r)
  PROVE  RequestOK(r)'
<1>1. Untouched(r)
  BY DEF Untouched, Queued, Waits, Served
<1> QED
  BY <1>1, Others DEF IInv

LEMMA ProcessKeeps ==
  ASSUME IInv, Process, NEW r \in Requests, job = r
  PROVE  RequestOK(r)'
<1>1. /\ TypeOK /\ WorkerPlace /\ RequestOK(r) /\ phase = "process" /\ outbox = <<>>
      /\ UNCHANGED <<conn, kind, wire, queue, events, gone, job>> /\ made \in Nat
  BY DEF IInv, Process, handlerVars, WorkerPlace, TypeOK
<1>2. ~Queued(r)' /\ Served(r) /\ ~Queued(r) /\ conn[r] # "new"
  BY <1>1, JobPlace DEF Queued, Served
<1>3. CASE EngineReturns(Declined) /\ UNCHANGED <<made, stopped, outbox>>
  BY <1>1, <1>3, EngineKeeps DEF EngineReturns, OutOf
<1>4. ASSUME NEW n \in 0..1, made' = made + n, outbox' = LiveEvents(n), phase' = "send"
      PROVE  RequestOK(r)'
  <2> DEFINE x == Item("delta", made + n)
             s == wire[r] \o events[r]
  <2>1. s \in Seq(Chunks) /\ s \o <<>> = s
    <3>1. wire[r] \in Seq(Chunks) /\ events[r] \in Seq(Chunks)
      BY <1>1 DEF TypeOK
    <3>2. s \in Seq(Chunks)
      BY <3>1, ConcatProperties
    <3> HIDE DEF s
    <3> QED
      BY <3>2, ConcatEmptySeq
  <2>2. Said(r) = s
    BY <1>1, <2>1 DEF Said, OutOf
  <2>3. Len(s) \in Nat
    BY <2>1, LenProperties
  <2>4. made + n \in Nat
    BY <1>1
  <2>5. x \in Chunks /\ x.type = "delta" /\ x.n = made + n /\ <<x>> \in Seq(Chunks)
        /\ Len(<<x>>) = 1 /\ <<x>>[1] = x
    BY <2>4, DeltaType, Single
  <2>6. conn[r] \in {"first", "stream"} =>
          /\ WellSaid(s, kind[r].json)
          /\ Len(s) = IF kind[r].json THEN 1 ELSE made + 1
    BY <1>1, <1>2, <2>2 DEF RequestOK, TellingOf, ProgressOf
  <2>7. Waits(r)' => FALSE
    BY <1>2, <1>4 DEF Waits
  <2>8. CASE LiveEvents(n) = <<>> /\ (n = 0 \/ kind[r].json)
    <3>1. outbox' \in Seq(Chunks) /\ Told(outbox')
      BY <1>4, <2>8, EmptySeq DEF Told
    <3>2. (wire[r] \o events[r]) \o outbox' = s
      BY <1>4, <2>1, <2>8
    <3>3. conn[r] \in {"first", "stream"} =>
            /\ WellSaid((wire[r] \o events[r]) \o outbox', kind[r].json)
            /\ Len((wire[r] \o events[r]) \o outbox') = IF kind[r].json THEN 1 ELSE made' + 1
      <4>1. ~kind[r].json => made' = made
        BY <1>1, <1>4, <2>8
      <4> QED
        BY <2>6, <3>2, <4>1
    <3> QED
      BY <1>1, <1>2, <1>4, <2>7, <2>8, <3>1, <3>3, Grown
  <2>9. CASE LiveEvents(n) = <<x>> /\ n = 1 /\ ~kind[r].json
    <3>1. outbox' \in Seq(Chunks) /\ Told(outbox')
      BY <1>4, <2>5, <2>9 DEF Told
    <3>2. (wire[r] \o events[r]) \o outbox' = Append(s, x)
      <4>1. s \in Seq(Chunks) /\ x \in Chunks
        BY <2>1, <2>5
      <4> HIDE DEF s, x
      <4>2. Append(s, x) = s \o <<x>>
        BY <4>1, AppendIsConcat
      <4> QED
        BY <1>4, <2>9, <4>2 DEF s
    <3>3. Len(Append(s, x)) = Len(s) + 1
      BY <2>1, <2>5, AppendProperties
    <3>4. conn[r] \in {"first", "stream"} => WellSaid(Append(s, x), kind[r].json)
      <4> SUFFICES ASSUME conn[r] \in {"first", "stream"}
                   PROVE  WellSaid(Append(s, x), kind[r].json)
        OBVIOUS
      <4>1. Follows(s, x, kind[r].json)
        BY <2>5, <2>6, <2>9 DEF Follows, Opens
      <4> QED
        BY <2>1, <2>5, <2>6, <4>1, WellSaidMore
    <3>5. conn[r] \in {"first", "stream"} =>
            /\ WellSaid((wire[r] \o events[r]) \o outbox', kind[r].json)
            /\ Len((wire[r] \o events[r]) \o outbox') = IF kind[r].json THEN 1 ELSE made' + 1
      <4>1. made' = made + 1
        BY <1>4, <2>9
      <4> QED
        BY <1>1, <2>6, <2>9, <3>2, <3>3, <3>4, <4>1
    <3> QED
      BY <1>1, <1>2, <1>4, <2>7, <2>9, <3>1, <3>5, Grown
  <2> QED
    BY <1>1, <2>8, <2>9 DEF LiveEvents
<1> QED
  BY <1>1, <1>3, <1>4 DEF Process

LEMMA SendDeltaKeeps ==
  ASSUME IInv, SendDelta, NEW r \in Requests, job = r
  PROVE  RequestOK(r)'
<1>1. /\ TypeOK /\ WorkerPlace /\ RequestOK(r) /\ phase = "send" /\ outbox' = <<>>
      /\ UNCHANGED <<conn, kind, wire, queue, gone, job, made, stopped, broken>>
      /\ outbox \in Seq(Chunks) /\ phase' \in {"generate", "returned"}
  BY DEF IInv, SendDelta, handlerVars, TypeOK, EngineReturns
<1>2. ~Queued(r)' /\ ~Waits(r)' /\ conn[r] # "new" /\ OutOf(r)' = <<>> /\ Served(r)
  BY <1>1, JobPlace DEF Queued, Waits, OutOf, Served
<1>3. CASE outbox = <<>>
  BY <1>1, <1>3, EngineKeeps DEF SendDelta, OutOf
<1>4. CASE outbox # <<>> /\ gone[r]
  <2>1. events' = events
    BY <1>4 DEF SendDelta, Send
  <2> QED
    BY <1>1, <1>2, <1>4, <2>1, Dropped
<1>5. CASE outbox # <<>> /\ ~gone[r]
  <2>1. /\ Len(outbox) \in Nat /\ Len(outbox) >= 1 /\ Head(outbox) = outbox[1]
        /\ Head(outbox) \in Chunks /\ Tail(outbox) \in Seq(Chunks)
        /\ Len(Tail(outbox)) = Len(outbox) - 1
    BY <1>1, <1>5, FirstAndRest
  <2>2. Len(outbox) <= 1
    BY <1>1 DEF WorkerPlace
  <2>3. Tail(outbox) = <<>>
    <3>1. Len(Tail(outbox)) = 0
      BY <2>1, <2>2
    <3> QED
      BY <2>1, <3>1, EmptySeq
  <2>4. events'[r] = Append(events[r], Head(outbox))
    <3>1. Send(Head(outbox))
      BY <1>5, <2>1 DEF SendDelta
    <3> QED
      BY <1>1, <1>5, <2>1, <3>1, SendTypes
  <2> QED
    BY <1>1, <1>2, <1>5, <2>3, <2>4, Moved
<1> QED
  BY <1>3, <1>4, <1>5

LEMMA DeliverKeeps ==
  ASSUME IInv, Deliver, NEW r \in Requests, job = r
  PROVE  RequestOK(r)'
<1>1. /\ TypeOK /\ WorkerPlace /\ RequestOK(r) /\ phase = "deliver" /\ outbox # <<>>
      /\ UNCHANGED <<conn, kind, wire, queue, gone>>
      /\ outbox \in Seq(Chunks) /\ Send(Head(outbox))
  BY DEF IInv, Deliver, handlerVars, TypeOK, WorkerPlace
<1>2. ~Queued(r)' /\ conn[r] # "new"
  BY <1>1, JobPlace DEF Queued
<1>3. /\ Len(outbox) \in Nat /\ Len(outbox) >= 1 /\ Head(outbox) \in Chunks
      /\ Tail(outbox) \in Seq(Chunks) /\ Len(Tail(outbox)) = Len(outbox) - 1
  BY <1>1, FirstAndRest
<1>4. CASE gone[r]
  <2>1. DropJob /\ events' = events
    BY <1>1, <1>4 DEF Deliver, Send
  <2> QED
    BY <1>1, <1>4, <2>1, Dropped, DroppedJob
<1>5. CASE ~gone[r]
  <2>1. events'[r] = Append(events[r], Head(outbox))
    BY <1>1, <1>3, <1>5, SendTypes
  <2>2. CASE Len(outbox) = 1
    <3>1. DropJob
      BY <2>2 DEF Deliver
    <3>2. Tail(outbox) = <<>>
      <4>1. Len(Tail(outbox)) = 0
        BY <1>3, <2>2
      <4> QED
        BY <1>3, <4>1, EmptySeq
    <3>3. ~Waits(r)' /\ ~Served(r)' /\ OutOf(r)' = Tail(outbox)
      BY <1>1, <3>1, <3>2, DroppedJob
    <3> QED
      BY <1>1, <1>2, <1>5, <2>1, <3>3, Moved
  <2>3. CASE Len(outbox) # 1
    <3>1. outbox' = Tail(outbox) /\ UNCHANGED <<phase, job, made, stopped, broken, outcome>>
      BY <1>5, <2>3 DEF Deliver
    <3>2. ~Waits(r)' /\ ~Served(r)' /\ OutOf(r)' = Tail(outbox)
      BY <1>1, <1>2, <3>1 DEF Waits, Served, OutOf
    <3> QED
      BY <1>1, <1>2, <1>5, <2>1, <3>2, Moved
  <2> QED
    BY <2>2, <2>3
<1> QED
  BY <1>4, <1>5


LEMMA ToldMore ==
  ASSUME NEW s \in Seq(Chunks), NEW x \in Chunks, Told(s),
         x.type = "done" => x.finish \in Reasons
  PROVE  Told(Append(s, x))
<1> DEFINE a == Append(s, x)
<1>1. /\ Len(a) = Len(s) + 1 /\ (\A i \in 1..Len(s) : a[i] = s[i])
      /\ a[Len(s) + 1] = x /\ Len(s) \in Nat
  BY AppendProperties, LenProperties
<1> HIDE DEF a
<1>2. ASSUME NEW i \in 1..Len(a) PROVE (i \in 1..Len(s) /\ a[i] = s[i]) \/ a[i] = x
  BY <1>1
<1>3. Told(a)
  BY <1>2 DEF Told
<1> QED
  BY <1>3 DEF a

LEMMA ToldNothing == Told(<<>>)
<1>1. Len(<<>>) = 0
  BY EmptySeq
<1> QED
  BY <1>1 DEF Told

\* Two events more, said one after the other.
LEMMA ConcatTwo ==
  \A s \in Seq(Chunks), x, y \in Chunks :
    s \o Append(<<x>>, y) = Append(Append(s, x), y)
<1> SUFFICES ASSUME NEW s \in Seq(Chunks), NEW x \in Chunks, NEW y \in Chunks
             PROVE  s \o Append(<<x>>, y) = Append(Append(s, x), y)
  OBVIOUS
<1> DEFINE o == <<x>>
<1>1. o \in Seq(Chunks)
  BY Single
<1>2. Append(s, x) = s \o o
  BY AppendIsConcat
<1> HIDE DEF o
<1>3. s \o Append(o, y) = Append(s \o o, y)
  BY <1>1, AppendToLast
<1> QED
  BY <1>2, <1>3 DEF o

LEMMA ConcatThree ==
  \A s \in Seq(Chunks), x, y, z \in Chunks :
    s \o Append(Append(<<x>>, y), z) = Append(Append(Append(s, x), y), z)
<1> SUFFICES ASSUME NEW s \in Seq(Chunks), NEW x \in Chunks, NEW y \in Chunks,
                    NEW z \in Chunks
             PROVE  s \o Append(Append(<<x>>, y), z) = Append(Append(Append(s, x), y), z)
  OBVIOUS
<1> DEFINE o == Append(<<x>>, y)
<1>1. o \in Seq(Chunks)
  BY Single, AppendProperties
<1>2. s \o o = Append(Append(s, x), y)
  BY ConcatTwo
<1> HIDE DEF o
<1>3. s \o Append(o, z) = Append(s \o o, z)
  BY <1>1, AppendToLast
<1> QED
  BY <1>2, <1>3 DEF o

\* The tail of an answer and its Done account for all that was made.
LEMMA AnswerIsWellSaid ==
  ASSUME NEW s \in Seq(Chunks), NEW j \in BOOLEAN, NEW m \in Nat, NEW n \in 0..1,
         WellSaid(s, j), Len(s) = IF j THEN 1 ELSE m + 1,
         NEW d \in Chunks, d.type = "delta", d.n = m + n,
         NEW p \in Chunks, p.type = "reasoning",
         NEW f \in Chunks, f.type = "done", f.n = m + n,
         NEW tail \in Seq(Chunks),
         \/ tail = <<>> /\ n = 0 /\ ~j
         \/ tail = <<d>> /\ (n = 0 => j)
         \/ tail = Append(<<p>>, d) /\ j
  PROVE  WellSaid(s \o Append(tail, f), j)
<1>0. Len(s) \in Nat
  BY LenProperties
<1>1. CASE tail = <<>> /\ n = 0 /\ ~j
  <2>1. s \o Append(tail, f) = Append(s, f)
    <3>1. Append(tail, f) = <<f>>
      BY <1>1, Single
    <3> QED
      BY <3>1, AppendIsConcat
  <2>2. Follows(s, f, j)
    BY <1>0, <1>1 DEF Follows, Opens
  <2> QED
    BY <2>1, <2>2, WellSaidMore
<1>2. CASE tail = <<d>> /\ (n = 0 => j)
  <2> DEFINE a == Append(s, d)
  <2>1. /\ a \in Seq(Chunks) /\ Len(a) = Len(s) + 1 /\ a[Len(s) + 1] = d
    BY AppendProperties, ZenonT(30)
  <2>2. Follows(s, d, j)
    <3>1. ~j => m + n = Len(s)
      BY <1>2
    <3> QED
      BY <1>2, <3>1 DEF Follows, Opens
  <2>3. WellSaid(a, j)
    BY <2>2, WellSaidMore
  <2>4. s \o Append(tail, f) = Append(a, f)
    BY <1>2, ConcatTwo
  <2> HIDE DEF a
  <2>5. Follows(a, f, j)
    <3>1. (a[Len(a)] = d /\ Len(a) > 1) \/ ~j
      BY <1>0, <2>1
    <3>2. ~j => m + n = Len(a) - 1
      BY <1>0, <1>2, <2>1
    <3> QED
      BY <3>1, <3>2 DEF Follows, Opens
  <2> QED
    BY <2>1, <2>3, <2>4, <2>5, WellSaidMore
<1>3. CASE tail = Append(<<p>>, d) /\ j
  <2> DEFINE a == Append(s, p)
             b == Append(a, d)
  <2>1. /\ a \in Seq(Chunks) /\ Len(a) = Len(s) + 1 /\ a[Len(s) + 1] = p
    BY AppendProperties, ZenonT(30)
  <2>2. WellSaid(a, j)
    <3>1. Follows(s, p, j)
      BY <1>3 DEF Follows, Opens
    <3> QED
      BY <3>1, WellSaidMore
  <2>3. s \o Append(tail, f) = Append(b, f)
    BY <1>3, ConcatThree
  <2> HIDE DEF a
  <2>4. /\ b \in Seq(Chunks) /\ Len(b) = Len(a) + 1 /\ b[Len(a) + 1] = d
    <3>1. a \in Seq(Chunks)
      BY <2>1
    <3> QED
      BY <3>1, AppendProperties, ZenonT(30)
  <2>5. WellSaid(b, j)
    <3>1. Len(a) = 2 /\ a[2].type = "reasoning"
      BY <1>3, <2>1
    <3>2. Follows(a, d, j)
      BY <1>3, <3>1 DEF Follows, Opens
    <3> QED
      BY <2>1, <2>2, <3>2, WellSaidMore
  <2> HIDE DEF b
  <2>6. Follows(b, f, j)
    <3>1. b[Len(b)] = d /\ Len(b) > 1
      BY <1>0, <1>3, <2>1, <2>4
    <3> QED
      BY <1>3, <3>1 DEF Follows, Opens
  <2> QED
    BY <2>3, <2>4, <2>5, <2>6, WellSaidMore
<1> QED
  BY <1>1, <1>2, <1>3

LEMMA ConcludeKeeps ==
  ASSUME IInv, Conclude, NEW r \in Requests, job = r
  PROVE  RequestOK(r)'
<1>1. /\ TypeOK /\ WorkerPlace /\ RequestOK(r) /\ phase = "returned" /\ outbox = <<>>
      /\ UNCHANGED <<conn, kind, wire, queue, events, gone>> /\ made \in Nat
  BY DEF IInv, Conclude, handlerVars, WorkerPlace, TypeOK
<1>2. ~Queued(r)' /\ Served(r) /\ conn[r] # "new"
  BY <1>1, JobPlace DEF Queued, Served
<1>3. CASE gone[r]
  <2>1. DropJob
    BY <1>3 DEF Conclude
  <2> QED
    BY <1>1, <1>3, <2>1, Dropped, DroppedJob
<1>4. CASE ~gone[r]
  <2> DEFINE s == wire[r] \o events[r]
  <2>1. job' = r /\ phase' = "deliver"
    BY <1>4 DEF Conclude
  <2>2. ~Waits(r)' /\ ~Served(r)'
    BY <1>2, <2>1 DEF Waits, Served
  <2>3. s \in Seq(Chunks) /\ s \o <<>> = s
    <3>1. wire[r] \in Seq(Chunks) /\ events[r] \in Seq(Chunks)
      BY <1>1 DEF TypeOK
    <3>2. s \in Seq(Chunks)
      BY <3>1, ConcatProperties
    <3> HIDE DEF s
    <3> QED
      BY <3>2, ConcatEmptySeq
  <2>4. conn[r] \in {"first", "stream"} =>
          /\ WellSaid(s, kind[r].json)
          /\ Len(s) = IF kind[r].json THEN 1 ELSE made + 1
    <3>1. Said(r) = s
      BY <1>1, <2>3 DEF Said, OutOf
    <3> QED
      BY <1>1, <1>2, <3>1 DEF RequestOK, TellingOf, ProgressOf
  <2>5. ASSUME outbox' \in Seq(Chunks), Told(outbox'),
               conn[r] \in {"first", "stream"} => WellSaid(s \o outbox', kind[r].json)
        PROVE  RequestOK(r)'
    BY <1>1, <1>2, <2>1, <2>2, <2>5, Grown
  <2>6. CASE outbox' = <<Item("error", 0)>>
    <3> DEFINE x == Item("error", 0)
    <3>1. x \in Chunks /\ x.type = "error" /\ <<x>> \in Seq(Chunks)
      BY AloneItems, Single
    <3> HIDE DEF x
    <3>2. <<x>> = Append(<<>>, x) /\ <<>> \in Seq(Chunks)
      BY <3>1, Single, EmptySeq
    <3>3. Told(<<x>>)
      BY <3>1, <3>2, ToldNothing, ToldMore
    <3>4. conn[r] \in {"first", "stream"} => WellSaid(s \o <<x>>, kind[r].json)
      <4>1. Follows(s, x, kind[r].json)
        BY <3>1 DEF Follows, Opens
      <4>2. s \o <<x>> = Append(s, x)
        BY <2>3, <3>1, AppendIsConcat
      <4> QED
        BY <2>3, <2>4, <3>1, <4>1, <4>2, WellSaidMore
    <3> QED
      BY <2>5, <2>6, <3>1, <3>3, <3>4 DEF x
  <2>7. ASSUME NEW n \in 0..1, NEW calls \in BOOLEAN, NEW tail \in TailEvents(n),
               outcome # "error", ~broken,
               outbox' = Append(tail, Done(FinishReason(calls), made + n))
        PROVE  RequestOK(r)'
    <3> DEFINE d == Item("delta", made + n)
               p == Item("reasoning", 0)
               f == Done(FinishReason(calls), made + n)
    <3>1. FinishReason(calls) \in Reasons
      BY <1>1, <1>4, <2>7 DEF WorkerPlace, FinishReason, Reasons
    <3>2. f \in Chunks /\ f.type = "done" /\ f.n = made + n /\ f.finish \in Reasons
      <4>1. FinishReason(calls) \in Outcomes \cup {"tool_calls"} /\ made + n \in Nat
        BY <1>1, <3>1 DEF Reasons, Outcomes
      <4> QED
        BY <3>1, <4>1, DoneType
    <3>3. d \in Chunks /\ d.type = "delta" /\ d.n = made + n
      BY <1>1, DeltaType
    <3>4. p \in Chunks /\ p.type = "reasoning"
      BY ReasoningType
    <3>5. /\ tail \in Seq(Chunks)
          /\ \/ tail = <<>> /\ n = 0 /\ ~kind[r].json
             \/ tail = <<d>> /\ (n = 0 => kind[r].json)
             \/ tail = Append(<<p>>, d) /\ kind[r].json
      BY <1>1, TailCases
    <3>6. outbox' = Append(tail, f)
      BY <2>7
    <3> HIDE DEF d, p, f
    <3>7. Append(tail, f) \in Seq(Chunks)
      BY <3>2, <3>5, AppendProperties
    <3>8. Told(Append(tail, f))
      <4>1. Told(<<d>>) /\ Told(Append(<<p>>, d)) /\ Told(<<>>)
        <5>1. /\ <<d>> = Append(<<>>, d) /\ <<p>> = Append(<<>>, p) /\ <<>> \in Seq(Chunks)
              /\ <<p>> \in Seq(Chunks)
          BY <3>3, <3>4, Single, EmptySeq
        <5>2. Told(<<d>>) /\ Told(<<p>>)
          BY <3>3, <3>4, <5>1, ToldNothing, ToldMore
        <5> QED
          BY <3>3, <5>1, <5>2, ToldNothing, ToldMore
      <4>2. Told(tail)
        BY <3>5, <4>1
      <4> QED
        BY <3>2, <3>5, <4>2, ToldMore
    <3>9. kind[r].json \in BOOLEAN
      BY <1>1, ServerAssumption DEF TypeOK
    <3>10. conn[r] \in {"first", "stream"} => WellSaid(s \o Append(tail, f), kind[r].json)
      <4> SUFFICES ASSUME conn[r] \in {"first", "stream"}
                   PROVE  WellSaid(s \o Append(tail, f), kind[r].json)
        OBVIOUS
      <4> DEFINE j == kind[r].json
      <4>1. /\ s \in Seq(Chunks) /\ j \in BOOLEAN /\ WellSaid(s, j)
            /\ Len(s) = IF j THEN 1 ELSE made + 1
        BY <2>3, <2>4, <3>9
      <4>2. \/ tail = <<>> /\ n = 0 /\ ~j
            \/ tail = <<d>> /\ (n = 0 => j)
            \/ tail = Append(<<p>>, d) /\ j
        BY <3>5
      <4> HIDE DEF s, j
      <4>3. WellSaid(s \o Append(tail, f), j)
        BY <1>1, <3>2, <3>3, <3>4, <3>5, <4>1, <4>2, AnswerIsWellSaid
      <4> QED
        BY <4>3 DEF j
    <3> QED
      BY <2>5, <3>6, <3>7, <3>8, <3>10
  <2> QED
    BY <1>4, <2>6, <2>7 DEF Conclude
<1> QED
  BY <1>3, <1>4

\* A panic ends the job where nothing of it waits to be sent.
LEMMA PanicKeeps ==
  ASSUME IInv, Panic, NEW r \in Requests
  PROVE  RequestOK(r)'
<1>1. TypeOK /\ WorkerPlace /\ RequestOK(r)
  BY DEF IInv
<1>2. /\ UNCHANGED <<conn, kind, wire, events, gone>> /\ queue' = <<>> /\ outbox = <<>>
      /\ job' = NoJob /\ outbox' = <<>>
  BY <1>1 DEF Panic, Idle, handlerVars, WorkerPlace
<1>3. ~Queued(r)'
  <2>1. Len(queue') = 0
    BY <1>2, EmptySeq
  <2> QED
    BY <2>1 DEF Queued
<1>4. Untouched(r)
  BY <1>2, <1>3, NoJobType DEF Untouched, OutOf, Waits, Served
<1> QED
  BY <1>1, <1>4, Others

LEMMA WorkerKeeps ==
  ASSUME IInv, Worker \/ Panic
  PROVE  IInv'
<1>1. TypeOK /\ WorkerPlace /\ \A r \in Requests : RequestOK(r)
  BY DEF IInv
<1>2. TypeOK' /\ WorkerPlace'
  BY <1>1, WorkerTypes, WorkerKeepsPlace
<1>3. ASSUME NEW r \in Requests PROVE RequestOK(r)'
  <2>1. CASE Recv
    BY <2>1, RecvKeeps
  <2>2. CASE Panic
    BY <2>2, PanicKeeps
  <2>3. CASE ~Recv /\ r # job
    BY <1>1, <2>3, WorkerApart, Others
  <2>4. CASE r = job
    <3>1. CASE Poll \/ Text \/ EngineEnds
      <4>1. /\ phase \in {"generate", "process", "send"}
            /\ phase' \in {"generate", "process", "send", "returned"}
            /\ UNCHANGED <<conn, kind, wire, queue, events, gone, job, made, outbox>>
        BY <3>1 DEF Poll, Text, EngineEnds, EngineReturns, handlerVars
      <4>2. OutOf(r)' = OutOf(r)
        BY <4>1 DEF OutOf
      <4> QED
        BY <2>4, <4>1, <4>2, EngineKeeps
    <3> QED
      BY <2>1, <2>2, <2>4, <3>1, PrepareKeeps, ProcessKeeps, SendDeltaKeeps, ConcludeKeeps,
         DeliverKeeps DEF Worker
  <2> QED
    BY <2>1, <2>3, <2>4
<1> QED
  BY <1>1, <1>2, <1>3 DEF IInv

----------------------------------------------------------------------------
\* The invariant.

LEMMA InitOK ==
  ASSUME Init
  PROVE  IInv
<1>0. Len(<<>>) = 0 /\ <<>> \in Seq(Chunks) /\ <<>> \in Seq(Requests)
  BY EmptySeq
<1>1. kind \in [Requests -> Kinds]
  <2>1. \E k : k \in Kinds
    BY ServerAssumption
  <2>2. (CHOOSE k \in Kinds : TRUE) \in Kinds
    BY <2>1
  <2> QED
    BY <2>2 DEF Init
<1>2. TypeOK
  <2> USE DEF Init
  <2>1. conn \in [Requests -> {"new", "first", "stream", "collect", "ended", "left"}]
    OBVIOUS
  <2>2. events \in [Requests -> Seq(Chunks)] /\ wire \in [Requests -> Seq(Chunks)]
    BY <1>0
  <2>3. gone \in [Requests -> BOOLEAN]
    OBVIOUS
  <2>4. /\ phase \in {"recv", "dead"} /\ job \in Requests \cup {NoJob} /\ made \in Nat
        /\ stopped \in BOOLEAN /\ broken \in BOOLEAN /\ outcome \in Outcomes
        /\ outbox \in Seq(Chunks) /\ queue \in Seq(Requests)
    BY <1>0 DEF Outcomes
  <2> QED
    BY <1>1, <2>1, <2>2, <2>3, <2>4 DEF TypeOK
<1>3. WorkerPlace
  BY <1>0 DEF Init, WorkerPlace
<1>4. ASSUME NEW r \in Requests PROVE RequestOK(r)
  <2>1. /\ conn[r] = "new" /\ ~gone[r] /\ events[r] = <<>> /\ wire[r] = <<>>
        /\ ~Queued(r) /\ job # r /\ outbox = <<>>
    BY <1>0, NoJobType DEF Init, Queued
  <2>2. ToldOf(r)
    <3>1. OutOf(r) = <<>>
      BY <2>1 DEF OutOf
    <3> QED
      BY <2>1, <3>1, ToldNothing DEF ToldOf
  <2> QED
    BY <2>1, <2>2 DEF RequestOK, PlaceOf, WaitingOf, TellingOf, ProgressOf, QuietOf,
                      ClosedOf, Waits, Served
<1> QED
  BY <1>2, <1>3, <1>4 DEF IInv

LEMMA Stuttering ==
  ASSUME IInv, UNCHANGED vars
  PROVE  IInv'
<1>1. /\ UNCHANGED <<conn, kind, wire, queue, events, gone, phase, job, made, stopped,
                     broken, outcome, outbox>>
  BY DEF vars, handlerVars, workerVars
<1>2. TypeOK'
  BY <1>1 DEF IInv, TypeOK
<1>3. WorkerPlace'
  BY <1>1 DEF IInv, WorkerPlace
<1>4. ASSUME NEW r \in Requests PROVE RequestOK(r)'
  <2>1. Untouched(r)
    BY <1>1 DEF Untouched, OutOf, Queued, Waits, Served
  <2> QED
    BY <2>1, Others DEF IInv
<1> QED
  BY <1>2, <1>3, <1>4 DEF IInv

LEMMA InvariantHolds == Spec => []IInv
<1>1. Init => IInv
  BY InitOK
<1>2. IInv /\ [Next]_vars => IInv'
  <2> SUFFICES ASSUME IInv, [Next]_vars PROVE IInv'
    OBVIOUS
  <2>1. CASE Worker \/ Panic
    BY <2>1, WorkerKeeps
  <2>2. ASSUME NEW r \in Requests, Handler(r) \/ Client(r) PROVE IInv'
    BY <2>2, HandlerKeeps
  <2>3. CASE UNCHANGED vars
    BY <2>3, Stuttering
  <2> QED
    BY <2>1, <2>2, <2>3 DEF Next
<1> QED
  BY <1>1, <1>2, PTL DEF Spec

----------------------------------------------------------------------------
\* The promises.

\* A stream that is open, and one that has ended, has both properties.
LEMMA StreamOK ==
  ASSUME IInv, NEW r \in Requests, conn[r] \in {"stream", "ended"}
  PROVE  Grammatical(wire[r], conn[r]) /\ Accounted(wire[r], kind[r])
<1>1. TypeOK /\ RequestOK(r) /\ wire[r] \in Seq(Chunks)
  BY DEF IInv, TypeOK
<1>2. CASE conn[r] = "ended"
  BY <1>1, <1>2 DEF RequestOK, ClosedOf
<1>3. CASE conn[r] = "stream"
  <2>1. Opening(wire[r]) /\ WellSaid(Said(r), kind[r].json)
    BY <1>1, <1>3 DEF RequestOK, PlaceOf, TellingOf
  <2>2. WellSaid(wire[r], kind[r].json)
    BY <1>1, <2>1, SentIsWellSaid
  <2> QED
    BY <1>1, <1>3, <2>1, <2>2, OpenStream
<1> QED
  BY <1>2, <1>3

LEMMA GrammarFromInvariant ==
  ASSUME IInv
  PROVE  StreamGrammar
<1> SUFFICES ASSUME NEW r \in Requests
             PROVE  LET w == wire[r]
                    IN  /\ \A i \in Sent(r, "done") : w[i].finish \in Reasons
                        /\ conn[r] \in {"stream", "ended"} /\ Sent(r, "role") # {} =>
                          /\ w[1].type = "role"
                          /\ conn[r] = "ended" <=> w[Len(w)].type = "[DONE]"
                          /\ \A i, j \in Sent(r, "[DONE]") : i = j
                          /\ conn[r] = "ended" => Sent(r, "done") \cup Sent(r, "error") # {}
                          /\ \A i \in Sent(r, "done") \cup Sent(r, "error"),
                                j \in Sent(r, "delta") \cup Sent(r, "reasoning") : j < i
  BY DEF StreamGrammar
<1>1. \A t : Sent(r, t) = Places(wire[r], t)
  BY DEF Sent, Places
<1>2. \A i \in Sent(r, "done") : wire[r][i].finish \in Reasons
  BY DEF IInv, RequestOK, ToldOf, Told, Sent
<1>3. conn[r] \in {"stream", "ended"} => Grammatical(wire[r], conn[r])
  BY StreamOK
<1> HIDE DEF Sent
<1> QED
  BY <1>1, <1>2, <1>3 DEF Grammatical

LEMMA AccountFromInvariant ==
  ASSUME IInv
  PROVE  NothingLost
<1>1. ASSUME NEW r \in Requests, conn[r] \in {"stream", "ended"}
      PROVE  /\ ~kind[r].json =>
                  \A i \in Sent(r, "delta") :
                    wire[r][i].n = Cardinality({j \in Sent(r, "delta") : j <= i})
             /\ kind[r].stream => \A d \in Sent(r, "done") :
                  IF kind[r].json
                  THEN \E i \in Sent(r, "delta") :
                         Sent(r, "delta") = {i} /\ wire[r][i].n = wire[r][d].n
                  ELSE Cardinality(Sent(r, "delta")) = wire[r][d].n
  <2>1. Sent(r, "delta") = Places(wire[r], "delta") /\ Sent(r, "done") = Places(wire[r], "done")
    BY DEF Sent, Places
  <2>2. Accounted(wire[r], kind[r])
    BY <1>1, StreamOK
  <2> QED
    BY <2>1, <2>2 DEF Accounted
<1> QED
  BY <1>1 DEF NothingLost

LEMMA QuietFromInvariant ==
  ASSUME IInv
  PROVE  JsonHeldBack
<1>1. ASSUME NEW r \in Requests, kind[r].json, job = r,
             phase \in {"generate", "process", "send", "returned"}
      PROVE  /\ Sent(r, "delta") = {}
             /\ \A i \in 1..Len(events[r]) : events[r][i].type = "ready"
  <2>1. QuietOf(r) /\ Served(r)
    BY <1>1 DEF IInv, RequestOK, Served
  <2> QED
    BY <1>1, <2>1 DEF QuietOf, Sent
<1> QED
  BY <1>1 DEF JsonHeldBack

\* The server's state has its type, and the worker is where its variables say:
\* one job at a time, taken once, its outbox used only while it sends
\* (the worker loop of server.rs and its job channel).
THEOREM WorkerKeepsItsPlace == Spec => [](TypeOK /\ WorkerPlace)
<1>1. IInv => TypeOK /\ WorkerPlace
  BY DEF IInv
<1> QED
  BY <1>1, InvariantHolds, PTL

\* However the clients, the worker and a panic interleave, what a client has
\* read of a stream begins with the role, ends once with [DONE] when its handler
\* has ended and then holds Done or an error with no text behind it; and no
\* client is told "cancelled" (the loop of completions in server.rs and the reason of
\* the worker).
THEOREM StreamsAreGrammatical == Spec => []StreamGrammar
<1>1. IInv => StreamGrammar
  BY GrammarFromInvariant
<1> QED
  BY <1>1, InvariantHolds, PTL

\* No delta is lost, doubled or reordered between the processor and the client,
\* for channels of any capacity, and the Done of a stream accounts for all of
\* them (the bounded event channel and the blocking sends of the worker).
THEOREM NothingIsLost == Spec => []NothingLost
<1>1. IInv => NothingLost
  BY AccountFromInvariant
<1> QED
  BY <1>1, InvariantHolds, PTL

\* While a JSON answer is generated, neither its channel nor its stream holds
\* any of it (on_text keeps JSON content for the validation after generate).
THEOREM JsonIsHeldBack == Spec => []JsonHeldBack
<1>1. IInv => JsonHeldBack
  BY QuietFromInvariant
<1> QED
  BY <1>1, InvariantHolds, PTL

----------------------------------------------------------------------------
\* The request.

\* What a message is made of.
LEMMA MessageType ==
  ASSUME NEW m \in Message
  PROVE  /\ m.calls \in Seq(Ids) /\ Len(m.calls) \in 0..MaxCalls /\ Len(m.calls) \in Nat
         /\ DOMAIN m.calls = 1..Len(m.calls)
         /\ \A c \in 1..Len(m.calls) : m.calls[c] \in Ids /\ c \in 1..MaxCalls
         /\ (m.calls = <<>>) <=> (Len(m.calls) = 0)
         /\ m.tool_call_id \in Ids \cup {NoId}
<1>1. PICK n \in 0..MaxCalls : m.calls \in [1..n -> Ids]
  BY DEF Message
<1>2. MaxCalls \in Nat /\ n \in Nat
  BY RequestAssumption
<1>3. m.calls \in Seq(Ids) /\ Len(m.calls) = n /\ DOMAIN m.calls = 1..n
  BY <1>1, <1>2
<1>4. \A c \in 1..n : m.calls[c] \in Ids /\ c \in 1..MaxCalls
  BY <1>1, <1>2
<1>5. (m.calls = <<>>) <=> (Len(m.calls) = 0)
  BY <1>3, EmptySeq
<1>6. m.tool_call_id \in Ids \cup {NoId}
  BY DEF Message
<1> QED
  BY <1>1, <1>2, <1>3, <1>4, <1>5, <1>6

\* Histories.
History == Seq(Message)

\* The calls of a history with one more message.
LEMMA AppendCalls ==
  ASSUME NEW h \in History, NEW m \in Message
  PROVE  LET g == Append(h, m)
             n == Len(h)
         IN  /\ n \in Nat /\ g \in History /\ Len(g) = n + 1
             /\ \A i \in 1..n : g[i] = h[i] /\ h[i] \in Message
             /\ g[n + 1] = m
             /\ \A call \in Calls(h) : /\ call[1] \in 1..n /\ call[1] \in Nat
                                       /\ call \in Calls(g) /\ IdOf(g, call) = IdOf(h, call)
                                       /\ IdOf(h, call) \in Ids
             /\ \A c \in 1..Len(m.calls) :
                  <<n + 1, c>> \in Calls(g) /\ IdOf(g, <<n + 1, c>>) = m.calls[c]
             /\ \A call \in Calls(g) :
                  call \in Calls(h) \/ \E c \in 1..Len(m.calls) : call = <<n + 1, c>>
<1> DEFINE g == Append(h, m)
           n == Len(h)
<1>1. n \in Nat /\ g \in Seq(Message) /\ Len(g) = n + 1
      /\ (\A i \in 1..n : g[i] = h[i] /\ h[i] \in Message) /\ g[n + 1] = m
  BY AppendProperties, ElementOfSeq DEF History
<1> HIDE DEF g, n
<1>2. ASSUME NEW call \in Calls(h)
      PROVE  /\ call[1] \in 1..n /\ call[1] \in Nat
             /\ call \in Calls(g) /\ IdOf(g, call) = IdOf(h, call) /\ IdOf(h, call) \in Ids
  <2>1. /\ call \in (1..n) \X (1..MaxCalls) /\ call[1] \in 1..n /\ call[2] \in 1..MaxCalls
        /\ call[2] <= Len(h[call[1]].calls)
    BY DEF Calls, n
  <2>2. g[call[1]] = h[call[1]] /\ h[call[1]] \in Message
    BY <1>1, <2>1
  <2>3. call[1] \in 1..(n + 1) /\ call[1] \in Nat /\ call[2] \in Nat /\ call[2] >= 1
    BY <1>1, <2>1
  <2>4. call \in (1..(n + 1)) \X (1..MaxCalls)
    BY <2>1, <2>3
  <2>5. call \in Calls(g)
    BY <1>1, <2>1, <2>2, <2>4 DEF Calls
  <2>6. Len(h[call[1]].calls) \in Nat /\ \A c \in 1..Len(h[call[1]].calls) : h[call[1]].calls[c] \in Ids
    BY <2>2, MessageType
  <2>7. call[2] \in 1..Len(h[call[1]].calls)
    BY <2>1, <2>3, <2>6
  <2> QED
    BY <2>1, <2>2, <2>3, <2>5, <2>6, <2>7 DEF IdOf
<1>3. ASSUME NEW c \in 1..Len(m.calls)
      PROVE  <<n + 1, c>> \in Calls(g) /\ IdOf(g, <<n + 1, c>>) = m.calls[c]
  <2>1. c \in 1..MaxCalls /\ c \in Nat /\ c <= Len(m.calls)
    BY MessageType
  <2>2. n + 1 \in 1..(n + 1)
    BY <1>1
  <2>3. <<n + 1, c>> \in (1..(n + 1)) \X (1..MaxCalls)
    BY <2>1, <2>2
  <2> QED
    BY <1>1, <2>1, <2>3 DEF Calls, IdOf
<1>4. ASSUME NEW call \in Calls(g), call \notin Calls(h)
      PROVE  \E c \in 1..Len(m.calls) : call = <<n + 1, c>>
  <2>1. /\ call \in (1..(n + 1)) \X (1..MaxCalls) /\ call[2] <= Len(g[call[1]].calls)
        /\ call[1] \in 1..(n + 1) /\ call[2] \in 1..MaxCalls /\ call = <<call[1], call[2]>>
    BY <1>1 DEF Calls
  <2>2. call[1] = n + 1
    <3> SUFFICES ASSUME call[1] # n + 1 PROVE FALSE
      OBVIOUS
    <3>1. call[1] \in 1..n
      BY <1>1, <2>1
    <3>2. call \in (1..n) \X (1..MaxCalls)
      BY <2>1, <3>1
    <3>3. g[call[1]] = h[call[1]]
      BY <1>1, <3>1
    <3> QED
      BY <1>4, <2>1, <3>2, <3>3 DEF Calls, n
  <2>3. call[2] \in 1..Len(m.calls)
    <3>1. Len(m.calls) \in Nat /\ MaxCalls \in Nat
      BY MessageType, RequestAssumption
    <3>2. call[2] <= Len(m.calls)
      BY <1>1, <2>1, <2>2
    <3> QED
      BY <2>1, <3>1, <3>2
  <2> QED
    BY <2>1, <2>2, <2>3
<1>5. g \in History
  BY <1>1 DEF History
<1> QED
  BY <1>1, <1>2, <1>3, <1>4, <1>5 DEF g, n

\* The results of its earlier calls.
LEMMA AppendResults ==
  ASSUME NEW h \in History, NEW m \in Message, NEW call \in Calls(h)
  PROVE  /\ \A k \in 1..Len(h) : ResultOf(Append(h, m), k, call) <=> ResultOf(h, k, call)
         /\ \A last \in 0..Len(h) :
              HasResult(Append(h, m), call, last) <=> HasResult(h, call, last)
         /\ HasResult(Append(h, m), call, Len(h) + 1) <=>
              HasResult(h, call, Len(h)) \/ ResultOf(Append(h, m), Len(h) + 1, call)
<1> DEFINE g == Append(h, m)
           n == Len(h)
<1>1. /\ n \in Nat /\ (\A i \in 1..n : g[i] = h[i])
      /\ call[1] \in 1..n /\ IdOf(g, call) = IdOf(h, call)
  BY AppendCalls
<1> HIDE DEF g, n
<1>2. ASSUME NEW k \in 1..n PROVE ResultOf(g, k, call) <=> ResultOf(h, k, call)
  <2>1. \A j \in (call[1] + 1)..(k - 1) : j \in 1..n
    BY <1>1
  <2>2. \A j \in (call[1] + 1)..(k - 1) : g[j] = h[j]
    BY <1>1, <2>1
  <2>3. g[k] = h[k]
    BY <1>1
  <2> QED
    BY <1>1, <2>2, <2>3 DEF ResultOf
<1>3. ASSUME NEW last \in 0..n PROVE HasResult(g, call, last) <=> HasResult(h, call, last)
  <2>1. \A k \in 1..last : k \in 1..n
    BY <1>1
  <2> QED
    BY <1>2, <2>1 DEF HasResult
<1>4. HasResult(g, call, n + 1) <=> HasResult(h, call, n) \/ ResultOf(g, n + 1, call)
  <2>1. \A k : k \in 1..(n + 1) <=> k \in 1..n \/ k = n + 1
    BY <1>1
  <2> QED
    BY <1>2, <2>1 DEF HasResult
<1> QED
  BY <1>2, <1>3, <1>4 DEF g, n

\* What the scan keeps of a history.
Kept(h, ids, used, started) ==
  /\ ids = Open(h)
  /\ used = {IdOf(h, call) : call \in Calls(h)}
  /\ started \in BOOLEAN
  /\ started <=> \E i \in 1..Len(h) : h[i].role # "system"

\* A tool message is the result of an open call exactly when it has its id.
LEMMA ResultIsPending ==
  ASSUME NEW h \in History, NEW m \in Message, NEW call \in Calls(h), Orderly(h)
  PROVE  ResultOf(Append(h, m), Len(h) + 1, call) <=>
           m.tool_call_id = IdOf(h, call) /\ ~HasResult(h, call, Len(h))
<1> DEFINE g == Append(h, m)
           n == Len(h)
           id == IdOf(h, call)
<1>1. /\ n \in Nat /\ (\A i \in 1..n : g[i] = h[i] /\ h[i] \in Message) /\ g[n + 1] = m
      /\ call[1] \in 1..n /\ call[1] \in Nat /\ IdOf(g, call) = id
      /\ id \in Ids
  BY AppendCalls
<1>2. (n + 1) - 1 = n /\ call[1] < n + 1 /\ \A j \in (call[1] + 1)..n : j \in 1..n
  BY <1>1
<1> HIDE DEF g, n
<1>3. ResultOf(g, n + 1, call) <=>
        /\ m.tool_call_id = id
        /\ \A j \in (call[1] + 1)..n : h[j].role = "tool" /\ h[j].tool_call_id # id
  <2>1. ResultOf(g, n + 1, call) <=>
        /\ m.tool_call_id = id
        /\ \A j \in (call[1] + 1)..n : g[j].role = "tool" /\ g[j].tool_call_id # id
    <3> HIDE DEF id
    <3> QED
      BY <1>1, <1>2 DEF ResultOf
  <2> QED
    BY <1>1, <1>2, <2>1
<1> HIDE DEF id
<1>4. ASSUME \A j \in (call[1] + 1)..n : h[j].role = "tool" /\ h[j].tool_call_id # id
      PROVE  ~HasResult(h, call, n)
  <2> SUFFICES ASSUME NEW k \in 1..n, ResultOf(h, k, call) PROVE FALSE
    BY DEF HasResult
  <2>1. call[1] < k /\ h[k].tool_call_id = id
    BY DEF ResultOf, id
  <2>2. k \in (call[1] + 1)..n
    BY <1>1, <2>1
  <2> QED
    BY <1>4, <2>1, <2>2
<1>5. ASSUME ~HasResult(h, call, n), NEW j \in (call[1] + 1)..n
      PROVE  h[j].role = "tool" /\ h[j].tool_call_id # id
  <2>1. j \in 1..n
    BY <1>2
  <2>2. h[j].role = "tool"
    <3> SUFFICES ASSUME h[j].role # "tool" PROVE FALSE
      OBVIOUS
    <3>1. HasResult(h, call, j - 1)
      BY DEF Orderly, n
    <3>2. \A k \in 1..(j - 1) : k \in 1..n
      BY <1>1, <2>1
    <3> QED
      BY <1>5, <3>1, <3>2 DEF HasResult
  <2>3. h[j].tool_call_id # id
    <3> SUFFICES ASSUME h[j].tool_call_id = id PROVE FALSE
      OBVIOUS
    <3>1. PICK other \in Calls(h) : ResultOf(h, j, other)
      BY <2>1, <2>2 DEF Orderly, n
    <3>2. IdOf(h, other) = IdOf(h, call)
      BY <3>1 DEF ResultOf, id
    <3>3. other = call
      BY <3>2 DEF Orderly
    <3> QED
      BY <1>5, <2>1, <3>1, <3>3 DEF HasResult
  <2> QED
    BY <2>2, <2>3
<1> QED
  BY <1>3, <1>4, <1>5 DEF g, n, id

\* The ids kept answer the questions Readable asks.
LEMMA KeptAnswers ==
  ASSUME NEW h \in History, NEW m \in Message, Orderly(h),
         Kept(h, pending, used_ids, conversation_started)
  PROVE  /\ m.role = "tool" =>
              (m.tool_call_id \in pending <=>
                 \E call \in Calls(h) : ResultOf(Append(h, m), Len(h) + 1, call))
         /\ pending = {} <=> \A call \in Calls(h) : HasResult(h, call, Len(h))
         /\ FreshIds(m) <=>
              /\ \A c, d \in 1..Len(m.calls) : m.calls[c] = m.calls[d] => c = d
              /\ \A c \in 1..Len(m.calls), call \in Calls(h) : m.calls[c] # IdOf(h, call)
<1>1. pending = {IdOf(h, call) : call \in {c \in Calls(h) : ~HasResult(h, c, Len(h))}}
  BY DEF Kept, Open
<1>2. \A id : id \in pending <=> \E call \in Calls(h) :
                                  ~HasResult(h, call, Len(h)) /\ id = IdOf(h, call)
  BY <1>1
<1>3. \A call \in Calls(h) : ResultOf(Append(h, m), Len(h) + 1, call) <=>
           m.tool_call_id = IdOf(h, call) /\ ~HasResult(h, call, Len(h))
  BY ResultIsPending
<1>4. m.tool_call_id \in pending <=>
        \E call \in Calls(h) : ResultOf(Append(h, m), Len(h) + 1, call)
  BY <1>2, <1>3
<1>5. pending = {} <=> \A call \in Calls(h) : HasResult(h, call, Len(h))
  BY <1>2
<1>6. FreshIds(m) <=>
        /\ \A c, d \in 1..Len(m.calls) : m.calls[c] = m.calls[d] => c = d
        /\ \A c \in 1..Len(m.calls), call \in Calls(h) : m.calls[c] # IdOf(h, call)
  <2>1. DOMAIN m.calls = 1..Len(m.calls)
    BY MessageType
  <2>2. IsInjective(m.calls) <=> \A c, d \in 1..Len(m.calls) : m.calls[c] = m.calls[d] => c = d
    BY <2>1 DEF IsInjective
  <2>3. Ids1(m) \cap used_ids = {} <=>
          \A c \in 1..Len(m.calls), call \in Calls(h) : m.calls[c] # IdOf(h, call)
    BY DEF Ids1, Kept
  <2> QED
    BY <2>2, <2>3 DEF FreshIds
<1> QED
  BY <1>4, <1>5, <1>6

\* A message may be read exactly when the history is orderly with it.
LEMMA ReadableIsOrderly ==
  ASSUME NEW h \in History, NEW m \in Message, Orderly(h),
         Kept(h, pending, used_ids, conversation_started)
  PROVE  Readable(m) <=> Orderly(Append(h, m))
<1> DEFINE g == Append(h, m)
           n == Len(h)
<1>1. /\ n \in Nat /\ g \in History /\ Len(g) = n + 1
      /\ \A i \in 1..n : g[i] = h[i] /\ h[i] \in Message
      /\ g[n + 1] = m
      /\ \A call \in Calls(h) : /\ call[1] \in 1..n /\ call[1] \in Nat
                                /\ call \in Calls(g) /\ IdOf(g, call) = IdOf(h, call)
                                /\ IdOf(h, call) \in Ids
      /\ \A c \in 1..Len(m.calls) :
           <<n + 1, c>> \in Calls(g) /\ IdOf(g, <<n + 1, c>>) = m.calls[c]
      /\ \A call \in Calls(g) :
           call \in Calls(h) \/ \E c \in 1..Len(m.calls) : call = <<n + 1, c>>
  BY AppendCalls
<1>2. /\ \A call \in Calls(h) :
           /\ \A k \in 1..n : ResultOf(g, k, call) <=> ResultOf(h, k, call)
           /\ \A last \in 0..n : HasResult(g, call, last) <=> HasResult(h, call, last)
  BY AppendResults
<1>3. /\ m.role = "tool" =>
           (m.tool_call_id \in pending <=> \E call \in Calls(h) : ResultOf(g, n + 1, call))
      /\ pending = {} <=> \A call \in Calls(h) : HasResult(h, call, n)
      /\ FreshIds(m) <=>
           /\ \A c, d \in 1..Len(m.calls) : m.calls[c] = m.calls[d] => c = d
           /\ \A c \in 1..Len(m.calls), call \in Calls(h) : m.calls[c] # IdOf(h, call)
  BY KeptAnswers
<1>4. /\ \A i : i \in 1..(n + 1) <=> i \in 1..n \/ i = n + 1
      /\ \A i \in 1..n : i < n + 1 /\ i \in Nat /\ ~(n + 1 < i) /\ i # n + 1
      /\ n + 1 \in 1..(n + 1) /\ ~(n + 1 < n + 1)
  BY <1>1
<1> HIDE DEF g, n
<1> DEFINE
      S1(f, k) == \A i \in 1..k : Shaped(f[i])
      S2(f, k) == \A i, j \in 1..k : i < j /\ f[j].role = "system" => f[i].role = "system"
      S3(f) == \A a, b \in Calls(f) : IdOf(f, a) = IdOf(f, b) => a = b
      S4(f, k) == \A j \in 1..k : f[j].role = "tool" => \E call \in Calls(f) : ResultOf(f, j, call)
      S5(f, k) == \A call \in Calls(f) : \A j \in (call[1] + 1)..k :
                    f[j].role # "tool" => HasResult(f, call, j - 1)
<1>5. S1(h, n) /\ S2(h, n) /\ S3(h) /\ S4(h, n) /\ S5(h, n)
  BY DEF Orderly, n
<1>6. Orderly(g) <=> S1(g, n + 1) /\ S2(g, n + 1) /\ S3(g) /\ S4(g, n + 1) /\ S5(g, n + 1)
  BY <1>1 DEF Orderly
<1>7. S1(g, n + 1) <=> Shaped(m)
  BY <1>1, <1>4, <1>5
<1>8. S2(g, n + 1) <=> (m.role = "system" => ~conversation_started)
  <2>1. conversation_started <=> \E i \in 1..n : h[i].role # "system"
    BY DEF Kept, n
  <2>2. S2(g, n + 1) <=> (m.role = "system" => \A i \in 1..n : h[i].role = "system")
    BY <1>1, <1>4, <1>5
  <2> QED
    BY <2>1, <2>2
<1>9. S3(g) <=> FreshIds(m)
  <2>1. ASSUME FreshIds(m), NEW a \in Calls(g), NEW b \in Calls(g), IdOf(g, a) = IdOf(g, b)
        PROVE  a = b
    <3>1. CASE a \in Calls(h) /\ b \in Calls(h)
      BY <1>1, <1>5, <2>1, <3>1
    <3>2. CASE a \notin Calls(h) /\ b \in Calls(h)
      <4>1. PICK c \in 1..Len(m.calls) : a = <<n + 1, c>>
        BY <1>1, <3>2
      <4> QED
        BY <1>1, <1>3, <2>1, <3>2, <4>1
    <3>3. CASE a \in Calls(h) /\ b \notin Calls(h)
      <4>1. PICK c \in 1..Len(m.calls) : b = <<n + 1, c>>
        BY <1>1, <3>3
      <4> QED
        BY <1>1, <1>3, <2>1, <3>3, <4>1
    <3>4. CASE a \notin Calls(h) /\ b \notin Calls(h)
      <4>1. PICK c \in 1..Len(m.calls) : a = <<n + 1, c>>
        BY <1>1, <3>4
      <4>2. PICK d \in 1..Len(m.calls) : b = <<n + 1, d>>
        BY <1>1, <3>4
      <4>3. m.calls[c] = m.calls[d]
        BY <1>1, <2>1, <4>1, <4>2
      <4> QED
        BY <1>3, <2>1, <4>1, <4>2, <4>3
    <3> QED
      BY <3>1, <3>2, <3>3, <3>4
  <2>2. ASSUME S3(g), NEW c \in 1..Len(m.calls), NEW d \in 1..Len(m.calls),
               m.calls[c] = m.calls[d]
        PROVE  c = d
    <3>1. IdOf(g, <<n + 1, c>>) = IdOf(g, <<n + 1, d>>)
      BY <1>1, <2>2
    <3>2. <<n + 1, c>> = <<n + 1, d>>
      BY <1>1, <2>2, <3>1
    <3> QED
      BY <3>2
  <2>3. ASSUME S3(g), NEW c \in 1..Len(m.calls), NEW call \in Calls(h)
        PROVE  m.calls[c] # IdOf(h, call)
    <3> SUFFICES ASSUME m.calls[c] = IdOf(h, call) PROVE FALSE
      OBVIOUS
    <3>1. <<n + 1, c>> = call
      BY <1>1, <2>3
    <3>2. call[1] = n + 1
      BY <3>1
    <3> QED
      BY <1>1, <1>4, <3>2
  <2>4. S3(g) => FreshIds(m)
    BY <1>3, <2>2, <2>3
  <2> QED
    BY <2>1, <2>4
<1>10. S4(g, n + 1) <=> (m.role = "tool" => m.tool_call_id \in pending)
  <2>1. \A c \in 1..Len(m.calls), j \in 1..(n + 1) : ~ResultOf(g, j, <<n + 1, c>>)
    <3> SUFFICES ASSUME NEW c \in 1..Len(m.calls), NEW j \in 1..(n + 1)
                 PROVE  ~(<<n + 1, c>>[1] < j)
      BY DEF ResultOf
    <3> QED
      BY <1>1
  <2>2. \A j \in 1..(n + 1) : (\E call \in Calls(g) : ResultOf(g, j, call))
                              <=> \E call \in Calls(h) : ResultOf(g, j, call)
    BY <1>1, <2>1
  <2>3. \A j \in 1..n : g[j].role = "tool" => \E call \in Calls(h) : ResultOf(g, j, call)
    BY <1>1, <1>2, <1>5
  <2>4. S4(g, n + 1) <=> (m.role = "tool" => \E call \in Calls(h) : ResultOf(g, n + 1, call))
    BY <1>1, <1>4, <2>2, <2>3
  <2> QED
    BY <1>3, <2>4
<1>11. S5(g, n + 1) <=> Awaits(m)
  <2>1. \A c \in 1..Len(m.calls) : \A j \in (<<n + 1, c>>[1] + 1)..(n + 1) : FALSE
    BY <1>1
  <2>2. \A call \in Calls(h) : \A j \in (call[1] + 1)..n :
          g[j].role # "tool" => HasResult(g, call, j - 1)
    <3> SUFFICES ASSUME NEW call \in Calls(h), NEW j \in (call[1] + 1)..n, g[j].role # "tool"
                 PROVE  HasResult(g, call, j - 1)
      OBVIOUS
    <3>1. j \in 1..n /\ j - 1 \in 0..n
      BY <1>1
    <3>2. HasResult(h, call, j - 1)
      BY <1>1, <1>5, <3>1
    <3> QED
      BY <1>2, <3>1, <3>2
  <2>3. \A call \in Calls(h) : \A j : j \in (call[1] + 1)..(n + 1) <=>
                                        j \in (call[1] + 1)..n \/ j = n + 1
    BY <1>1
  <2>4. (n + 1) - 1 = n /\ n \in 0..n
    BY <1>1
  <2>5. S5(g, n + 1) <=> (m.role # "tool" => \A call \in Calls(h) : HasResult(g, call, n))
    <3>1. ASSUME S5(g, n + 1), m.role # "tool", NEW call \in Calls(h)
          PROVE  HasResult(g, call, n)
      <4>1. call \in Calls(g) /\ n + 1 \in (call[1] + 1)..(n + 1) /\ g[n + 1].role # "tool"
        BY <1>1, <2>3, <3>1
      <4>2. HasResult(g, call, (n + 1) - 1)
        BY <3>1, <4>1
      <4> QED
        BY <2>4, <4>2
    <3>2. ASSUME m.role # "tool" => \A call \in Calls(h) : HasResult(g, call, n),
                 NEW call \in Calls(g), NEW j \in (call[1] + 1)..(n + 1), g[j].role # "tool"
          PROVE  HasResult(g, call, j - 1)
      <4>1. call \in Calls(h)
        BY <1>1, <2>1
      <4>2. j \in (call[1] + 1)..n \/ j = n + 1
        BY <2>3, <4>1
      <4>3. CASE j \in (call[1] + 1)..n
        BY <2>2, <3>2, <4>1, <4>3
      <4>4. CASE j = n + 1
        BY <1>1, <2>4, <3>2, <4>1, <4>4
      <4> QED
        BY <4>2, <4>3, <4>4
    <3> QED
      BY <3>1, <3>2
  <2>6. \A call \in Calls(h) : HasResult(g, call, n) <=> HasResult(h, call, n)
    BY <1>2, <2>4
  <2> QED
    BY <1>3, <2>5, <2>6 DEF Awaits
<1> HIDE DEF S1, S2, S3, S4, S5
<1>12. Orderly(g) <=> Readable(m)
  BY <1>6, <1>7, <1>8, <1>9, <1>10, <1>11 DEF Readable
<1> QED
  BY <1>12 DEF g

\* And what is kept is of the history with it.
LEMMA KeptAfter ==
  ASSUME NEW h \in History, NEW m \in Message, Orderly(h), Readable(m),
         Kept(h, pending, used_ids, conversation_started)
  PROVE  Kept(Append(h, m), (pending \cup Ids1(m)) \ {m.tool_call_id}, Used(m),
              conversation_started \/ m.role # "system")
<1> DEFINE g == Append(h, m)
           n == Len(h)
           left == (pending \cup Ids1(m)) \ {m.tool_call_id}
<1>1. /\ n \in Nat /\ g \in History /\ Len(g) = n + 1
      /\ \A i \in 1..n : g[i] = h[i] /\ h[i] \in Message
      /\ g[n + 1] = m
      /\ \A call \in Calls(h) : /\ call[1] \in 1..n /\ call[1] \in Nat
                                /\ call \in Calls(g) /\ IdOf(g, call) = IdOf(h, call)
                                /\ IdOf(h, call) \in Ids
      /\ \A c \in 1..Len(m.calls) :
           <<n + 1, c>> \in Calls(g) /\ IdOf(g, <<n + 1, c>>) = m.calls[c]
      /\ \A call \in Calls(g) :
           call \in Calls(h) \/ \E c \in 1..Len(m.calls) : call = <<n + 1, c>>
  BY AppendCalls
<1>2. \A call \in Calls(h) :
        HasResult(g, call, n + 1) <=>
          HasResult(h, call, n) \/ (m.tool_call_id = IdOf(h, call) /\ ~HasResult(h, call, n))
  BY AppendResults, ResultIsPending
<1>3. \A c \in 1..Len(m.calls) : ~HasResult(g, <<n + 1, c>>, n + 1)
  <2> SUFFICES ASSUME NEW c \in 1..Len(m.calls), NEW k \in 1..(n + 1)
               PROVE  ~ResultOf(g, k, <<n + 1, c>>)
    BY DEF HasResult
  <2>1. ~(<<n + 1, c>>[1] < k)
    BY <1>1
  <2> QED
    BY <2>1 DEF ResultOf
<1>4. \A i : i \in 1..(n + 1) <=> i \in 1..n \/ i = n + 1
  BY <1>1
<1> HIDE DEF g, n
<1>5. \A id : id \in Open(g) <=>
        \/ \E call \in Calls(h) : ~HasResult(h, call, n) /\ m.tool_call_id # IdOf(h, call)
                                  /\ id = IdOf(h, call)
        \/ \E c \in 1..Len(m.calls) : id = m.calls[c]
  <2>1. \A id : id \in Open(g) <=>
          \E call \in Calls(g) : ~HasResult(g, call, n + 1) /\ id = IdOf(g, call)
    BY <1>1 DEF Open
  <2>2. ASSUME NEW call \in Calls(h), ~HasResult(h, call, n), m.tool_call_id # IdOf(h, call)
        PROVE  IdOf(h, call) \in Open(g)
    BY <1>1, <1>2, <2>1, <2>2
  <2>3. ASSUME NEW c \in 1..Len(m.calls) PROVE m.calls[c] \in Open(g)
    BY <1>1, <1>3, <2>1
  <2>4. ASSUME NEW call \in Calls(g), ~HasResult(g, call, n + 1), call \notin Calls(h)
        PROVE  \E c \in 1..Len(m.calls) : IdOf(g, call) = m.calls[c]
    BY <1>1, <2>4
  <2>5. ASSUME NEW call \in Calls(h), ~HasResult(g, call, n + 1)
        PROVE  ~HasResult(h, call, n) /\ m.tool_call_id # IdOf(h, call)
               /\ IdOf(g, call) = IdOf(h, call)
    BY <1>1, <1>2, <2>5
  <2> QED
    BY <2>1, <2>2, <2>3, <2>4, <2>5
<1>6. \A id : id \in pending <=>
        \E call \in Calls(h) : ~HasResult(h, call, n) /\ id = IdOf(h, call)
  BY DEF Kept, Open, n
<1>7. \A id : id \in Ids1(m) <=> \E c \in 1..Len(m.calls) : id = m.calls[c]
  BY DEF Ids1
<1>8. m.tool_call_id \notin Ids1(m)
  <2>1. CASE m.role = "tool"
    <3>1. m.calls = <<>>
      BY <2>1 DEF Readable, Shaped
    <3>2. Len(m.calls) = 0
      BY <3>1, MessageType
    <3> QED
      BY <1>7, <3>2
  <2>2. CASE m.role # "tool"
    <3>1. m.tool_call_id = NoId
      BY <2>2 DEF Readable, Shaped
    <3> QED
      BY <1>7, <3>1, MessageType, RequestAssumption
  <2> QED
    BY <2>1, <2>2
<1>9. left = Open(g)
  <2>1. \A id : id \in left <=> (id \in pending \/ id \in Ids1(m)) /\ id # m.tool_call_id
    OBVIOUS
  <2> HIDE DEF left
  <2>2. \A id : id \in left <=> id \in Open(g)
    BY <1>5, <1>6, <1>7, <1>8, <2>1
  <2> QED
    BY <2>2
<1>10. Used(m) = {IdOf(g, call) : call \in Calls(g)}
  <2>1. \A id : id \in Used(m) <=>
          (\E call \in Calls(h) : id = IdOf(h, call)) \/ \E c \in 1..Len(m.calls) : id = m.calls[c]
    BY <1>7 DEF Used, Kept
  <2>2. ASSUME NEW call \in Calls(h) PROVE \E other \in Calls(g) : IdOf(h, call) = IdOf(g, other)
    BY <1>1
  <2>3. ASSUME NEW c \in 1..Len(m.calls) PROVE \E call \in Calls(g) : m.calls[c] = IdOf(g, call)
    BY <1>1
  <2>4. ASSUME NEW call \in Calls(g), call \notin Calls(h)
        PROVE  \E c \in 1..Len(m.calls) : IdOf(g, call) = m.calls[c]
    BY <1>1, <2>4
  <2>5. ASSUME NEW call \in Calls(h) PROVE IdOf(g, call) = IdOf(h, call)
    BY <1>1
  <2>6. \A id : id \in Used(m) <=> \E call \in Calls(g) : id = IdOf(g, call)
    BY <2>1, <2>2, <2>3, <2>4, <2>5
  <2> QED
    BY <2>6
<1>11. (conversation_started \/ m.role # "system") <=> \E i \in 1..Len(g) : g[i].role # "system"
  <2>1. conversation_started <=> \E i \in 1..n : h[i].role # "system"
    BY DEF Kept, n
  <2> QED
    BY <1>1, <1>4, <2>1
<1>12. (conversation_started \/ m.role # "system") \in BOOLEAN
  BY DEF Kept
<1>13. Kept(g, left, Used(m), conversation_started \/ m.role # "system")
  BY <1>9, <1>10, <1>11, <1>12 DEF Kept
<1> QED
  BY <1>13 DEF g, left

\* What tools parse() lets through.
Parsed(c, format) ==
  \E d \in Definitions, choice \in ToolChoices, parallel \in BOOLEAN :
    Parses(d, choice) /\ c = Config(d, choice, parallel) /\ FormatOk(c, format)

ParseInv ==
  /\ history \in History
  /\ verdict \in {"reading", "refused", "incomplete", "messages", "invalid", "accepted"}
  /\ Orderly(history) <=> verdict # "refused"
  /\ verdict = "reading" => Kept(history, pending, used_ids, conversation_started)
  /\ verdict = "incomplete" => ~Closed(history)
  /\ verdict \in {"messages", "invalid", "accepted"} => Closed(history)
  /\ verdict = "accepted" => Parsed(tools, response_format)

\* Before the first message there is nothing to be kept.
LEMMA NothingRead ==
  /\ <<>> \in History /\ Orderly(<<>>)
  /\ Kept(<<>>, {}, {}, FALSE)
<1>1. <<>> \in History /\ Len(<<>>) = 0 /\ 1..0 = {}
  BY EmptySeq DEF History
<1> DEFINE h == <<>>
<1>2. 1..Len(h) = {}
  BY <1>1
<1> HIDE DEF h
<1>3. Calls(h) = {}
  BY <1>2 DEF Calls
<1>4. Orderly(h)
  BY <1>2, <1>3 DEF Orderly
<1>5. Kept(h, {}, {}, FALSE)
  BY <1>2, <1>3 DEF Kept, Open
<1> QED
  BY <1>1, <1>4, <1>5 DEF h

\* The checks after the last message ask whether every call has its result.
LEMMA CompleteIsClosed ==
  ASSUME history \in History, Orderly(history),
         Kept(history, pending, used_ids, conversation_started)
  PROVE  Complete <=> Closed(history)
<1>1. pending = {} <=> \A call \in Calls(history) : HasResult(history, call, Len(history))
  BY DEF Kept, Open
<1>2. (\E i \in 1..Len(history) : history[i].role = "user") => history # <<>>
  <2>1. history = <<>> => 1..Len(history) = {}
    OBVIOUS
  <2> QED
    BY <2>1
<1> QED
  BY <1>1, <1>2 DEF Complete, Closed

\* The scan keeps its invariant.
LEMMA ParseInvariant == ParseSpec => []ParseInv
<1>1. ParseInit => ParseInv
  BY NothingRead DEF ParseInit, ParseInv
<1>2. ParseInv /\ [ParseNext]_parseVars => ParseInv'
  <2> SUFFICES ASSUME ParseInv, [ParseNext]_parseVars PROVE ParseInv'
    OBVIOUS
  <2>1. CASE UNCHANGED parseVars
    BY <2>1 DEF ParseInv, parseVars, Orderly, Kept, Closed, Parsed, Open, HasResult, ResultOf,
                IdOf, Calls
  <2>2. ASSUME NEW m \in Message, Read(m) PROVE ParseInv'
    <3> DEFINE g == Append(history, m)
    <3>1. /\ verdict = "reading" /\ history \in History /\ Orderly(history)
          /\ Kept(history, pending, used_ids, conversation_started)
          /\ history' = g
      BY <2>2 DEF Read, ParseInv
    <3>2. Readable(m) <=> Orderly(g)
      BY <3>1, ReadableIsOrderly
    <3>3. g \in History
      BY <3>1, AppendProperties DEF History
    <3> HIDE DEF g
    <3>4. CASE Readable(m)
      <4>1. /\ conversation_started' = (conversation_started \/ m.role # "system")
            /\ used_ids' = Used(m)
            /\ pending' = (pending \cup Ids1(m)) \ {m.tool_call_id}
            /\ verdict' = "reading"
        BY <2>2, <3>1, <3>4 DEF Read
      <4>2. Kept(g, pending', used_ids', conversation_started')
        BY <3>1, <3>4, <4>1, KeptAfter DEF g
      <4> QED
        BY <3>1, <3>2, <3>3, <3>4, <4>1, <4>2 DEF ParseInv
    <3>5. CASE ~Readable(m)
      <4>1. verdict' = "refused"
        BY <2>2, <3>5 DEF Read
      <4> QED
        BY <3>1, <3>2, <3>3, <3>5, <4>1 DEF ParseInv
    <3> QED
      BY <3>4, <3>5
  <2>3. CASE EndOfMessages
    <3>1. /\ verdict = "reading" /\ history \in History /\ Orderly(history)
          /\ Kept(history, pending, used_ids, conversation_started)
          /\ history' = history
          /\ verdict' = IF Complete THEN "messages" ELSE "incomplete"
      BY <2>3 DEF EndOfMessages, ParseInv
    <3>2. Complete <=> Closed(history)
      BY <3>1, CompleteIsClosed
    <3> QED
      BY <3>1, <3>2 DEF ParseInv
  <2>4. ASSUME NEW d \in Definitions, NEW choice \in ToolChoices, NEW parallel \in BOOLEAN,
               NEW format, Options(d, choice, parallel, format)
        PROVE  ParseInv'
    <3>1. /\ verdict = "messages" /\ history \in History /\ Orderly(history)
          /\ Closed(history) /\ history' = history
      BY <2>4 DEF Options, ParseInv
    <3>2. CASE /\ Parses(d, choice)
               /\ FormatOk(Config(d, choice, parallel), format)
      <4>1. /\ verdict' = "accepted" /\ tools' = Config(d, choice, parallel)
            /\ response_format' = format
        BY <2>4, <3>2 DEF Options
      <4>2. Parsed(tools', response_format')
        BY <3>2, <4>1 DEF Parsed
      <4> QED
        BY <3>1, <4>1, <4>2 DEF ParseInv
    <3>3. CASE ~(/\ Parses(d, choice)
                 /\ FormatOk(Config(d, choice, parallel), format))
      <4>1. verdict' = "invalid"
        BY <2>4, <3>3 DEF Options
      <4> QED
        BY <3>1, <4>1 DEF ParseInv
    <3> QED
      BY <3>2, <3>3
  <2>5. CASE NextRequest
    BY <2>5, NothingRead DEF NextRequest, ParseInv
  <2> QED
    BY <2>1, <2>2, <2>3, <2>4, <2>5 DEF ParseNext
<1> QED
  BY <1>1, <1>2, PTL DEF ParseSpec

\* Theorem: whatever messages come, however many calls they make and in
\* whatever order their results follow, the scan with its two sets of ids
\* refuses exactly what makes a history no conversation.
THEOREM ScanningIsExact == ParseSpec => []ScanIsExact
<1>1. ParseInv => ScanIsExact
  BY DEF ParseInv, ScanIsExact, Kept
<1> QED
  BY <1>1, ParseInvariant, PTL

----------------------------------------------------------------------------
\* The tools.

\* A set of numbers with 0 and the successor of each of its members is Nat.
LEMMA Induction ==
  ASSUME NEW T \in SUBSET Nat, 0 \in T, \A n \in T : n + 1 \in T
  PROVE  T = Nat
<1> DEFINE Missing == Nat \ T
<1> SUFFICES ASSUME Missing # {} PROVE FALSE
  OBVIOUS
<1>1. PICK x \in Missing : \A y \in Missing : ~ (<<y, x>> \in OpToRel(<, Nat))
  BY WFMin, NatLessThanWellFounded
<1>2. \A y \in Missing : ~ (y < x)
  BY <1>1 DEF OpToRel
<1>3. x # 0 /\ x \in Nat
  OBVIOUS
<1>4. x - 1 \in T
  BY <1>2, <1>3
<1> QED
  BY <1>3, <1>4

\* A function on 0..n that starts at base and takes the step at each number.
Recursion(f, n, S, base, step) ==
  /\ f \in [0..n -> S]
  /\ f[0] = base
  /\ \A i \in 1..n : f[i] = step[<<i, f[i - 1]>>]

\* There is one.
LEMMA RecursionExists ==
  ASSUME NEW n \in Nat, NEW S, NEW base \in S, NEW step \in [(1..n) \X S -> S]
  PROVE  \E f : Recursion(f, n, S, base, step)
<1> DEFINE Good(f, m) == \A i \in 0..m : f[i] = IF i = 0 THEN base ELSE step[<<i, f[i - 1]>>]
           T == {m \in Nat : m <= n => \E f \in [0..m -> S] : Good(f, m)}
<1>1. 0 \in T
  <2> DEFINE f == [i \in 0..0 |-> base]
  <2>1. f \in [0..0 -> S] /\ Good(f, 0)
    OBVIOUS
  <2> QED
    BY <2>1
<1>2. ASSUME NEW m \in T PROVE m + 1 \in T
  <2> SUFFICES ASSUME m + 1 <= n PROVE \E f \in [0..(m + 1) -> S] : Good(f, m + 1)
    OBVIOUS
  <2>1. PICK f \in [0..m -> S] : Good(f, m)
    OBVIOUS
  <2> DEFINE v == step[<<m + 1, f[m]>>]
             g == [i \in 0..(m + 1) |-> IF i = m + 1 THEN v ELSE f[i]]
  <2>2. v \in S
    OBVIOUS
  <2>3. g \in [0..(m + 1) -> S]
    BY <2>2
  <2>4. ASSUME NEW i \in 0..(m + 1)
        PROVE  g[i] = IF i = 0 THEN base ELSE step[<<i, g[i - 1]>>]
    <3>1. CASE i = m + 1
      <4>1. g[i] = v /\ g[i - 1] = f[m] /\ i # 0
        BY <3>1
      <4> QED
        BY <3>1, <4>1
    <3>2. CASE i # m + 1
      <4>1. i \in 0..m /\ g[i] = f[i] /\ (i # 0 => g[i - 1] = f[i - 1])
        BY <3>2
      <4> QED
        BY <2>1, <4>1
    <3> QED
      BY <3>1, <3>2
  <2> QED
    BY <2>3, <2>4
<1>3. n \in T
  <2> HIDE DEF T
  <2>1. T \in SUBSET Nat
    BY DEF T
  <2> QED
    BY <1>1, <1>2, <2>1, Induction
<1>4. PICK f \in [0..n -> S] : Good(f, n)
  BY <1>3
<1>5. f[0] = base /\ \A i \in 1..n : f[i] = step[<<i, f[i - 1]>>]
  <2>1. 0 \in 0..n /\ \A i \in 1..n : i \in 0..n /\ i # 0
    OBVIOUS
  <2> QED
    BY <1>4, <2>1
<1>6. Recursion(f, n, S, base, step)
  BY <1>5 DEF Recursion
<1> QED
  BY <1>6

\* Filtering definitions for a name leaves it, if it is there, and no other.
LEMMA NamedOnlyNames ==
  ASSUME NEW ds \in Seq(Functions), NEW name
  PROVE  Names(NamedOnly(ds, name)) = Names(ds) \cap {name}
<1> DEFINE n == Len(ds)
           next(v, i) == IF ds[i] = name THEN Append(v, ds[i]) ELSE v
           step == [x \in (1..n) \X Seq(Functions) |-> next(x[2], x[1])]
           f == CHOOSE f : f = [i \in 0..n |-> IF i = 0 THEN <<>> ELSE next(f[i - 1], i)]
<1>1. n \in Nat /\ \A i \in 1..n : ds[i] \in Functions
  BY LenProperties, ElementOfSeq
<1>2. NamedOnly(ds, name) = f[n]
  BY DEF NamedOnly
<1>3. \A v \in Seq(Functions), i \in 1..n : next(v, i) \in Seq(Functions)
  BY <1>1, AppendProperties
<1> HIDE DEF n
<1>4. \A v \in Seq(Functions), i \in 1..n :
        Names(next(v, i)) = Names(v) \cup ({ds[i]} \cap {name})
  <2> SUFFICES ASSUME NEW v \in Seq(Functions), NEW i \in 1..n
               PROVE  Names(next(v, i)) = Names(v) \cup ({ds[i]} \cap {name})
    OBVIOUS
  <2>1. ds[i] \in Functions
    BY <1>1
  <2> DEFINE w == Append(v, ds[i])
  <2>2. /\ Len(v) \in Nat /\ Len(w) = Len(v) + 1 /\ w[Len(v) + 1] = ds[i]
        /\ \A j \in 1..Len(v) : w[j] = v[j]
    BY <2>1, AppendProperties, LenProperties
  <2> HIDE DEF w
  <2>3. \A j : j \in 1..Len(w) <=> j \in 1..Len(v) \/ j = Len(v) + 1
    BY <2>2
  <2>4. Names(w) = Names(v) \cup {ds[i]}
    BY <2>2, <2>3 DEF Names
  <2> QED
    BY <2>4 DEF w
<1> HIDE DEF next
<1>5. PICK g : Recursion(g, n, Seq(Functions), <<>>, step)
  <2>1. <<>> \in Seq(Functions)
    BY EmptySeq
  <2>2. step \in [(1..n) \X Seq(Functions) -> Seq(Functions)]
    BY <1>3
  <2> HIDE DEF step
  <2>3. \E g : Recursion(g, n, Seq(Functions), <<>>, step)
    BY <1>1, <2>1, <2>2, RecursionExists
  <2> QED
    BY <2>3
<1>6. /\ g \in [0..n -> Seq(Functions)] /\ g[0] = <<>>
      /\ \A i \in 1..n : g[i] = step[<<i, g[i - 1]>>]
  BY <1>5 DEF Recursion
<1>7. \A i \in 1..n : g[i] = next(g[i - 1], i)
  <2>1. \A i \in 1..n : i - 1 \in 0..n
    BY <1>1
  <2>2. \A i \in 1..n : <<i, g[i - 1]>> \in (1..n) \X Seq(Functions)
    BY <1>6, <2>1
  <2> QED
    BY <1>6, <2>2
<1>8. \A i \in 0..n : i = 0 \/ i \in 1..n
  BY <1>1
<1>9. g = [i \in 0..n |-> IF i = 0 THEN <<>> ELSE next(g[i - 1], i)]
  BY <1>6, <1>7, <1>8
<1>10. f = [i \in 0..n |-> IF i = 0 THEN <<>> ELSE next(f[i - 1], i)]
  BY <1>9
<1> HIDE DEF f
<1> DEFINE First(i) == {ds[j] : j \in 1..i} \cap {name}
           T == {i \in Nat : i <= n => f[i] \in Seq(Functions) /\ Names(f[i]) = First(i)}
<1>11. 0 \in T
  <2>1. 0 \in 0..n
    BY <1>1
  <2>2. f[0] = <<>>
    BY <1>10, <2>1
  <2>3. <<>> \in Seq(Functions) /\ Len(<<>>) = 0 /\ 1..0 = {}
    BY EmptySeq
  <2>4. Names(<<>>) = {} /\ First(0) = {}
    BY <2>3 DEF Names
  <2> QED
    BY <2>2, <2>3, <2>4
<1>12. ASSUME NEW i \in T PROVE i + 1 \in T
  <2> SUFFICES ASSUME i + 1 <= n
               PROVE  f[i + 1] \in Seq(Functions) /\ Names(f[i + 1]) = First(i + 1)
    OBVIOUS
  <2> DEFINE j == i + 1
  <2>1. j \in 1..n /\ j \in 0..n /\ j # 0 /\ j - 1 = i /\ i <= n /\ i \in Nat
    BY <1>1
  <2>2. f[i] \in Seq(Functions) /\ Names(f[i]) = First(i)
    BY <2>1
  <2>3. \A k : k \in 1..j <=> k \in 1..i \/ k = j
    BY <2>1
  <2> HIDE DEF j, T
  <2>4. f[j] = next(f[i], j)
    BY <1>10, <2>1
  <2>5. f[j] \in Seq(Functions) /\ Names(f[j]) = First(i) \cup ({ds[j]} \cap {name})
    BY <1>3, <1>4, <2>1, <2>2, <2>4
  <2>6. First(j) = First(i) \cup ({ds[j]} \cap {name})
    BY <2>3
  <2> HIDE DEF First
  <2>7. f[j] \in Seq(Functions) /\ Names(f[j]) = First(j)
    BY <2>5, <2>6
  <2> QED
    BY <2>7 DEF j
<1>13. T = Nat
  <2> HIDE DEF T
  <2>1. T \in SUBSET Nat
    BY DEF T
  <2> QED
    BY <1>11, <1>12, <2>1, Induction
<1>14. Names(f[n]) = First(n)
  <2>1. n \in T
    BY <1>1, <1>13
  <2> HIDE DEF First
  <2> QED
    BY <1>1, <2>1
<1>15. First(n) = Names(ds) \cap {name}
  BY DEF Names, n
<1> QED
  BY <1>2, <1>14, <1>15

\* Theorem: whatever functions a request defines and whatever it asks for,
\* calls are accepted exactly for the functions the model was shown, it must
\* call one only when there is one, and never where JSON is asked for.
THEOREM ToolsAgree == ParseSpec => []ToolsFit
<1>1. ASSUME ParseInv, verdict = "accepted"
      PROVE  /\ {f \in Functions : Callable(tools, f)} = Names(Effective(tools))
             /\ MustCall(tools) => \E f \in Functions : Callable(tools, f)
             /\ response_format = "json_object" => \A f \in Functions : ~Callable(tools, f)
  <2>1. Parsed(tools, response_format)
    BY <1>1 DEF ParseInv
  <2>2. PICK d \in Definitions : \E choice \in ToolChoices, parallel \in BOOLEAN :
          /\ Parses(d, choice) /\ tools = Config(d, choice, parallel)
          /\ FormatOk(tools, response_format)
    BY <2>1 DEF Parsed
  <2>3. PICK choice \in ToolChoices : \E parallel \in BOOLEAN :
          /\ Parses(d, choice) /\ tools = Config(d, choice, parallel)
          /\ FormatOk(tools, response_format)
    BY <2>2
  <2>4. /\ tools.definitions = d /\ tools.choice = Chosen(d, choice)
        /\ Parses(d, choice) /\ FormatOk(tools, response_format)
    BY <2>3 DEF Config
  <2> DEFINE asked == tools.choice.kind
             wanted == tools.choice.name
  <2>5. d \in Seq(Functions) /\ Names(d) \subseteq Functions
        /\ (d # <<>> => \E f \in Functions : f \in Names(d))
        /\ (d = <<>> => Names(d) = {})
    <3>1. PICK n \in 0..MaxTools : d \in [1..n -> Functions]
      BY DEF Definitions
    <3>2. n \in Nat /\ d \in Seq(Functions) /\ Len(d) = n
      BY <3>1
    <3>3. \A i \in 1..n : d[i] \in Functions
      BY <3>1
    <3>4. Names(d) = {d[i] : i \in 1..n}
      BY <3>2 DEF Names
    <3>5. d # <<>> => 1 \in 1..n
      BY <3>2, EmptySeq
    <3>6. d = <<>> => 1..n = {}
      BY <3>2
    <3> QED
      BY <3>2, <3>3, <3>4, <3>5, <3>6
  <2>6. Names(<<>>) = {}
    <3>1. 1..Len(<<>>) = {}
      OBVIOUS
    <3> QED
      BY <3>1 DEF Names
  <2>7. asked = "named" => wanted \in Names(d)
    <3>1. choice.kind = "absent" => asked # "named"
      <4> SUFFICES ASSUME choice.kind = "absent" PROVE asked # "named"
        OBVIOUS
      <4>1. tools.choice = Choice("none") \/ tools.choice = Choice("auto")
        BY <2>4 DEF Chosen
      <4>2. Choice("none").kind = "none" /\ Choice("auto").kind = "auto"
        BY DEF Choice
      <4>3. asked = "none" \/ asked = "auto"
        BY <4>1, <4>2
      <4> QED
        BY <4>3
    <3>2. choice.kind # "absent" => tools.choice = choice
      BY <2>4 DEF Chosen
    <3>3. choice.kind = "named" => choice.name \in Names(d)
      BY <2>4 DEF Parses
    <3> QED
      BY <3>1, <3>2, <3>3
  <2>8. Enabled(tools) <=> asked # "none" /\ d # <<>>
    BY <2>4 DEF Enabled
  <2>9. \A f : Callable(tools, f) <=>
                 Enabled(tools) /\ (asked = "named" => f = wanted) /\ f \in Names(d)
    BY <2>4 DEF Callable
  <2>10. Effective(tools) = IF asked = "none" THEN <<>>
                            ELSE IF asked = "named" THEN NamedOnly(d, wanted) ELSE d
    BY <2>4 DEF Effective
  <2>11. MustCall(tools) <=> Enabled(tools) /\ asked \in {"required", "named"}
    BY DEF MustCall
  <2>12. response_format = "json_object" => ~Enabled(tools)
    BY <2>4 DEF FormatOk
  <2> HIDE DEF asked, wanted
  <2>13. Names(NamedOnly(d, wanted)) = Names(d) \cap {wanted}
    BY <2>5, NamedOnlyNames
  <2>14. {f \in Functions : Callable(tools, f)} = Names(Effective(tools))
    <3>1. CASE asked = "none"
      BY <2>6, <2>8, <2>9, <2>10, <3>1
    <3>2. CASE asked = "named"
      <4>1. d # <<>>
        BY <2>5, <2>7, <3>2
      <4>2. Names(Effective(tools)) = {wanted} /\ wanted \in Functions
        BY <2>5, <2>7, <2>10, <2>13, <3>2
      <4>3. \A f : Callable(tools, f) <=> f = wanted
        BY <2>7, <2>8, <2>9, <3>2, <4>1
      <4> QED
        BY <4>2, <4>3
    <3>3. CASE asked # "none" /\ asked # "named"
      <4>1. Names(Effective(tools)) = Names(d)
        BY <2>10, <3>3
      <4>2. \A f : Callable(tools, f) <=> d # <<>> /\ f \in Names(d)
        BY <2>8, <2>9, <3>3
      <4>3. \A f : Callable(tools, f) <=> f \in Names(d)
        BY <2>5, <4>2
      <4> QED
        BY <2>5, <4>1, <4>3
    <3> QED
      BY <3>1, <3>2, <3>3
  <2>15. MustCall(tools) => \E f \in Functions : Callable(tools, f)
    <3> SUFFICES ASSUME MustCall(tools) PROVE \E f \in Functions : Callable(tools, f)
      OBVIOUS
    <3>1. CASE asked = "named"
      BY <2>5, <2>7, <2>9, <2>11, <3>1
    <3>2. CASE asked # "named"
      <4>1. PICK f \in Functions : f \in Names(d)
        BY <2>5, <2>8, <2>11
      <4> QED
        BY <2>9, <2>11, <3>2, <4>1
    <3> QED
      BY <3>1, <3>2
  <2> QED
    BY <2>9, <2>12, <2>14, <2>15
<1>2. ParseInv => ToolsFit
  BY <1>1 DEF ToolsFit
<1> QED
  BY <1>2, ParseInvariant, PTL
=============================================================================
