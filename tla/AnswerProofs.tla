---------------------------- MODULE AnswerProofs ----------------------------
(***************************************************************************)
(* Proofs about an answer: how its text reaches the client, and how the    *)
(* plain generator makes it.                                               *)
(*                                                                         *)
(* The text, for every alphabet, marker, option, stop sequence and way to  *)
(* cut it into chunks: the filter, the parser and the splitter are what    *)
(* they would be had they read all the text so far at once.                *)
(*                                                                         *)
(* The generator, for every vocabulary, law, prompt, limit and context:    *)
(* the prefix cache stays coherent over any sequence of calls and          *)
(* failures, and the generator keeps the promise of Generation.  The       *)
(* inductive invariant adds to the cache properties where the log stands   *)
(* in each phase, what the call may still emit, and that text is only ever *)
(* handed out at the end of a character.                                   *)
(***************************************************************************)
EXTENDS ChatEngine, OutputProcessor, LanguageProofs

----------------------------------------------------------------------------
\* The texts of an answer, and the sets of markers searched for in them.

AnyText == Seq(Alphabet)
AnyMarkers == SUBSET MarkerTexts(Alphabet)

----------------------------------------------------------------------------
\* The stop filter: s has read the text r and let v through.

StopHolds(o, s, v, r) ==
  /\ s \in [stops : {o.stops}, pending : AnyText, stopped : BOOLEAN]
  /\ v \in AnyText
  /\ r \in AnyText
  /\ ~s.stopped =>
       /\ Find(r, o.stops) = 0
       /\ v = Take(r, Len(r) - Held(r, o.stops))
       /\ s.pending = Drop(r, Len(r) - Held(r, o.stops))
  /\ s.stopped =>
       /\ Find(r, o.stops) > 0
       /\ v = Take(r, Find(r, o.stops) - 1)
       /\ s.pending = <<>>

\* The filter knows, after each chunk, what it would after all of them at once.
LEMMA StopPushKeeps ==
  ASSUME NEW o, o.stops \in AnyMarkers, NEW s, NEW v, NEW r, NEW c \in AnyText,
         StopHolds(o, s, v, r), ~s.stopped
  PROVE  /\ StopPush(s, c).out \in AnyText
         /\ StopHolds(o, StopPush(s, c).stop, v \o StopPush(s, c).out, r \o c)
<1> DEFINE M == o.stops
           n == Len(r) - Held(r, M)
           u == r \o c
           all == s.pending \o c
           hit == Find(all, M)
           keep == Len(all) - Held(all, M)
<1>1. /\ s \in [stops : {M}, pending : AnyText, stopped : BOOLEAN] /\ r \in AnyText
      /\ Find(r, M) = 0 /\ v = Take(r, n) /\ s.pending = Drop(r, n)
      /\ s.stops = M
  BY DEF StopHolds
<1>2. M \in SUBSET MarkerTexts(Alphabet) /\ M \in SUBSET Seq(Alphabet)
  BY DEF AnyMarkers, MarkerTexts
<1>3. n \in 0..Len(r)
  <2>1. Held(r, M) \in 0..Len(r)
    BY <1>1, <1>2, HeldIs DEF AnyText
  <2> QED
    BY <2>1, <1>1 DEF AnyText
<1>4. /\ u \in AnyText /\ n \in 0..Len(u) /\ v = Take(u, n) /\ all = Drop(u, n)
      /\ all \in AnyText /\ Len(all) = Len(u) - n
  <2>1. u \in AnyText /\ n \in 0..Len(u) /\ v = Take(u, n) /\ all = Drop(u, n)
    <3> HIDE DEF n
    <3>1. \A k \in 0..Len(r) :
            /\ u \in Seq(Alphabet) /\ k \in 0..Len(u)
            /\ Take(u, k) = Take(r, k) /\ Drop(u, k) = Drop(r, k) \o c
      BY <1>1, CutOfJoined, SMTT(30) DEF AnyText
    <3>2. all = Drop(r, n) \o c
      BY <1>1
    <3> QED
      BY <1>1, <1>3, <3>1, <3>2 DEF AnyText
  <2> HIDE DEF u, all, n
  <2> QED
    BY <2>1, DropIs DEF AnyText
<1>5. Find(u, M) = IF hit = 0 THEN 0 ELSE n + hit
  <2>1. all = Drop(r, n) \o c
    BY <1>1
  <2> HIDE DEF n
  <2>2. Find(u, M) = IF Find(Drop(r, n) \o c, M) = 0 THEN 0 ELSE n + Find(Drop(r, n) \o c, M)
    BY <1>1, <1>2, <1>3, FoundBehindCut DEF AnyText, n
  <2> QED
    BY <2>1, <2>2
<1>6. Held(u, M) = Held(all, M)
  <2>1. all = Drop(r, n) \o c
    BY <1>1
  <2>2. n = Len(r) - Held(r, M)
    OBVIOUS
  <2> HIDE DEF n
  <2> QED
    BY <1>1, <1>2, <1>3, <2>1, <2>2, HeldBehindCut DEF AnyText
<1>7. hit \in 0..Len(all) /\ keep \in 0..Len(all)
  <2> HIDE DEF all
  <2>1. Held(all, M) \in 0..Len(all) /\ hit \in 0..Len(all)
    BY <1>2, <1>4, HeldIs, FindIs DEF AnyText
  <2> QED
    BY <1>4, <2>1 DEF AnyText
<1>8. StopPush(s, c) = IF hit > 0
                       THEN [stop |-> [s EXCEPT !.pending = <<>>, !.stopped = TRUE],
                             out  |-> Take(all, hit - 1)]
                       ELSE [stop |-> [s EXCEPT !.pending = Drop(all, keep)],
                             out  |-> Take(all, keep)]
  BY <1>1 DEF StopPush
<1>9. <<>> \in AnyText
  BY EmptySeq DEF AnyText
<1>10. n \in Nat /\ Len(u) \in Nat /\ Len(all) \in Nat /\ hit \in Nat /\ keep \in Nat
  <2>1. Len(u) \in Nat /\ Len(all) \in Nat /\ Len(r) \in Nat
    BY <1>1, <1>4 DEF AnyText
  <2> QED
    BY <1>3, <1>7, <2>1
<1> HIDE DEF u, all, hit, keep, n
<1>11. CASE hit > 0
  <2> DEFINE q == [s EXCEPT !.pending = <<>>, !.stopped = TRUE]
             w == Take(all, hit - 1)
  <2>1. hit - 1 \in 0..(Len(u) - n) /\ hit - 1 \in 0..Len(all)
    BY <1>4, <1>7, <1>10, <1>11
  <2>2. w \in AnyText /\ v \o w = Take(u, n + (hit - 1)) /\ n + (hit - 1) \in 0..Len(u)
    BY <1>4, <2>1, CutFurther, TakeIs DEF AnyText
  <2>3. Find(u, M) > 0 /\ n + (hit - 1) = Find(u, M) - 1
    BY <1>5, <1>10, <1>11
  <2>4. Take(u, n + (hit - 1)) \in AnyText
    BY <1>4, <2>2, TakeIs DEF AnyText
  <2>5. q \in [stops : {M}, pending : AnyText, stopped : BOOLEAN] /\ q.stopped /\ q.pending = <<>>
    BY <1>1, <1>9
  <2>6. StopPush(s, c).stop = q /\ StopPush(s, c).out = w
    BY <1>8, <1>11
  <2> HIDE DEF q, w
  <2>7. StopHolds(o, q, v \o w, u)
    BY <1>4, <2>2, <2>3, <2>4, <2>5 DEF StopHolds
  <2> QED
    BY <2>2, <2>6, <2>7 DEF u
<1>12. CASE hit = 0
  <2> DEFINE q == [s EXCEPT !.pending = Drop(all, keep)]
             w == Take(all, keep)
  <2>1. keep \in 0..(Len(u) - n) /\ keep \in 0..Len(all)
    BY <1>4, <1>7
  <2>2. w \in AnyText /\ v \o w = Take(u, n + keep) /\ n + keep \in 0..Len(u)
        /\ Drop(all, keep) \in AnyText /\ Drop(all, keep) = Drop(u, n + keep)
    BY <1>4, <2>1, CutFurther, TakeIs, DropIs DEF AnyText
  <2>3. Find(u, M) = 0 /\ n + keep = Len(u) - Held(u, M)
    <3>1. Held(all, M) \in Int
      <4>1. Held(all, M) \in 0..Len(all)
        BY <1>2, <1>4, HeldIs DEF AnyText
      <4> QED
        BY <4>1
    <3>2. keep = Len(all) - Held(all, M)
      BY DEF keep
    <3> QED
      BY <1>4, <1>5, <1>6, <1>10, <1>12, <3>1, <3>2
  <2>4. Take(u, n + keep) \in AnyText
    BY <1>4, <2>2, TakeIs DEF AnyText
  <2>5. q \in [stops : {M}, pending : AnyText, stopped : BOOLEAN] /\ ~q.stopped
        /\ q.pending = Drop(all, keep)
    BY <1>1, <2>2
  <2>6. StopPush(s, c).stop = q /\ StopPush(s, c).out = w
    BY <1>8, <1>12
  <2> HIDE DEF q, w
  <2>7. StopHolds(o, q, v \o w, u)
    BY <1>4, <2>2, <2>3, <2>4, <2>5 DEF StopHolds
  <2> QED
    BY <2>2, <2>6, <2>7 DEF u
<1> QED
  BY <1>10, <1>11, <1>12

----------------------------------------------------------------------------
\* The splitter.

\* Texts together.
LEMMA JoinTexts == \A x, y \in AnyText : x \o y \in AnyText
<1> QED
  BY ConcatProperties DEF AnyText

\* Joining is associative.
LEMMA JoinInAnyOrder ==
  \A x \in AnyText : \A y \in AnyText : \A z \in AnyText : (x \o y) \o z = x \o (y \o z)
<1> SUFFICES ASSUME NEW x \in AnyText, NEW y \in AnyText, NEW z \in AnyText
             PROVE  (x \o y) \o z = x \o (y \o z)
  OBVIOUS
<1>1. x \in Seq(Alphabet) /\ y \in Seq(Alphabet) /\ z \in Seq(Alphabet)
  BY DEF AnyText
<1> QED
  BY <1>1, ConcatAssociative

\* Joining nothing changes nothing.
LEMMA JoinNothing ==
  /\ <<>> \in AnyText
  /\ \A x \in AnyText : <<>> \o x = x /\ x \o <<>> = x
<1> QED
  BY EmptySeq, ConcatEmptySeq DEF AnyText

\* Cuts of a text and of a longer text are the same.
LEMMA CutText ==
  ASSUME NEW t \in AnyText, NEW b \in AnyText, NEW n \in 0..Len(t)
  PROVE  /\ t \o b \in AnyText /\ Len(t \o b) = Len(t) + Len(b)
         /\ n \in 0..Len(t \o b)
         /\ Take(t \o b, n) = Take(t, n)
         /\ Drop(t \o b, n) = Drop(t, n) \o b
<1> QED
  BY CutOfJoined DEF AnyText

\* Nothing cut off.
LEMMA CutNothing ==
  ASSUME NEW S, NEW t \in Seq(S)
  PROVE  Take(t, 0) = <<>> /\ Drop(t, 0) = t
<1>1. Len(t) \in Nat /\ 0 \in 0..Len(t)
  OBVIOUS
<1>2. Len(Take(t, 0)) = 0 /\ Take(t, 0) \in Seq(S)
  BY <1>1, TakeIs
<1>3. Drop(t, 0) = SubSeq(t, 1, Len(t))
  BY DEF Drop
<1>4. SubSeq(t, 1, Len(t)) = t
  BY SubSeqFull
<1> QED
  BY <1>2, <1>3, <1>4, EmptySeq

\* The splitter and the reply, part by part.
Staged(thinking, pending, content, reasoning, calls) ==
  [splitter |-> [thinking |-> thinking, pending |-> pending],
   reply |-> [content |-> content, reasoning |-> reasoning, calls |-> calls]]

Stages ==
  [splitter : [thinking : BOOLEAN, pending : AnyText],
   reply : [content : AnyText, reasoning : AnyText, calls : Seq(AnyText)]]

\* Between chunks the splitter holds what may still end the reasoning.
Ready(sr) ==
  /\ sr \in Stages
  /\ sr.splitter.thinking => Settled(sr.splitter.pending, {ThinkEnd})
  /\ ~sr.splitter.thinking => sr.splitter.pending = <<>>

\* Every stage has its five parts.
LEMMA StageIs ==
  ASSUME NEW sr \in Stages
  PROVE  \E th \in BOOLEAN : \E pe, co, re \in AnyText : \E ca \in Seq(AnyText) :
           sr = Staged(th, pe, co, re, ca)
<1>1. /\ sr.splitter.thinking \in BOOLEAN /\ sr.splitter.pending \in AnyText
      /\ sr.reply.content \in AnyText /\ sr.reply.reasoning \in AnyText
      /\ sr.reply.calls \in Seq(AnyText)
      /\ sr = Staged(sr.splitter.thinking, sr.splitter.pending, sr.reply.content,
                     sr.reply.reasoning, sr.reply.calls)
  BY DEF Stages, Staged
<1> QED
  BY <1>1

\* A stage of such parts is a stage, and when it is between two texts.
LEMMA StagedType ==
  ASSUME NEW th \in BOOLEAN, NEW pe \in AnyText, NEW co \in AnyText, NEW re \in AnyText,
         NEW ca \in Seq(AnyText)
  PROVE  /\ Staged(th, pe, co, re, ca) \in Stages
         /\ Ready(Staged(th, pe, co, re, ca)) <=>
              /\ th => Settled(pe, {ThinkEnd})
              /\ ~th => pe = <<>>
<1> QED
  BY DEF Stages, Staged, Ready

\* What the splitter makes of the text it has, part by part.
Split(th, all, co, re, ca) ==
  LET hit == Find(all, {ThinkEnd})
      n   == Len(all) - Held(all, {ThinkEnd})
  IN  IF ~th THEN Staged(FALSE, <<>>, co \o all, re, ca)
      ELSE IF hit > 0
           THEN Staged(FALSE, <<>>, co \o Drop(all, hit + Len(ThinkEnd) - 1),
                       re \o Take(all, hit - 1), ca)
           ELSE Staged(TRUE, Drop(all, n), co, re \o Take(all, n), ca)

\* Text is split together with what was held back.
LEMMA SplitTextIs ==
  ASSUME NEW th \in BOOLEAN, NEW pe \in AnyText, NEW co \in AnyText, NEW re \in AnyText,
         NEW ca \in Seq(AnyText), NEW x \in AnyText
  PROVE  SplitText(Staged(th, pe, co, re, ca), x) = Split(th, pe \o x, co, re, ca)
<1> DEFINE all == pe \o x
           hit == Find(all, {ThinkEnd})
           n   == Len(all) - Held(all, {ThinkEnd})
           sr  == Staged(th, pe, co, re, ca)
<1>1. /\ sr.splitter = [thinking |-> th, pending |-> pe]
      /\ sr.reply = [content |-> co, reasoning |-> re, calls |-> ca]
      /\ sr.splitter.pending = pe /\ sr.splitter.thinking = th
  BY DEF Staged
<1> HIDE DEF sr
<1>2. SplitText(sr, x) =
        IF ~th
        THEN [splitter |-> [sr.splitter EXCEPT !.pending = <<>>],
              reply |-> Say(sr.reply, FALSE, all)]
        ELSE IF hit > 0
             THEN [splitter |-> [thinking |-> FALSE, pending |-> <<>>],
                   reply |-> Say(Say(sr.reply, TRUE, Take(all, hit - 1)), FALSE,
                                 Drop(all, hit + Len(ThinkEnd) - 1))]
             ELSE [splitter |-> [sr.splitter EXCEPT !.pending = Drop(all, n)],
                   reply |-> Say(sr.reply, TRUE, Take(all, n))]
  BY <1>1 DEF SplitText
<1>3. \A y, z :
        /\ Say([content |-> co, reasoning |-> z, calls |-> ca], FALSE, y)
             = [content |-> co \o y, reasoning |-> z, calls |-> ca]
        /\ Say([content |-> co, reasoning |-> z, calls |-> ca], TRUE, y)
             = [content |-> co, reasoning |-> z \o y, calls |-> ca]
  BY DEF Say
<1>5. \A y : [sr.splitter EXCEPT !.pending = y] = [thinking |-> th, pending |-> y]
  BY <1>1
<1> HIDE DEF all, hit, n
<1>6. CASE ~th
  <2>0. /\ th = FALSE
        /\ [sr.splitter EXCEPT !.pending = <<>>] = [thinking |-> th, pending |-> <<>>]
        /\ Say(sr.reply, FALSE, all) = [content |-> co \o all, reasoning |-> re, calls |-> ca]
    BY <1>1, <1>3, <1>5, <1>6
  <2>1. SplitText(sr, x) = Staged(FALSE, <<>>, co \o all, re, ca)
    BY <1>2, <1>6, <2>0 DEF Staged
  <2> QED
    BY <1>6, <2>1 DEF all, sr, Split
<1>7. CASE th /\ hit > 0
  <2>1. SplitText(sr, x) = Staged(FALSE, <<>>, co \o Drop(all, hit + Len(ThinkEnd) - 1),
                                  re \o Take(all, hit - 1), ca)
    BY <1>1, <1>2, <1>3, <1>7 DEF Staged
  <2> QED
    BY <1>7, <2>1 DEF all, hit, sr, Split
<1>8. CASE th /\ ~(hit > 0)
  <2>0. /\ th = TRUE
        /\ [sr.splitter EXCEPT !.pending = Drop(all, n)]
             = [thinking |-> th, pending |-> Drop(all, n)]
        /\ Say(sr.reply, TRUE, Take(all, n))
             = [content |-> co, reasoning |-> re \o Take(all, n), calls |-> ca]
    BY <1>1, <1>3, <1>5, <1>8, ZenonT(30)
  <2>1. SplitText(sr, x) = Staged(TRUE, Drop(all, n), co, re \o Take(all, n), ca)
    BY <1>2, <1>8, <2>0 DEF Staged
  <2> QED
    BY <1>8, <2>1 DEF all, hit, n, sr, Split
<1> QED
  BY <1>6, <1>7, <1>8

\* The marker looked for is one.
LEMMA ThinkEndIs ==
  /\ ThinkEnd \in Seq(Alphabet) /\ Len(ThinkEnd) \in Nat \ {0}
  /\ {ThinkEnd} \in SUBSET MarkerTexts(Alphabet) /\ {ThinkEnd} \in SUBSET Seq(Alphabet)
  /\ Apart({ThinkEnd})
<1>1. ThinkEnd \in Seq(Alphabet) /\ ThinkEnd # <<>>
  BY MarkersAssumption
<1>2. ThinkEnd \in MarkerTexts(Alphabet)
  BY <1>1 DEF MarkerTexts
<1> QED
  BY <1>1, <1>2, EmptySeq, OneIsApart

\* Where a text is cut: at a marker that ends the reasoning, or where what may
\* still become one begins.
LEMMA CutsOf ==
  ASSUME NEW all \in AnyText
  PROVE  LET hit == Find(all, {ThinkEnd})
             n   == Len(all) - Held(all, {ThinkEnd})
         IN  /\ hit \in Nat /\ n \in 0..Len(all)
             /\ Take(all, n) \in AnyText /\ Drop(all, n) \in AnyText
             /\ hit > 0 =>
                  /\ hit - 1 \in 0..Len(all) /\ hit + Len(ThinkEnd) - 1 \in 0..Len(all)
                  /\ Take(all, hit - 1) \in AnyText
                  /\ Drop(all, hit + Len(ThinkEnd) - 1) \in AnyText
             /\ hit = 0 => Settled(Drop(all, n), {ThinkEnd})
<1> DEFINE hit == Find(all, {ThinkEnd})
           n   == Len(all) - Held(all, {ThinkEnd})
<1>1. all \in Seq(Alphabet) /\ Len(all) \in Nat
  BY DEF AnyText
<1>2. hit \in 0..Len(all) /\ (hit # 0 => Stands(all, ThinkEnd, hit))
  BY <1>1, ThinkEndIs, FindIs
<1>3. Held(all, {ThinkEnd}) \in 0..Len(all)
  BY <1>1, ThinkEndIs, HeldIs
<1>4. n \in 0..Len(all) /\ hit \in Nat
  BY <1>1, <1>2, <1>3
<1>5. n = Len(all) - Held(all, {ThinkEnd})
  OBVIOUS
<1> HIDE DEF hit, n
<1>6. Take(all, n) \in AnyText /\ Drop(all, n) \in AnyText
  BY <1>1, <1>4, TakeIs, DropIs DEF AnyText
<1>7. ASSUME hit > 0
      PROVE  /\ hit - 1 \in 0..Len(all) /\ hit + Len(ThinkEnd) - 1 \in 0..Len(all)
             /\ Take(all, hit - 1) \in AnyText
             /\ Drop(all, hit + Len(ThinkEnd) - 1) \in AnyText
  <2>1. hit \in Nat \ {0} /\ hit + Len(ThinkEnd) <= Len(all) + 1
    BY <1>1, <1>2, <1>4, <1>7, ThinkEndIs, StandsIs
  <2>2. hit - 1 \in 0..Len(all) /\ hit + Len(ThinkEnd) - 1 \in 0..Len(all)
    BY <1>1, <2>1, ThinkEndIs
  <2> QED
    BY <1>1, <2>2, TakeIs, DropIs DEF AnyText
<1>8. ASSUME hit = 0 PROVE Settled(Drop(all, n), {ThinkEnd})
  BY <1>1, <1>4, <1>5, <1>8, ThinkEndIs, HeldIsSettled DEF hit
<1> QED
  BY <1>4, <1>6, <1>7, <1>8 DEF hit, n

\* Text leaves the splitter ready for more.
LEMMA SplitReady ==
  ASSUME NEW sr, Ready(sr), NEW x \in AnyText
  PROVE  Ready(SplitText(sr, x))
<1>1. PICK th \in BOOLEAN : \E pe, co, re \in AnyText : \E ca \in Seq(AnyText) :
        sr = Staged(th, pe, co, re, ca)
  BY StageIs DEF Ready
<1>2. PICK pe \in AnyText, co \in AnyText, re \in AnyText : \E ca \in Seq(AnyText) :
        sr = Staged(th, pe, co, re, ca)
  BY <1>1
<1>3. PICK ca \in Seq(AnyText) : sr = Staged(th, pe, co, re, ca)
  BY <1>2
<1> DEFINE all == pe \o x
           hit == Find(all, {ThinkEnd})
           n   == Len(all) - Held(all, {ThinkEnd})
           b   == Drop(all, hit + Len(ThinkEnd) - 1)
           a   == Take(all, hit - 1)
<1>4. all \in AnyText /\ <<>> \in AnyText
  BY ConcatProperties, EmptySeq DEF AnyText
<1>5. SplitText(sr, x) = Split(th, all, co, re, ca)
  BY <1>3, SplitTextIs
<1>6. \A y, z \in AnyText : y \o z \in AnyText
  BY ConcatProperties DEF AnyText
<1>7. /\ hit \in Nat
      /\ hit > 0 => a \in AnyText /\ b \in AnyText
      /\ Take(all, n) \in AnyText /\ Drop(all, n) \in AnyText
      /\ hit = 0 => Settled(Drop(all, n), {ThinkEnd})
  BY <1>4, CutsOf
<1>8. CASE ~th
  <2> HIDE DEF all
  <2>1. Ready(Staged(FALSE, <<>>, co \o all, re, ca))
    BY <1>4, <1>6, StagedType
  <2> QED
    BY <1>5, <1>8, <2>1 DEF Split
<1>9. CASE th /\ hit > 0
  <2>0. Split(th, all, co, re, ca) = Staged(FALSE, <<>>, co \o b, re \o a, ca)
    BY <1>9 DEF Split
  <2> HIDE DEF all, hit, n, a, b
  <2>1. Ready(Staged(FALSE, <<>>, co \o b, re \o a, ca))
    BY <1>4, <1>6, <1>7, <1>9, StagedType
  <2> QED
    BY <1>5, <2>0, <2>1
<1>10. CASE th /\ ~(hit > 0)
  <2>0. Split(th, all, co, re, ca) = Staged(TRUE, Drop(all, n), co, re \o Take(all, n), ca)
    BY <1>10 DEF Split
  <2> HIDE DEF all, hit, n
  <2>1. hit = 0
    BY <1>7, <1>10
  <2>2. Ready(Staged(TRUE, Drop(all, n), co, re \o Take(all, n), ca))
    BY <1>6, <1>7, <2>1, StagedType
  <2> QED
    BY <1>5, <2>0, <2>2
<1> QED
  BY <1>8, <1>9, <1>10

\* No text changes nothing.
LEMMA SplitNothing ==
  ASSUME NEW sr, Ready(sr)
  PROVE  SplitText(sr, <<>>) = sr
<1>1. PICK th \in BOOLEAN : \E pe, co, re \in AnyText : \E ca \in Seq(AnyText) :
        sr = Staged(th, pe, co, re, ca)
  BY StageIs DEF Ready
<1>2. PICK pe \in AnyText, co \in AnyText, re \in AnyText : \E ca \in Seq(AnyText) :
        sr = Staged(th, pe, co, re, ca)
  BY <1>1
<1>3. PICK ca \in Seq(AnyText) : sr = Staged(th, pe, co, re, ca)
  BY <1>2
<1>4. <<>> \in AnyText /\ \A y \in AnyText : y \o <<>> = y
  BY EmptySeq, ConcatEmptySeq DEF AnyText
<1>5. (th => Settled(pe, {ThinkEnd})) /\ (~th => pe = <<>>)
  BY <1>3, StagedType
<1>6. SplitText(sr, <<>>) = Split(th, pe, co, re, ca)
  <2>0. \A y \in AnyText : SplitText(sr, y) = Split(th, pe \o y, co, re, ca)
    BY <1>3, SplitTextIs
  <2>1. SplitText(sr, <<>>) = Split(th, pe \o <<>>, co, re, ca)
    BY <1>4, <2>0
  <2> QED
    BY <1>4, <2>1
<1>7. CASE ~th
  <2>1. co \o pe = co /\ pe = <<>>
    BY <1>4, <1>5, <1>7
  <2>2. Split(th, pe, co, re, ca) = Staged(FALSE, <<>>, co \o pe, re, ca)
    BY <1>7 DEF Split
  <2>3. Staged(FALSE, <<>>, co \o pe, re, ca) = Staged(th, pe, co, re, ca)
    BY <1>7, <2>1 DEF Staged
  <2> QED
    BY <1>3, <1>6, <2>2, <2>3
<1>8. CASE th
  <2>1. Find(pe, {ThinkEnd}) = 0 /\ Held(pe, {ThinkEnd}) = Len(pe) /\ Len(pe) \in Nat
    BY <1>5, <1>8 DEF Settled, AnyText
  <2>2. Len(pe) - Held(pe, {ThinkEnd}) = 0 /\ ~(Find(pe, {ThinkEnd}) > 0)
    BY <2>1
  <2>3. Take(pe, 0) = <<>> /\ Drop(pe, 0) = pe
    BY CutNothing DEF AnyText
  <2>4. Split(th, pe, co, re, ca) =
          Staged(TRUE, Drop(pe, Len(pe) - Held(pe, {ThinkEnd})), co,
                 re \o Take(pe, Len(pe) - Held(pe, {ThinkEnd})), ca)
    BY <1>8, <2>2 DEF Split
  <2>5. Split(th, pe, co, re, ca) = Staged(TRUE, pe, co, re \o <<>>, ca)
    BY <2>2, <2>3, <2>4
  <2>6. re \o <<>> = re /\ th = TRUE
    BY <1>4, <1>8
  <2> QED
    BY <1>3, <1>6, <2>5, <2>6
<1> QED
  BY <1>7, <1>8

\* A cut behind a cut is one cut.
LEMMA CutTwice ==
  ASSUME NEW t \in AnyText, NEW n \in 0..Len(t), NEW k \in 0..(Len(t) - n)
  PROVE  /\ n + k \in 0..Len(t)
         /\ Take(t, n) \o Take(Drop(t, n), k) = Take(t, n + k)
         /\ Drop(Drop(t, n), k) = Drop(t, n + k)
<1> QED
  BY CutFurther DEF AnyText

\* What is found and held back in a longer text, seen from behind what was let
\* through.
LEMMA TextBehindCut ==
  ASSUME NEW t \in AnyText, NEW b \in AnyText, NEW M \in AnyMarkers, Find(t, M) = 0,
         NEW n \in 0..Len(t), n = Len(t) - Held(t, M)
  PROVE  /\ Find(t \o b, M) =
              IF Find(Drop(t, n) \o b, M) = 0 THEN 0 ELSE n + Find(Drop(t, n) \o b, M)
         /\ Held(t \o b, M) = Held(Drop(t, n) \o b, M)
<1>1. Find(t \o b, M) =
        IF Find(Drop(t, n) \o b, M) = 0 THEN 0 ELSE n + Find(Drop(t, n) \o b, M)
  BY FoundBehindCut DEF AnyText, AnyMarkers
<1>2. Held(t \o b, M) = Held(Drop(t, n) \o b, M)
  BY HeldBehindCut DEF AnyText, AnyMarkers
<1> QED
  BY <1>1, <1>2

\* What x becomes, for the provers to take as it is.
Is(x, y) == x = y

\* The splitter holds back enough: what it makes of the rest w of u, once it said
\* x, is what it makes of u.
RestOf(u, w, x, n) ==
  /\ Len(w) = Len(u) - n
  /\ Find(u, {ThinkEnd}) = IF Find(w, {ThinkEnd}) = 0 THEN 0 ELSE n + Find(w, {ThinkEnd})
  /\ Held(u, {ThinkEnd}) = Held(w, {ThinkEnd})
  /\ \A j \in 0..Len(w) : x \o Take(w, j) = Take(u, n + j) /\ Drop(w, j) = Drop(u, n + j)

\* A text splits as its first part, given out before, and its rest.
LEMMA SplitRest ==
  \A u \in AnyText : \A w \in AnyText : \A x \in AnyText : \A n \in Nat : RestOf(u, w, x, n) =>
    \A co \in AnyText, re \in AnyText, ca \in Seq(AnyText) :
      Split(TRUE, w, co, re \o x, ca) = Split(TRUE, u, co, re, ca)
<1> SUFFICES ASSUME NEW u \in AnyText, NEW w \in AnyText, NEW x \in AnyText, NEW n \in Nat,
                    RestOf(u, w, x, n),
                    NEW co \in AnyText, NEW re \in AnyText, NEW ca \in Seq(AnyText)
             PROVE  Split(TRUE, w, co, re \o x, ca) = Split(TRUE, u, co, re, ca)
  OBVIOUS
<1>0. PICK h, e, g, k, f, L :
        /\ Is(h, Find(w, {ThinkEnd})) /\ Is(e, Find(u, {ThinkEnd})) /\ Is(g, Held(w, {ThinkEnd}))
        /\ Is(k, Len(w) - g) /\ Is(f, Len(u) - g) /\ Is(L, Len(ThinkEnd))
  BY DEF Is
<1>1. L \in Nat \ {0} /\ Len(u) \in Nat /\ Len(w) \in Nat
  BY <1>0, ThinkEndIs DEF AnyText, Is
<1>2. /\ h \in Nat /\ k \in 0..Len(w)
      /\ h > 0 => h - 1 \in 0..Len(w) /\ h + L - 1 \in 0..Len(w)
  BY <1>0, CutsOf DEF Is
<1>3. g \in Int
  <2>1. g \in 0..Len(w)
    BY <1>0, ThinkEndIs, HeldIs DEF AnyText, Is
  <2> QED
    BY <1>1, <2>1
<1>4. (e = IF h = 0 THEN 0 ELSE n + h) /\ f = n + k
  BY <1>0, <1>1, <1>3 DEF Is, RestOf
<1>5. \A j \in 0..Len(w) : /\ (re \o x) \o Take(w, j) = re \o Take(u, n + j)
                            /\ Drop(w, j) = Drop(u, n + j)
  <2>1. ASSUME NEW j \in 0..Len(w)
        PROVE  (re \o x) \o Take(w, j) = re \o Take(u, n + j) /\ Drop(w, j) = Drop(u, n + j)
    <3>0. x \o Take(w, j) = Take(u, n + j) /\ Drop(w, j) = Drop(u, n + j)
      BY DEF RestOf
    <3>1. PICK y \in AnyText : Is(y, Take(w, j))
      BY TakeIs DEF AnyText, Is
    <3>2. (re \o x) \o y = re \o (x \o y)
      <4>1. \A v \in AnyText : \A w2 \in AnyText : (re \o v) \o w2 = re \o (v \o w2)
        BY JoinInAnyOrder
      <4>2. \A w2 \in AnyText : (re \o x) \o w2 = re \o (x \o w2)
        BY <4>1
      <4> QED
        BY <4>2
    <3> QED
      BY <3>0, <3>1, <3>2 DEF Is
  <2> QED
    BY <2>1
<1>61. Split(TRUE, w, co, re \o x, ca)
         = IF h > 0 THEN Staged(FALSE, <<>>, co \o Drop(w, h + L - 1),
                                (re \o x) \o Take(w, h - 1), ca)
           ELSE Staged(TRUE, Drop(w, k), co, (re \o x) \o Take(w, k), ca)
  BY <1>0 DEF Split, Is
<1>62. Is(g, Held(u, {ThinkEnd}))
  BY <1>0 DEF RestOf, Is
<1>63. Split(TRUE, u, co, re, ca)
         = IF e > 0 THEN Staged(FALSE, <<>>, co \o Drop(u, e + L - 1), re \o Take(u, e - 1), ca)
           ELSE Staged(TRUE, Drop(u, f), co, re \o Take(u, f), ca)
  BY <1>0, <1>62 DEF Split, Is
<1>7. CASE h > 0
  <2>1. e > 0 /\ e - 1 = n + (h - 1) /\ e + L - 1 = n + (h + L - 1)
    BY <1>1, <1>2, <1>4, <1>7
  <2>2. (re \o x) \o Take(w, h - 1) = re \o Take(u, e - 1)
        /\ Drop(w, h + L - 1) = Drop(u, e + L - 1)
    BY <1>2, <1>5, <1>7, <2>1
  <2> QED
    BY <1>61, <1>63, <1>7, <2>1, <2>2
<1>9. h > 0 \/ h = 0
  BY <1>2
<1>8. CASE h = 0
  <2>1. ~(e > 0) /\ ~(h > 0)
    BY <1>4, <1>8
  <2>2. (re \o x) \o Take(w, k) = re \o Take(u, f) /\ Drop(w, k) = Drop(u, f)
    BY <1>2, <1>4, <1>5
  <2> QED
    BY <1>61, <1>63, <2>1, <2>2
<1> QED
  BY <1>7, <1>8, <1>9

\* The rest and the whole, when nothing was found yet.
LEMMA SplitBehindCut ==
  \A all \in AnyText : Find(all, {ThinkEnd}) = 0 =>
    \A n \in 0..Len(all) : Is(n, Len(all) - Held(all, {ThinkEnd})) =>
      \A b \in AnyText : \A co \in AnyText, re \in AnyText, ca \in Seq(AnyText) :
        Split(TRUE, Drop(all, n) \o b, co, re \o Take(all, n), ca)
          = Split(TRUE, all \o b, co, re, ca)
<1> SUFFICES ASSUME NEW all \in AnyText, Find(all, {ThinkEnd}) = 0,
                    NEW n \in 0..Len(all), Is(n, Len(all) - Held(all, {ThinkEnd})),
                    NEW b \in AnyText, NEW co \in AnyText, NEW re \in AnyText,
                    NEW ca \in Seq(AnyText)
             PROVE  Split(TRUE, Drop(all, n) \o b, co, re \o Take(all, n), ca)
                      = Split(TRUE, all \o b, co, re, ca)
  OBVIOUS
<1>0. PICK u \in AnyText : Is(u, all \o b)
  BY JoinTexts DEF Is
<1>1. {ThinkEnd} \in AnyMarkers /\ n \in Nat
  BY ThinkEndIs DEF AnyMarkers, AnyText
<1>2. PICK x \in AnyText : Is(x, Take(all, n))
  BY TakeIs DEF AnyText, Is
<1>3. n \in 0..Len(u) /\ Is(x, Take(u, n)) /\ Is(Drop(u, n), Drop(all, n) \o b)
  <2>1. /\ n \in 0..Len(all \o b) /\ Take(all \o b, n) = Take(all, n)
        /\ Drop(all \o b, n) = Drop(all, n) \o b
    BY CutText
  <2> QED
    BY <1>0, <1>2, <2>1 DEF Is
<1>4. PICK w \in AnyText : Is(w, Drop(u, n)) /\ Len(w) = Len(u) - n
  BY <1>3, DropIs DEF AnyText, Is
<1>5. Is(w, Drop(all, n) \o b)
  BY <1>3, <1>4 DEF Is
<1>6. /\ Find(u, {ThinkEnd}) = IF Find(w, {ThinkEnd}) = 0 THEN 0 ELSE n + Find(w, {ThinkEnd})
      /\ Held(u, {ThinkEnd}) = Held(w, {ThinkEnd})
  <2>1. n = Len(all) - Held(all, {ThinkEnd})
    BY DEF Is
  <2>2. /\ Find(all \o b, {ThinkEnd}) = IF Find(Drop(all, n) \o b, {ThinkEnd}) = 0 THEN 0
                                        ELSE n + Find(Drop(all, n) \o b, {ThinkEnd})
        /\ Held(all \o b, {ThinkEnd}) = Held(Drop(all, n) \o b, {ThinkEnd})
    BY <1>1, <2>1, TextBehindCut
  <2> QED
    BY <1>0, <1>5, <2>2 DEF Is
<1>8. \A j \in 0..Len(w) : x \o Take(w, j) = Take(u, n + j) /\ Drop(w, j) = Drop(u, n + j)
  <2>1. \A j \in 0..(Len(u) - n) : Take(u, n) \o Take(Drop(u, n), j) = Take(u, n + j)
                                  /\ Drop(Drop(u, n), j) = Drop(u, n + j)
    BY <1>3, CutTwice
  <2>2. x = Take(u, n) /\ w = Drop(u, n)
    BY <1>3, <1>4 DEF Is
  <2> QED
    BY <1>4, <2>1, <2>2
<1>9. RestOf(u, w, x, n)
  BY <1>4, <1>6, <1>8 DEF RestOf
<1>10. Split(TRUE, w, co, re \o x, ca) = Split(TRUE, u, co, re, ca)
  <2>1. \A c \in AnyText, r \in AnyText, k \in Seq(AnyText) :
          Split(TRUE, w, c, r \o x, k) = Split(TRUE, u, c, r, k)
    <3>1. \A v \in AnyText : \A y \in AnyText : \A m \in Nat : RestOf(u, v, y, m) =>
            \A c \in AnyText, r \in AnyText, k \in Seq(AnyText) :
              Split(TRUE, v, c, r \o y, k) = Split(TRUE, u, c, r, k)
      BY SplitRest
    <3>2. \A y \in AnyText : \A m \in Nat : RestOf(u, w, y, m) =>
            \A c \in AnyText, r \in AnyText, k \in Seq(AnyText) :
              Split(TRUE, w, c, r \o y, k) = Split(TRUE, u, c, r, k)
      BY <3>1
    <3>3. \A m \in Nat : RestOf(u, w, x, m) =>
            \A c \in AnyText, r \in AnyText, k \in Seq(AnyText) :
              Split(TRUE, w, c, r \o x, k) = Split(TRUE, u, c, r, k)
      BY <3>2
    <3> QED
      BY <1>1, <1>9, <3>3
  <2> QED
    BY <2>1
<1> QED
  BY <1>0, <1>2, <1>5, <1>10 DEF Is

\* A marker found stays the first one, and what is cut off there goes on.
LEMMA SplitAtMarker ==
  \A all \in AnyText, h \in Nat : Is(h, Find(all, {ThinkEnd})) => (h > 0 =>
    \A b \in AnyText : \A co \in AnyText, re \in AnyText, ca \in Seq(AnyText) :
      Split(TRUE, all \o b, co, re, ca)
        = Staged(FALSE, <<>>, co \o (Drop(all, h + Len(ThinkEnd) - 1) \o b),
                 re \o Take(all, h - 1), ca))
<1> SUFFICES ASSUME NEW all \in AnyText, NEW h \in Nat,
                    Is(h, Find(all, {ThinkEnd})), h > 0, NEW b \in AnyText,
                    NEW co \in AnyText, NEW re \in AnyText, NEW ca \in Seq(AnyText)
             PROVE  Split(TRUE, all \o b, co, re, ca)
                      = Staged(FALSE, <<>>, co \o (Drop(all, h + Len(ThinkEnd) - 1) \o b),
                               re \o Take(all, h - 1), ca)
  OBVIOUS
<1>0. PICK u, x, y : Is(u, all \o b) /\ Is(x, h - 1) /\ Is(y, h + Len(ThinkEnd) - 1)
  BY DEF Is
<1>1. x \in 0..Len(all) /\ y \in 0..Len(all) /\ h \in Nat
  BY <1>0, CutsOf DEF Is
<1>2. Find(u, {ThinkEnd}) = h
  <2>1. Apart({ThinkEnd}) /\ {ThinkEnd} \in SUBSET MarkerTexts(Alphabet) /\ h # 0
    BY <1>1, ThinkEndIs
  <2>2. Find(all, {ThinkEnd}) # 0
    BY <2>1 DEF Is
  <2>3. Find(all \o b, {ThinkEnd}) = Find(all, {ThinkEnd})
    BY <2>1, <2>2, FoundStays DEF AnyText
  <2> QED
    BY <1>0, <2>3 DEF Is
<1>3. Split(TRUE, u, co, re, ca)
        = Staged(FALSE, <<>>, co \o Drop(u, y), re \o Take(u, x), ca)
  BY <1>0, <1>2 DEF Split, Is
<1>4. Take(u, x) = Take(all, x) /\ Drop(u, y) = Drop(all, y) \o b
  <2>1. ASSUME NEW k \in 0..Len(all)
        PROVE  Take(all \o b, k) = Take(all, k) /\ Drop(all \o b, k) = Drop(all, k) \o b
    BY CutText
  <2> QED
    BY <1>0, <1>1, <2>1 DEF Is
<1> QED
  BY <1>0, <1>3, <1>4 DEF Is

\* Text in two pieces is text in one.
LEMMA SplitTwice ==
  ASSUME NEW sr, Ready(sr), NEW a \in AnyText, NEW b \in AnyText
  PROVE  SplitText(SplitText(sr, a), b) = SplitText(sr, a \o b)
<1>1. PICK th \in BOOLEAN : \E pe, co, re \in AnyText : \E ca \in Seq(AnyText) :
        sr = Staged(th, pe, co, re, ca)
  BY StageIs DEF Ready
<1>2. PICK pe \in AnyText, co \in AnyText, re \in AnyText : \E ca \in Seq(AnyText) :
        sr = Staged(th, pe, co, re, ca)
  BY <1>1
<1>3. PICK ca \in Seq(AnyText) : sr = Staged(th, pe, co, re, ca)
  BY <1>2
<1>4. PICK all \in AnyText : Is(all, pe \o a)
  BY ConcatProperties DEF AnyText, Is
<1>5. PICK u \in AnyText : Is(u, all \o b)
  BY ConcatProperties DEF AnyText, Is
<1>6. /\ <<>> \in AnyText
      /\ \A x \in AnyText : <<>> \o x = x
      /\ \A x, y \in AnyText : x \o y \in AnyText
      /\ \A x, y, z \in AnyText : (x \o y) \o z = x \o (y \o z)
  BY JoinTexts, JoinInAnyOrder, JoinNothing
<1>7. a \o b \in AnyText /\ u = pe \o (a \o b)
  <2>1. (pe \o a) \o b = pe \o (a \o b)
    <3>1. \A v \in AnyText : \A w \in AnyText : (pe \o v) \o w = pe \o (v \o w)
      BY JoinInAnyOrder
    <3>2. \A w \in AnyText : (pe \o a) \o w = pe \o (a \o w)
      BY <3>1
    <3> QED
      BY <3>2
  <2> QED
    BY <1>4, <1>5, <2>1, JoinTexts DEF Is
<1>8. SplitText(sr, a) = Split(th, all, co, re, ca) /\ SplitText(sr, a \o b) = Split(th, u, co, re, ca)
  <2>1. \A x \in AnyText : SplitText(sr, x) = Split(th, pe \o x, co, re, ca)
    BY <1>3, SplitTextIs
  <2> QED
    BY <1>4, <1>7, <2>1 DEF Is
<1>9. \A t \in BOOLEAN : \A p, c, r \in AnyText :
        SplitText(Staged(t, p, c, r, ca), b) = Split(t, p \o b, c, r, ca)
  BY SplitTextIs
<1>10. PICK h, n : Is(h, Find(all, {ThinkEnd})) /\ Is(n, Len(all) - Held(all, {ThinkEnd}))
  BY DEF Is
<1>11. /\ h \in Nat /\ n \in 0..Len(all)
       /\ Take(all, n) \in AnyText /\ Drop(all, n) \in AnyText
       /\ h > 0 => Take(all, h - 1) \in AnyText /\ Drop(all, h + Len(ThinkEnd) - 1) \in AnyText
  BY <1>10, CutsOf DEF Is
<1>12. CASE ~th
  <2>1. SplitText(sr, a) = Staged(FALSE, <<>>, co \o all, re, ca)
    BY <1>8, <1>12 DEF Split
  <2>2. SplitText(SplitText(sr, a), b) = Split(FALSE, <<>> \o b, co \o all, re, ca)
    BY <1>6, <1>9, <2>1
  <2>3. Split(FALSE, <<>> \o b, co \o all, re, ca) = Staged(FALSE, <<>>, (co \o all) \o b, re, ca)
    BY <1>6 DEF Split
  <2>4. Split(th, u, co, re, ca) = Staged(FALSE, <<>>, co \o u, re, ca)
    BY <1>12 DEF Split
  <2>5. (co \o all) \o b = co \o u
    <3>1. (co \o all) \o b = co \o (all \o b)
      <4>1. \A v \in AnyText : \A w \in AnyText : (co \o v) \o w = co \o (v \o w)
        BY JoinInAnyOrder
      <4>2. \A w \in AnyText : (co \o all) \o w = co \o (all \o w)
        BY <4>1
      <4> QED
        BY <4>2
    <3> QED
      BY <1>5, <3>1 DEF Is
  <2> QED
    BY <1>8, <2>2, <2>3, <2>4, <2>5
<1>13. CASE th /\ h > 0
  <2>1. PICK x \in AnyText, y \in AnyText :
          Is(x, Take(all, h - 1)) /\ Is(y, Drop(all, h + Len(ThinkEnd) - 1))
    BY <1>11, <1>13 DEF Is
  <2>2. SplitText(sr, a) = Staged(FALSE, <<>>, co \o y, re \o x, ca)
    BY <1>8, <1>10, <1>13, <2>1 DEF Split, Is
  <2>3. Split(TRUE, u, co, re, ca) = Staged(FALSE, <<>>, co \o (y \o b), re \o x, ca)
    <3>1. Split(TRUE, all \o b, co, re, ca)
            = Staged(FALSE, <<>>, co \o (Drop(all, h + Len(ThinkEnd) - 1) \o b),
                     re \o Take(all, h - 1), ca)
      <4>1. Is(h, Find(all, {ThinkEnd})) /\ h > 0 /\ h \in Nat
        BY <1>10, <1>11, <1>13
      <4> QED
        <5>1. \A v \in AnyText : \A c \in AnyText, r \in AnyText, k \in Seq(AnyText) :
                Split(TRUE, all \o v, c, r, k)
                  = Staged(FALSE, <<>>, c \o (Drop(all, h + Len(ThinkEnd) - 1) \o v),
                           r \o Take(all, h - 1), k)
          BY <4>1, SplitAtMarker
        <5>2. \A c \in AnyText, r \in AnyText, k \in Seq(AnyText) :
                Split(TRUE, all \o b, c, r, k)
                  = Staged(FALSE, <<>>, c \o (Drop(all, h + Len(ThinkEnd) - 1) \o b),
                           r \o Take(all, h - 1), k)
          BY <5>1
        <5> QED
          BY <5>2
    <3> QED
      BY <1>5, <2>1, <3>1 DEF Is
  <2>4. SplitText(SplitText(sr, a), b) = Split(FALSE, <<>> \o b, co \o y, re \o x, ca)
    BY <1>6, <1>9, <2>2
  <2>5. Split(FALSE, <<>> \o b, co \o y, re \o x, ca)
          = Staged(FALSE, <<>>, (co \o y) \o b, re \o x, ca)
    BY <1>6 DEF Split
  <2>6. (co \o y) \o b = co \o (y \o b)
    <3>1. \A v \in AnyText : \A w \in AnyText : (co \o v) \o w = co \o (v \o w)
      BY JoinInAnyOrder
    <3>2. \A w \in AnyText : (co \o y) \o w = co \o (y \o w)
      BY <3>1
    <3> QED
      BY <3>2
  <2>7. th = TRUE
    BY <1>13
  <2> QED
    BY <1>8, <2>3, <2>4, <2>5, <2>6, <2>7
<1>14. CASE th /\ h = 0
  <2>1. PICK x \in AnyText, y \in AnyText : Is(x, Take(all, n)) /\ Is(y, Drop(all, n))
    BY <1>11 DEF Is
  <2>2. SplitText(sr, a) = Staged(TRUE, y, co, re \o x, ca)
    BY <1>8, <1>10, <1>14, <2>1 DEF Split, Is
  <2>3. SplitText(SplitText(sr, a), b) = Split(TRUE, y \o b, co, re \o x, ca)
    BY <1>6, <1>9, <2>2, ZenonT(30)
  <2>4. Split(TRUE, y \o b, co, re \o x, ca) = Split(TRUE, u, co, re, ca)
    <3>1. Find(all, {ThinkEnd}) = 0
      BY <1>10, <1>14 DEF Is
    <3>2. Split(TRUE, Drop(all, n) \o b, co, re \o Take(all, n), ca)
            = Split(TRUE, all \o b, co, re, ca)
      <4>1. \A v \in AnyText : \A c \in AnyText, r \in AnyText, k \in Seq(AnyText) :
              Split(TRUE, Drop(all, n) \o v, c, r \o Take(all, n), k)
                = Split(TRUE, all \o v, c, r, k)
        BY <1>10, <1>11, <3>1, SplitBehindCut, ZenonT(30)
      <4>2. \A c \in AnyText, r \in AnyText, k \in Seq(AnyText) :
              Split(TRUE, Drop(all, n) \o b, c, r \o Take(all, n), k)
                = Split(TRUE, all \o b, c, r, k)
        BY <4>1
      <4> QED
        BY <4>2
    <3> QED
      BY <1>5, <2>1, <3>2 DEF Is
  <2>5. th = TRUE
    BY <1>14
  <2> QED
    BY <1>8, <2>3, <2>4, <2>5
<1>15. h > 0 \/ h = 0
  BY <1>11
<1> QED
  BY <1>12, <1>13, <1>14, <1>15

----------------------------------------------------------------------------
\* The state, part by part, and the stop filter's theorem.

\* The state, part by part.
Whole(s, p, sp, r, v) ==
  [stop |-> s, parser |-> p, splitter |-> sp, reply |-> r, visible |-> v]

\* What the parser p gives out, routed.
Sorted(sp, r, p) == Route([splitter |-> sp, reply |-> r], p.events)

\* The parser p without what it gave out; the filter s without what it held; and
\* the state st once the text x is let through.
Quiet(p) == [p EXCEPT !.events = <<>>]
Emptied(s) == [s EXCEPT !.pending = <<>>]
Shown(st, x) == [st EXCEPT !.visible = @ \o x]
Filtered(st, x) == [st EXCEPT !.stop = x]

\* The state is the record of its parts.
LEMMA WholeIs ==
  ASSUME NEW s, NEW p, NEW sp, NEW r, NEW v, NEW x
  PROVE  /\ Whole(s, p, sp, r, v).stop = s
         /\ Whole(s, p, sp, r, v).parser = p
         /\ Whole(s, p, sp, r, v).splitter = sp
         /\ Whole(s, p, sp, r, v).reply = r
         /\ Whole(s, p, sp, r, v).visible = v
         /\ Filtered(Whole(s, p, sp, r, v), x) = Whole(x, p, sp, r, v)
         /\ Shown(Whole(s, p, sp, r, v), x) = Whole(s, p, sp, r, v \o x)
<1>1. [Whole(s, p, sp, r, v) EXCEPT !.stop = x] = Whole(x, p, sp, r, v)
  BY DEF Whole
<1>2. [Whole(s, p, sp, r, v) EXCEPT !.visible = @ \o x] = Whole(s, p, sp, r, v \o x)
  BY SMTT(30) DEF Whole
<1> QED
  BY <1>1, <1>2 DEF Whole, Filtered, Shown

\* The parts of a state are what it was made of.
LEMMA PartsAre ==
  ASSUME NEW s, NEW p, NEW sp, NEW r, NEW v
  PROVE  /\ Whole(s, p, sp, r, v).stop = s
         /\ Whole(s, p, sp, r, v).parser = p
         /\ Whole(s, p, sp, r, v).splitter = sp
         /\ Whole(s, p, sp, r, v).reply = r
         /\ Whole(s, p, sp, r, v).visible = v
<1> QED
  BY DEF Whole

\* Routing changes the parser's events, the splitter and the reply only.
LEMMA RoutedIs ==
  ASSUME NEW s, NEW p, NEW sp, NEW r, NEW v, NEW q
  PROVE  Routed(Whole(s, p, sp, r, v), q)
           = Whole(s, Quiet(q), Sorted(sp, r, q).splitter, Sorted(sp, r, q).reply, v)
<1> QED
  BY DEF Whole, Routed, Sorted, Quiet

\* The state without what the splitter held.
LEMMA FlushedIs ==
  ASSUME NEW s, NEW p, NEW sp, NEW r, NEW v
  PROVE  Flushed(Whole(s, p, sp, r, v))
           = Whole(s, p, SplitFlush([splitter |-> sp, reply |-> r]).splitter,
                   SplitFlush([splitter |-> sp, reply |-> r]).reply, v)
<1> QED
  BY DEF Whole, Flushed

\* What a chunk makes of each part of the state.
LEMMA PushIs ==
  ASSUME NEW o, NEW s, NEW p, NEW sp, NEW r, NEW v, NEW chunk
  PROVE  LET f == StopPush(s, chunk)
             q == ParserPush(o, p, f.out)
         IN  DoPush(o, Whole(s, p, sp, r, v), chunk) =
               IF s.stopped THEN Whole(s, p, sp, r, v)
               ELSE Whole(f.stop, Quiet(q), Sorted(sp, r, q).splitter,
                          Sorted(sp, r, q).reply, v \o f.out)
<1> DEFINE f == StopPush(s, chunk)
           q == ParserPush(o, p, f.out)
           at == Whole(f.stop, p, sp, r, v)
<1>1. /\ Whole(s, p, sp, r, v).stop = s
      /\ Filtered(Whole(s, p, sp, r, v), f.stop) = at
      /\ at.parser = p
  <2>1. \A x : /\ Whole(s, p, sp, r, v).stop = s
               /\ Filtered(Whole(s, p, sp, r, v), x) = Whole(x, p, sp, r, v)
               /\ Whole(x, p, sp, r, v).parser = p
    BY WholeIs
  <2> QED
    BY <2>1
<1>2. DoPush(o, Whole(s, p, sp, r, v), chunk)
        = IF s.stopped THEN Whole(s, p, sp, r, v) ELSE ProcessVisible(o, at, f.out)
  BY <1>1 DEF DoPush, Filtered
<1>3. ProcessVisible(o, at, f.out) = Shown(Routed(at, q), f.out)
  BY <1>1 DEF ProcessVisible, Shown
<1>4. \A x, y : Routed(Whole(x, p, sp, r, v), y)
                  = Whole(x, Quiet(y), Sorted(sp, r, y).splitter,
                          Sorted(sp, r, y).reply, v)
  BY RoutedIs
<1>5. \A a, b, c, d, x : Shown(Whole(a, b, c, d, v), x)
                           = Whole(a, b, c, d, v \o x)
  BY WholeIs
<1> HIDE DEF f, q
<1>6. Routed(at, q) = Whole(f.stop, Quiet(q), Sorted(sp, r, q).splitter,
                            Sorted(sp, r, q).reply, v)
  BY <1>4
<1>7. ProcessVisible(o, at, f.out)
        = Whole(f.stop, Quiet(q), Sorted(sp, r, q).splitter,
                Sorted(sp, r, q).reply, v \o f.out)
  BY <1>3, <1>5, <1>6
<1> QED
  BY <1>2, <1>7 DEF f, q

\* What the end of the answer makes of the parts.
LEMMA FinishIs ==
  ASSUME NEW o, NEW s, NEW p, NEW sp, NEW r, NEW v
  PROVE  LET q  == ParserPush(o, p, s.pending)
             q1 == Quiet(q)
             sr == Sorted(sp, r, q)
             q2 == ParserFinish(o, q1)
             to == Sorted(sr.splitter, sr.reply, q2)
             fl == SplitFlush([splitter |-> to.splitter, reply |-> to.reply])
             w  == v \o s.pending
         IN  DoFinish(o, Whole(s, p, sp, r, v)) =
               IF p.failed THEN Whole(s, p, sp, r, v)
               ELSE IF q1.failed THEN Whole(Emptied(s), q1, sr.splitter, sr.reply, w)
               ELSE IF Quiet(q2).failed THEN Whole(Emptied(s), Quiet(q2), to.splitter, to.reply, w)
               ELSE Whole(Emptied(s), Quiet(q2), fl.splitter, fl.reply, w)
<1> DEFINE q  == ParserPush(o, p, s.pending)
           q1 == Quiet(q)
           sr == Sorted(sp, r, q)
           q2 == ParserFinish(o, q1)
           to == Sorted(sr.splitter, sr.reply, q2)
           fl == SplitFlush([splitter |-> to.splitter, reply |-> to.reply])
           st == Whole(s, p, sp, r, v)
           e  == Emptied(s)
           at == Whole(e, p, sp, r, v)
           w  == v \o s.pending
           mid == Whole(e, q1, sr.splitter, sr.reply, w)
           end == Whole(e, Quiet(q2), to.splitter, to.reply, w)
<1>1. st.stop = s /\ st.parser = p /\ [st EXCEPT !.stop.pending = <<>>] = at /\ at.parser = p
  BY DEF Whole, Emptied
<1>2. DoFinish(o, st) = IF p.failed THEN st ELSE EndParser(o, ProcessVisible(o, at, s.pending))
  <2> HIDE DEF st, at
  <2> QED
    BY <1>1 DEF DoFinish
<1>3. \A x, y, a, b, c : Routed(Whole(x, y, a, b, c), q)
                  = Whole(x, Quiet(q), Sorted(a, b, q).splitter,
                          Sorted(a, b, q).reply, c)
  BY RoutedIs
<1>4. \A x, y, a, b, c : Routed(Whole(x, y, a, b, c), q2)
                  = Whole(x, Quiet(q2), Sorted(a, b, q2).splitter,
                          Sorted(a, b, q2).reply, c)
  BY RoutedIs
<1>5. \A a, b, c, d, x, y : Shown(Whole(a, b, c, d, y), x)
                           = Whole(a, b, c, d, y \o x)
  BY WholeIs
<1>6. ProcessVisible(o, at, s.pending) = mid
  <2>1. ProcessVisible(o, at, s.pending) = Shown(Routed(at, q), s.pending)
    BY <1>1 DEF ProcessVisible, Shown
  <2> HIDE DEF q, e
  <2>2. Routed(at, q) = Whole(e, q1, sr.splitter, sr.reply, v)
    BY <1>3
  <2> HIDE DEF q1, sr
  <2> QED
    BY <1>5, <2>1, <2>2
<1>7. mid.parser = q1
  <2> HIDE DEF q1, sr, e, w
  <2> QED
    BY WholeIs
<1>8. Routed(mid, q2) = end
  <2> HIDE DEF q2, q1, sr, e, w
  <2> QED
    BY <1>4
<1>9. end.parser = Quiet(q2)
  <2> HIDE DEF q2, to, e, w
  <2> QED
    BY WholeIs
<1>10. Flushed(end) = Whole(e, Quiet(q2), fl.splitter, fl.reply, w)
  <2> HIDE DEF q2, q1, sr, e, w, to
  <2> QED
    BY FlushedIs
<1> DEFINE q3 == Quiet(q2)
           ff == Whole(e, q3, fl.splitter, fl.reply, w)
<1>11. EndParser(o, mid) = IF q1.failed THEN mid ELSE IF q3.failed THEN end ELSE ff
  <2> DEFINE ended == Routed(mid, ParserFinish(o, mid.parser))
  <2>1. ended = end
    BY <1>7, <1>8
  <2>2. ended.parser = q3
    BY <1>9, <2>1
  <2>3. Flushed(ended) = ff
    BY <1>10, <2>1
  <2>4. EndParser(o, mid) = CASE mid.parser.failed                         -> mid
                              [] ~mid.parser.failed /\ ended.parser.failed  -> ended
                              [] ~mid.parser.failed /\ ~ended.parser.failed -> Flushed(ended)
    BY DEF EndParser
  <2> HIDE DEF ended, mid, q1, q3, end, ff
  <2> QED
    BY <1>7, <2>1, <2>2, <2>3, <2>4
<1> HIDE DEF st, at
<1>12. DoFinish(o, st) = IF p.failed THEN st
         ELSE IF q1.failed THEN mid ELSE IF q3.failed THEN end ELSE ff
  <2> HIDE DEF mid, q1, q3, end, ff
  <2> QED
    BY <1>2, <1>6, <1>11
<1> QED
  BY <1>12 DEF st, mid, end, ff, q3

\* Text lets through what the filter does.
LEMMA PushFilters ==
  ASSUME NEW o, NEW s, NEW p, NEW sp, NEW r, NEW v, NEW chunk, ~s.stopped
  PROVE  /\ DoPush(o, Whole(s, p, sp, r, v), chunk).stop = StopPush(s, chunk).stop
         /\ DoPush(o, Whole(s, p, sp, r, v), chunk).visible = v \o StopPush(s, chunk).out
<1> DEFINE f == StopPush(s, chunk)
           q == ParserPush(o, p, f.out)
           sr == Sorted(sp, r, q)
           fs == f.stop
           w == v \o f.out
           q1 == Quiet(q)
           st == DoPush(o, Whole(s, p, sp, r, v), chunk)
<1>1. st = Whole(fs, q1, sr.splitter, sr.reply, w)
  BY PushIs
<1> HIDE DEF f, q, sr, fs, w, q1, st
<1>2. st.stop = fs /\ st.visible = w
  BY <1>1, PartsAre
<1> QED
  BY <1>2 DEF f, fs, w, st

\* The end of the answer lets through what the filter held, unless the answer
\* has failed.
LEMMA FinishEmpties ==
  ASSUME NEW o, NEW s, NEW p, NEW sp, NEW r, NEW v
  PROVE  LET fin == DoFinish(o, Whole(s, p, sp, r, v))
         IN  /\ p.failed => fin.stop = s /\ fin.visible = v /\ fin.parser.failed
             /\ ~p.failed => fin.stop = Emptied(s) /\ fin.visible = v \o s.pending
<1> DEFINE q  == ParserPush(o, p, s.pending)
           q1 == Quiet(q)
           sr == Sorted(sp, r, q)
           q2 == ParserFinish(o, q1)
           q3 == Quiet(q2)
           to == Sorted(sr.splitter, sr.reply, q2)
           fl == SplitFlush([splitter |-> to.splitter, reply |-> to.reply])
           e  == Emptied(s)
           w  == v \o s.pending
           fin == DoFinish(o, Whole(s, p, sp, r, v))
<1>1. fin = IF p.failed THEN Whole(s, p, sp, r, v)
            ELSE IF q1.failed THEN Whole(e, q1, sr.splitter, sr.reply, w)
            ELSE IF q3.failed THEN Whole(e, q3, to.splitter, to.reply, w)
            ELSE Whole(e, q3, fl.splitter, fl.reply, w)
  BY FinishIs
<1> HIDE DEF fin, q, q1, sr, q2, q3, to, fl, e, w
<1>2. CASE p.failed
  <2>1. fin.stop = s /\ fin.visible = v /\ fin.parser = p
    BY <1>1, <1>2, PartsAre
  <2> QED
    BY <1>2, <2>1 DEF fin
<1>3. CASE ~p.failed
  <2>1. fin.stop = e /\ fin.visible = w
    BY <1>1, <1>3, PartsAre
  <2> QED
    BY <1>3, <2>1 DEF fin, e, w
<1> QED
  BY <1>2, <1>3

\* All the filter s read of r was let through, up to a stop sequence.
AllRead(o, s, v, r) ==
  /\ s.stopped \in BOOLEAN
  /\ s.stopped => Find(r, o.stops) > 0 /\ v = Take(r, Find(r, o.stops) - 1)
  /\ ~s.stopped => Find(r, o.stops) = 0 /\ v = r

\* The inductive invariant behind StopNeverLeaks.
StopInv ==
  /\ options \in Options /\ raw \in AnyText
  /\ \/ status # "finished" /\ StopHolds(options, stop, visible, raw)
     \/ status # "open" /\ AllRead(options, stop, visible, raw)

\* The types of a request's options and of its chunks.
LEMMA StopsOf ==
  ASSUME NEW o \in Options
  PROVE  /\ o.stops \in AnyMarkers
         /\ o.stops \in SUBSET MarkerTexts(Alphabet)
         /\ o.stops \in SUBSET Seq(Alphabet)
         /\ \A c \in Chunks(o) : c \in AnyText
         /\ o.tools \in BOOLEAN /\ o.thinking \in BOOLEAN
         /\ o.required \in BOOLEAN /\ o.parallel \in BOOLEAN
<1> QED
  BY OptionsAssumption DEF AnyMarkers, MarkerTexts, AnyText

\* The filter of a new answer has read nothing.
LEMMA NewStopHolds ==
  ASSUME NEW o \in Options
  PROVE  StopHolds(o, NewStop(o), <<>>, <<>>)
<1> DEFINE M == o.stops
<1>1. <<>> \in Seq(Alphabet) /\ Len(<<>>) = 0
  BY EmptySeq
<1>2. M \in SUBSET MarkerTexts(Alphabet) /\ M \in SUBSET Seq(Alphabet)
  BY StopsOf
<1>3. Find(<<>>, M) \in 0..0 /\ Held(<<>>, M) \in 0..0
  BY <1>1, <1>2, FindIs, HeldIs
<1>4. Find(<<>>, M) = 0 /\ Len(<<>>) - Held(<<>>, M) = 0
  BY <1>1, <1>3
<1>5. Take(<<>>, 0) = <<>> /\ Drop(<<>>, 0) = <<>>
  BY <1>1, CutNothing
<1> QED
  BY <1>1, <1>4, <1>5 DEF StopHolds, NewStop, AnyText

\* At the end the filter lets through what it held.
LEMMA EmptiedRead ==
  ASSUME NEW o \in Options, NEW s, NEW v, NEW r, StopHolds(o, s, v, r)
  PROVE  /\ s.pending \in AnyText
         /\ Emptied(s).stopped = s.stopped
         /\ AllRead(o, Emptied(s), v \o s.pending, r)
<1> DEFINE M == o.stops
           n == Len(r) - Held(r, M)
<1>1. /\ s \in [stops : {M}, pending : AnyText, stopped : BOOLEAN] /\ v \in AnyText /\ r \in AnyText
      /\ Emptied(s).stopped = s.stopped /\ s.stopped \in BOOLEAN
  BY DEF StopHolds, Emptied
<1>2. CASE s.stopped
  <2>1. s.pending = <<>> /\ v \o <<>> = v
    BY <1>1, <1>2, ConcatEmptySeq DEF StopHolds, AnyText
  <2>2. Find(r, M) > 0 /\ v = Take(r, Find(r, M) - 1)
    BY <1>2 DEF StopHolds
  <2> QED
    BY <1>1, <1>2, <2>1, <2>2 DEF AllRead
<1>3. CASE ~s.stopped
  <2>1. Find(r, M) = 0 /\ v = Take(r, n) /\ s.pending = Drop(r, n)
    BY <1>3 DEF StopHolds
  <2>2. n \in 0..Len(r)
    <3>1. Held(r, M) \in 0..Len(r) /\ Len(r) \in Nat
      BY <1>1, StopsOf, HeldIs DEF AnyText
    <3> QED
      BY <3>1
  <2> HIDE DEF n
  <2>3. Take(r, n) \o Drop(r, n) = r
    BY <1>1, <2>2, TakeAndDrop DEF AnyText
  <2> QED
    BY <1>1, <1>3, <2>1, <2>3 DEF AllRead
<1> QED
  BY <1>1, <1>2, <1>3

\* What the filter lets through is a beginning of the text without stop
\* sequences.
LEMMA ReadIsClean ==
  ASSUME NEW o \in Options, NEW r \in AnyText, NEW k \in 0..Len(r),
         Find(r, o.stops) = 0 \/ k < Find(r, o.stops)
  PROVE  /\ Len(Take(r, k)) \in 0..Len(r) /\ Take(r, k) = Take(r, Len(Take(r, k)))
         /\ ~HasAny(Take(r, k), o.stops)
<1>1. Len(Take(r, k)) = k
  BY TakeIs DEF AnyText
<1>2. ~HasAny(Take(r, k), o.stops)
  BY StopsOf, NothingBefore DEF AnyText
<1> QED
  BY <1>1, <1>2

\* A new answer has read nothing.
LEMMA StopInvInit == OutputInit => StopInv
<1> SUFFICES ASSUME OutputInit PROVE StopInv
  OBVIOUS
<1>1. <<>> \in AnyText
  BY EmptySeq DEF AnyText
<1> QED
  BY <1>1, NewStopHolds DEF OutputInit, StopInv

\* A chunk keeps what the filter promises.
LEMMA StopInvPush ==
  ASSUME StopInv, NEW chunk \in Chunks(options), Push(chunk)
  PROVE  StopInv'
<1>1. options \in Options /\ raw \in AnyText /\ chunk \in AnyText
  BY StopsOf DEF StopInv
<1>2. StopHolds(options, stop, visible, raw) /\ ~stop.stopped
  BY DEF StopInv, Push
<1> DEFINE f == StopPush(stop, chunk)
<1>3. f.out \in AnyText /\ StopHolds(options, f.stop, visible \o f.out, raw \o chunk)
  BY <1>1, <1>2, StopsOf, StopPushKeeps
<1>4. DoPush(options, State, chunk).stop = f.stop
      /\ DoPush(options, State, chunk).visible = visible \o f.out
  <2>1. State = Whole(stop, parser, splitter, reply, visible)
    BY DEF State, Whole
  <2> QED
    BY <1>2, <2>1, PushFilters
<1>5. /\ options' = options /\ raw' = raw \o chunk /\ stop' = f.stop
      /\ visible' = visible \o f.out /\ status' \in {"open", "failed"}
  BY <1>4 DEF Push, Becomes
<1>6. raw \o chunk \in AnyText
  BY <1>1, ConcatProperties DEF AnyText
<1> HIDE DEF f
<1> QED
  BY <1>1, <1>3, <1>5, <1>6 DEF StopInv

\* The end of the answer lets the rest through, up to a stop sequence.
LEMMA StopInvFinish ==
  ASSUME StopInv, NEW tail \in Chunks(options), Finish(tail)
  PROVE  StopInv'
<1>1. options \in Options /\ raw \in AnyText /\ tail \in AnyText
  BY StopsOf DEF StopInv
<1>2. StopHolds(options, stop, visible, raw) /\ (stop.stopped => tail = <<>>)
  BY DEF StopInv, Finish
<1> DEFINE st == DoPush(options, State, tail)
<1>3. PICK s, p, sp, r, v :
        st = Whole(s, p, sp, r, v) /\ StopHolds(options, s, v, raw \o tail)
  <2>1. State = Whole(stop, parser, splitter, reply, visible)
    BY DEF State, Whole
  <2>2. CASE stop.stopped
    <3>1. st = Whole(stop, parser, splitter, reply, visible)
      BY <2>1, <2>2, PushIs
    <3>2. raw \o tail = raw
      BY <1>1, <1>2, <2>2, ConcatEmptySeq DEF AnyText
    <3> QED
      BY <1>2, <3>1, <3>2
  <2>3. CASE ~stop.stopped
    <3> DEFINE f == StopPush(stop, tail)
               q == ParserPush(options, parser, f.out)
    <3>1. StopHolds(options, f.stop, visible \o f.out, raw \o tail)
      BY <1>1, <1>2, <2>3, StopsOf, StopPushKeeps
    <3>2. st = Whole(f.stop, Quiet(q), Sorted(splitter, reply, q).splitter,
                     Sorted(splitter, reply, q).reply, visible \o f.out)
      BY <2>1, <2>3, PushIs
    <3> HIDE DEF f, q, st
    <3> QED
      BY <3>1, <3>2
  <2> QED
    BY <2>2, <2>3
<1> DEFINE fin == DoFinish(options, Whole(s, p, sp, r, v))
<1>4. /\ p.failed => fin.stop = s /\ fin.visible = v /\ fin.parser.failed
      /\ ~p.failed => fin.stop = Emptied(s) /\ fin.visible = v \o s.pending
  BY FinishEmpties
<1>5. AllRead(options, Emptied(s), v \o s.pending, raw \o tail)
  BY <1>1, <1>3, EmptiedRead
<1>6. fin = DoFinish(options, st)
  BY <1>3
<1>7. raw \o tail \in AnyText
  BY <1>1, ConcatProperties DEF AnyText
<1> HIDE DEF fin
<1>8. /\ options' = options /\ raw' = raw \o tail /\ stop' = fin.stop /\ visible' = fin.visible
      /\ status' = IF fin.parser.failed THEN "failed" ELSE "finished"
  BY <1>6 DEF Finish, Becomes
<1>9. CASE p.failed
  <2>1. stop' = s /\ visible' = v /\ status' = "failed"
    BY <1>4, <1>8, <1>9
  <2>2. StopHolds(options, stop, visible, raw)'
    BY <1>3, <1>8, <2>1 DEF StopHolds
  <2> QED
    BY <1>1, <1>7, <1>8, <2>1, <2>2 DEF StopInv
<1>10. CASE ~p.failed
  <2>1. stop' = Emptied(s) /\ visible' = v \o s.pending /\ status' \in {"finished", "failed"}
    BY <1>4, <1>8, <1>10
  <2> QED
    BY <1>1, <1>5, <1>7, <1>8, <2>1 DEF StopInv
<1> QED
  BY <1>9, <1>10

\* Every step keeps the invariant of the filter.
LEMMA StopInvNext == StopInv /\ [OutputNext]_outputVars => StopInv'
<1> SUFFICES ASSUME StopInv, [OutputNext]_outputVars PROVE StopInv'
  OBVIOUS
<1>1. CASE OutputNext
  <2>1. PICK chunk \in Chunks(options) : Push(chunk) \/ Finish(chunk)
    BY <1>1 DEF OutputNext, Following
  <2> QED
    BY <2>1, StopInvPush, StopInvFinish
<1>2. CASE UNCHANGED outputVars
  BY <1>2 DEF outputVars, StopInv
<1> QED
  BY <1>1, <1>2

\* The invariant says that no stop sequence leaks.
LEMMA StopInvMeans == StopInv => StopNeverLeaks
<1> SUFFICES ASSUME StopInv PROVE StopNeverLeaks
  OBVIOUS
<1> DEFINE M == options.stops
           hit == Find(raw, M)
<1>1. options \in Options /\ raw \in AnyText /\ Len(raw) \in Nat
  BY DEF StopInv, AnyText
<1>2. hit \in 0..Len(raw)
  BY <1>1, StopsOf, FindIs DEF AnyText
<1>3. PICK k \in 0..Len(raw) : visible = Take(raw, k) /\ (hit = 0 \/ k < hit)
  <2>1. CASE StopHolds(options, stop, visible, raw) /\ ~stop.stopped
    <3> DEFINE k == Len(raw) - Held(raw, M)
    <3>1. hit = 0 /\ visible = Take(raw, k)
      BY <2>1 DEF StopHolds
    <3>2. Held(raw, M) \in 0..Len(raw)
      BY <1>1, StopsOf, HeldIs DEF AnyText
    <3>3. k \in 0..Len(raw)
      BY <1>1, <3>2
    <3> QED
      BY <3>1, <3>3
  <2>2. CASE stop.stopped
    <3>1. hit > 0 /\ visible = Take(raw, hit - 1)
      BY <2>2 DEF StopInv, StopHolds, AllRead
    <3>2. hit - 1 \in 0..Len(raw) /\ hit - 1 < hit
      BY <1>1, <1>2, <3>1
    <3> QED
      BY <3>1, <3>2
  <2>3. CASE AllRead(options, stop, visible, raw) /\ ~stop.stopped
    <3>1. hit = 0 /\ visible = raw
      BY <2>3 DEF AllRead
    <3>2. raw = Take(raw, Len(raw)) /\ Len(raw) \in 0..Len(raw)
      BY <1>1, SubSeqFull DEF Take, AnyText
    <3> QED
      BY <3>1, <3>2
  <2> QED
    BY <2>1, <2>2, <2>3 DEF StopInv
<1>4. Len(visible) \in 0..Len(raw) /\ visible = Take(raw, Len(visible)) /\ ~HasAny(visible, M)
  BY <1>1, <1>3, ReadIsClean
<1>5. Len(visible) <= Len(raw)
  BY <1>1, <1>4
<1>6. ASSUME hit > 0 PROVE stop.stopped /\ visible = Take(raw, hit - 1)
  BY <1>6 DEF StopInv, StopHolds, AllRead
<1>7. ASSUME hit = 0, status = "finished" PROVE visible = raw
  BY <1>7 DEF StopInv, AllRead
<1> QED
  BY <1>4, <1>5, <1>6, <1>7 DEF StopNeverLeaks

\* No stop sequence gets past the filter, however chunks cut it, and no text
\* before it is lost: the stop filter in front of parser and splitter.
THEOREM StopsHold == OutputSpec => []StopNeverLeaks
<1>1. OutputSpec => []StopInv
  BY StopInvInit, StopInvNext, PTL DEF OutputSpec
<1> QED
  BY <1>1, StopInvMeans, PTL

----------------------------------------------------------------------------
\* The parser: its parts, and what its turns do to them.

\* What the parser gives out, and what it is made of.
Events == [call : BOOLEAN, text : AnyText]
Parsers == [pending : AnyText, thinking : BOOLEAN, inCall : BOOLEAN, calls : Nat,
            failed : BOOLEAN, events : Seq(Events)]

\* Two parsers with the same parts are one.
LEMMA SameParser ==
  ASSUME NEW p \in Parsers, NEW q \in Parsers,
         p.pending = q.pending, p.thinking = q.thinking, p.inCall = q.inCall,
         p.calls = q.calls, p.failed = q.failed, p.events = q.events
  PROVE  p = q
<1> QED
  BY DEF Parsers

\* The types of a parser's parts.
LEMMA PartsOf ==
  ASSUME NEW p \in Parsers
  PROVE  /\ p.pending \in AnyText /\ p.thinking \in BOOLEAN /\ p.inCall \in BOOLEAN
         /\ p.calls \in Nat /\ p.failed \in BOOLEAN /\ p.events \in Seq(Events)
<1> QED
  BY DEF Parsers

\* The parser p with the text t to read and the events e given out.
Reading(p, t, e) == [p EXCEPT !.pending = t, !.events = e]

\* The parts of a parser that reads other text.
LEMMA ReadingIs ==
  ASSUME NEW p \in Parsers, NEW t \in AnyText, NEW e \in Seq(Events)
  PROVE  /\ Reading(p, t, e) \in Parsers
         /\ Reading(p, t, e).pending = t /\ Reading(p, t, e).events = e
         /\ Reading(p, t, e).thinking = p.thinking /\ Reading(p, t, e).inCall = p.inCall
         /\ Reading(p, t, e).calls = p.calls /\ Reading(p, t, e).failed = p.failed
<1> QED
  BY DEF Parsers, Reading

\* The parser p thinking or not; in a call; failed.
Thinks(p, b) == [p EXCEPT !.thinking = b]
Enters(p, t) == [p EXCEPT !.inCall = TRUE, !.pending = t]

\* The parts of a parser that enters or leaves reasoning.
LEMMA ThinksIs ==
  ASSUME NEW p \in Parsers, NEW b \in BOOLEAN
  PROVE  /\ Thinks(p, b) \in Parsers
         /\ Thinks(p, b).pending = p.pending /\ Thinks(p, b).events = p.events
         /\ Thinks(p, b).thinking = b /\ Thinks(p, b).inCall = p.inCall
         /\ Thinks(p, b).calls = p.calls /\ Thinks(p, b).failed = p.failed
<1> QED
  BY DEF Parsers, Thinks

\* The parts of a parser that enters a call.
LEMMA EntersIs ==
  ASSUME NEW p \in Parsers, NEW t \in AnyText
  PROVE  /\ Enters(p, t) \in Parsers
         /\ Enters(p, t).pending = t /\ Enters(p, t).events = p.events
         /\ Enters(p, t).thinking = p.thinking /\ Enters(p, t).inCall = TRUE
         /\ Enters(p, t).calls = p.calls /\ Enters(p, t).failed = p.failed
<1> QED
  BY DEF Parsers, Enters

\* The parts of a parser that failed.
LEMMA FailIs ==
  ASSUME NEW p \in Parsers
  PROVE  /\ Fail(p) \in Parsers
         /\ Fail(p).pending = p.pending /\ Fail(p).events = <<>>
         /\ Fail(p).thinking = p.thinking /\ Fail(p).inCall = p.inCall
         /\ Fail(p).calls = p.calls /\ Fail(p).failed = TRUE
<1>1. <<>> \in Seq(Events)
  BY EmptySeq
<1> QED
  BY <1>1 DEF Parsers, Fail

\* The parts of a parser whose events were taken.
LEMMA QuietIs ==
  ASSUME NEW p \in Parsers
  PROVE  /\ Quiet(p) \in Parsers
         /\ Quiet(p).pending = p.pending /\ Quiet(p).events = <<>>
         /\ Quiet(p).thinking = p.thinking /\ Quiet(p).inCall = p.inCall
         /\ Quiet(p).calls = p.calls /\ Quiet(p).failed = p.failed
<1>1. <<>> \in Seq(Events)
  BY EmptySeq
<1> QED
  BY <1>1 DEF Parsers, Quiet

\* Text joined to the last event.
Joined(e, x) == [e EXCEPT ![Len(e)].text = @ \o x]

\* Text joined to the last event changes that event only.
LEMMA JoinedIs ==
  ASSUME NEW e \in Seq(Events), e # <<>>, NEW x \in AnyText
  PROVE  /\ Joined(e, x) \in Seq(Events) /\ Len(Joined(e, x)) = Len(e)
         /\ Len(e) \in Nat \ {0} /\ Joined(e, x) # <<>>
         /\ \A i \in 1..Len(e) : i # Len(e) => Joined(e, x)[i] = e[i]
         /\ Joined(e, x)[Len(e)].call = e[Len(e)].call
         /\ Joined(e, x)[Len(e)].text = e[Len(e)].text \o x
<1>1. Len(e) \in Nat \ {0}
  BY EmptySeq
<1>2. e \in [1..Len(e) -> Events] /\ Len(e) \in 1..Len(e)
  BY <1>1
<1>3. e[Len(e)] \in Events
  BY <1>2
<1>4. e[Len(e)].text \o x \in AnyText
  BY <1>3, JoinTexts DEF Events
<1>5. PICK y \in AnyText : Is(y, e[Len(e)].text \o x)
  BY <1>4 DEF Is
<1>6. PICK v \in Events : Is(v, [e[Len(e)] EXCEPT !.text = y]) /\ v.text = y /\ v.call = e[Len(e)].call
  <2>1. \A d \in Events : [d EXCEPT !.text = y] \in Events /\ [d EXCEPT !.text = y].text = y
                          /\ [d EXCEPT !.text = y].call = d.call
    BY DEF Events
  <2> QED
    BY <1>3, <2>1 DEF Is
<1>7. Joined(e, x) = [e EXCEPT ![Len(e)] = v]
  BY <1>5, <1>6 DEF Joined, Is
<1>8. PICK f : Is(f, [e EXCEPT ![Len(e)] = v])
  BY DEF Is
<1>9. f \in [1..Len(e) -> Events] /\ f[Len(e)] = v /\ \A i \in 1..Len(e) : i # Len(e) => f[i] = e[i]
  BY <1>2, <1>8 DEF Is
<1>10. f \in Seq(Events) /\ Len(f) = Len(e)
  BY <1>1, <1>9, LenProperties
<1>11. f # <<>>
  BY <1>1, <1>10, EmptySeq
<1>12. Joined(e, x) = f
  BY <1>7, <1>8 DEF Is
<1> QED
  BY <1>1, <1>5, <1>6, <1>9, <1>10, <1>11, <1>12 DEF Is

\* The types of the two kinds of event.
LEMMA TextEventIs ==
  ASSUME NEW x \in AnyText
  PROVE  /\ TextEvent(x) \in Events /\ TextEvent(x).text = x /\ ~TextEvent(x).call
         /\ CallEvent(x) \in Events /\ CallEvent(x).text = x /\ CallEvent(x).call
<1> QED
  BY DEF Events, TextEvent, CallEvent

\* Text given out: the three ways.
LEMMA EmitTextIs ==
  ASSUME NEW e \in Seq(Events), NEW x \in AnyText
  PROVE  /\ x = <<>> => EmitText(e, x) = e
         /\ x # <<>> /\ e # <<>> /\ ~e[Len(e)].call => EmitText(e, x) = Joined(e, x)
         /\ x # <<>> /\ ~(e # <<>> /\ ~e[Len(e)].call) =>
              EmitText(e, x) = Append(e, TextEvent(x))
         /\ EmitText(e, x) \in Seq(Events)
<1>1. /\ x = <<>> => EmitText(e, x) = e
      /\ x # <<>> /\ e # <<>> /\ ~e[Len(e)].call => EmitText(e, x) = Joined(e, x)
      /\ x # <<>> /\ ~(e # <<>> /\ ~e[Len(e)].call) =>
           EmitText(e, x) = Append(e, TextEvent(x))
  BY DEF EmitText, Joined
<1>2. Append(e, TextEvent(x)) \in Seq(Events)
  BY TextEventIs
<1>3. e # <<>> => Joined(e, x) \in Seq(Events)
  BY JoinedIs
<1> QED
  BY <1>1, <1>2, <1>3

\* Text given out in two pieces is text given out in one.
LEMMA JoinedTwice ==
  ASSUME NEW e \in Seq(Events), e # <<>>, NEW a \in AnyText, NEW b \in AnyText
  PROVE  Joined(Joined(e, a), b) = Joined(e, a \o b)
<1>1. PICK f \in Seq(Events) : Is(f, Joined(e, a))
  BY JoinedIs DEF Is
<1>2. PICK n \in Nat \ {0} : Is(n, Len(e))
  BY JoinedIs DEF Is
<1>3. /\ f # <<>> /\ Len(f) = n /\ \A i \in 1..n : i # n => f[i] = e[i]
      /\ f[n].call = e[n].call /\ f[n].text = e[n].text \o a
  BY <1>1, <1>2, JoinedIs DEF Is
<1>4. PICK g \in Seq(Events) : Is(g, Joined(f, b))
  BY <1>3, JoinedIs DEF Is
<1>5. /\ Len(g) = n /\ \A i \in 1..n : i # n => g[i] = f[i]
      /\ g[n].call = f[n].call /\ g[n].text = f[n].text \o b
  BY <1>3, <1>4, JoinedIs DEF Is
<1>6. PICK c \in AnyText : Is(c, a \o b)
  BY JoinTexts DEF Is
<1>7. PICK h \in Seq(Events) : Is(h, Joined(e, c))
  BY JoinedIs DEF Is
<1>8. /\ Len(h) = n /\ \A i \in 1..n : i # n => h[i] = e[i]
      /\ h[n].call = e[n].call /\ h[n].text = e[n].text \o c
  BY <1>2, <1>7, JoinedIs, ZenonT(30) DEF Is
<1>9. g[n].text = h[n].text
  <2>1. e[n] \in Events
    BY <1>2 DEF Is
  <2>2. e[n].text \in AnyText
    BY <2>1 DEF Events
  <2>3. PICK t \in AnyText : Is(t, e[n].text)
    BY <2>2 DEF Is
  <2>4. (t \o a) \o b = t \o (a \o b)
    BY JoinInAnyOrder
  <2> QED
    BY <1>3, <1>5, <1>6, <1>8, <2>3, <2>4 DEF Is
<1>10. g[n] = h[n]
  <2>1. g[n] \in Events /\ h[n] \in Events
    BY <1>5, <1>8
  <2>2. \A d, v \in Events : d.call = v.call /\ d.text = v.text => d = v
    BY DEF Events
  <2> QED
    BY <1>3, <1>5, <1>8, <1>9, <2>1, <2>2
<1>11. g = h
  <2>1. \A i \in 1..n : g[i] = h[i]
    BY <1>3, <1>5, <1>8, <1>10
  <2> QED
    BY <1>5, <1>8, <2>1, SeqEqual
<1> QED
  BY <1>1, <1>4, <1>6, <1>7, <1>11 DEF Is

\* An event more, behind the ones there are.
LEMMA AppendEvent ==
  ASSUME NEW e \in Seq(Events), NEW x \in Events
  PROVE  /\ Append(e, x) \in Seq(Events) /\ Len(Append(e, x)) = Len(e) + 1
         /\ Append(e, x) # <<>> /\ Append(e, x)[Len(e) + 1] = x
         /\ \A i \in 1..Len(e) : Append(e, x)[i] = e[i]
<1>1. Len(e) \in Nat /\ Append(e, x) \in Seq(Events) /\ Len(Append(e, x)) = Len(e) + 1
  BY AppendProperties
<1>2. Append(e, x) # <<>>
  BY <1>1, EmptySeq
<1> QED
  BY <1>1, <1>2, AppendProperties

\* Text joined to an event appended is appended with it.
LEMMA JoinedAppended ==
  ASSUME NEW e \in Seq(Events), NEW a \in AnyText, NEW b \in AnyText
  PROVE  Joined(Append(e, TextEvent(a)), b) = Append(e, TextEvent(a \o b))
<1>1. PICK n \in Nat : Is(n, Len(e))
  BY DEF Is
<1>2. PICK x \in Events : Is(x, TextEvent(a)) /\ x.text = a /\ ~x.call
  BY TextEventIs DEF Is
<1>3. PICK c \in AnyText : Is(c, a \o b)
  BY JoinTexts DEF Is
<1>4. PICK y \in Events : Is(y, TextEvent(c)) /\ y.text = c /\ ~y.call
  BY TextEventIs DEF Is
<1>0. PICK m \in Nat : Is(m, n + 1)
  BY DEF Is
<1>5. PICK f \in Seq(Events) : Is(f, Append(e, x))
  BY AppendEvent DEF Is
<1>6. Len(f) = m /\ f # <<>> /\ f[m] = x /\ \A i \in 1..n : f[i] = e[i]
  BY <1>0, <1>1, <1>5, AppendEvent DEF Is
<1>7. PICK g \in Seq(Events) : Is(g, Append(e, y))
  BY AppendEvent DEF Is
<1>8. Len(g) = m /\ g[m] = y /\ \A i \in 1..n : g[i] = e[i]
  BY <1>0, <1>1, <1>7, AppendEvent DEF Is
<1>9. PICK h \in Seq(Events) : Is(h, Joined(f, b))
  BY <1>6, JoinedIs DEF Is
<1>10. /\ Len(h) = m /\ \A i \in 1..m : i # m => h[i] = f[i]
       /\ h[m].call = f[m].call /\ h[m].text = f[m].text \o b
  BY <1>6, <1>9, JoinedIs DEF Is
<1>11. h[m] = g[m]
  <2>1. h[m] \in Events
    <3>1. m \in 1..Len(h)
      BY <1>0, <1>10 DEF Is
    <3> QED
      BY <3>1
  <2>2. \A d, v \in Events : d.call = v.call /\ d.text = v.text => d = v
    BY DEF Events
  <2>3. h[m].text = c /\ h[m].call = y.call
    <3>1. x.call = FALSE /\ y.call = FALSE
      BY <1>2, <1>4 DEF Events
    <3> QED
      BY <1>2, <1>3, <1>4, <1>6, <1>10, <3>1 DEF Is
  <2> QED
    BY <1>4, <1>8, <2>1, <2>2, <2>3
<1>12. h = g
  <2>1. \A i \in 1..m : h[i] = g[i]
    <3>1. ASSUME NEW i \in 1..m, i # m PROVE h[i] = g[i]
      <4>1. i \in 1..n
        BY <1>0, <3>1 DEF Is
      <4> QED
        BY <1>6, <1>8, <1>10, <3>1, <4>1
    <3> QED
      BY <1>11, <3>1
  <2> QED
    BY <1>8, <1>10, <2>1, SeqEqual
<1> QED
  BY <1>2, <1>3, <1>4, <1>5, <1>7, <1>9, <1>12 DEF Is

\* Two texts given out are one text given out.
LEMMA EmitTwice ==
  ASSUME NEW e \in Seq(Events), NEW a \in AnyText, NEW b \in AnyText
  PROVE  EmitText(EmitText(e, a), b) = EmitText(e, a \o b)
<1>1. CASE a = <<>>
  <2>1. a \o b = b
    BY <1>1, JoinNothing
  <2> QED
    BY <1>1, <2>1, EmitTextIs
<1>2. CASE b = <<>>
  <2>1. a \o b = a
    BY <1>2, JoinNothing
  <2>2. EmitText(e, a) \in Seq(Events)
    BY EmitTextIs
  <2> QED
    BY <1>2, <2>1, <2>2, EmitTextIs
<1>3. CASE a # <<>> /\ b # <<>>
  <2>1. a \o b # <<>> /\ a \o b \in AnyText
    <3>1. Len(a \o b) = Len(a) + Len(b) /\ Len(a) \in Nat \ {0} /\ Len(b) \in Nat /\ a \o b \in AnyText
      BY <1>3, ConcatProperties, EmptySeq DEF AnyText
    <3> QED
      BY <3>1, EmptySeq
  <2>2. CASE e # <<>> /\ ~e[Len(e)].call
    <3>1. PICK f \in Seq(Events) : Is(f, Joined(e, a)) /\ f # <<>> /\ ~f[Len(f)].call
      BY <2>2, JoinedIs DEF Is
    <3>2. EmitText(e, a) = f
      BY <1>3, <2>2, <3>1, EmitTextIs DEF Is
    <3>3. EmitText(f, b) = Joined(f, b)
      BY <1>3, <3>1, EmitTextIs
    <3>4. EmitText(e, a \o b) = Joined(e, a \o b)
      BY <2>1, <2>2, EmitTextIs
    <3>5. Joined(Joined(e, a), b) = Joined(e, a \o b)
      BY <2>2, JoinedTwice
    <3> QED
      BY <3>1, <3>2, <3>3, <3>4, <3>5 DEF Is
  <2>3. CASE ~(e # <<>> /\ ~e[Len(e)].call)
    <3>1. PICK x \in Events : Is(x, TextEvent(a)) /\ ~x.call
      BY TextEventIs DEF Is
    <3>2. PICK f \in Seq(Events) : Is(f, Append(e, x)) /\ f # <<>> /\ f[Len(f)] = x
      <4>1. PICK f \in Seq(Events) : Is(f, Append(e, x))
        BY AppendEvent DEF Is
      <4>2. f # <<>> /\ f[Len(e) + 1] = x /\ Len(f) = Len(e) + 1
        BY <4>1, AppendEvent DEF Is
      <4>3. f[Len(f)] = x
        BY <4>2
      <4> QED
        BY <4>1, <4>2, <4>3
    <3>3. EmitText(e, a) = f
      BY <1>3, <2>3, <3>1, <3>2, EmitTextIs DEF Is
    <3>4. EmitText(f, b) = Joined(f, b)
      BY <1>3, <3>1, <3>2, EmitTextIs
    <3>5. EmitText(e, a \o b) = Append(e, TextEvent(a \o b))
      BY <2>1, <2>3, EmitTextIs
    <3>6. Joined(Append(e, TextEvent(a)), b) = Append(e, TextEvent(a \o b))
      BY JoinedAppended
    <3> QED
      BY <3>1, <3>2, <3>3, <3>4, <3>5, <3>6 DEF Is
  <2> QED
    BY <2>2, <2>3
<1> QED
  BY <1>1, <1>2, <1>3

\* The two sets of markers looked for.
LEMMA MarkersAre ==
  /\ Open \in AnyText /\ Close \in AnyText /\ Think \in AnyText /\ ThinkEnd \in AnyText
  /\ Len(Open) \in Nat \ {0} /\ Len(Close) \in Nat \ {0}
  /\ Len(Think) \in Nat \ {0} /\ Len(ThinkEnd) \in Nat \ {0}
  /\ {ThinkEnd} \in AnyMarkers /\ {Open, Think} \in AnyMarkers /\ {Close} \in AnyMarkers
  /\ Apart({ThinkEnd}) /\ Apart({Open, Think})
<1>1. \A m \in {Open, Close, Think, ThinkEnd} : m \in Seq(Alphabet) /\ m # <<>>
  BY MarkersAssumption
<1>2. \A m \in {Open, Close, Think, ThinkEnd} : m \in AnyText /\ Len(m) \in Nat \ {0}
  BY <1>1, EmptySeq DEF AnyText
<1>3. /\ {ThinkEnd} \in AnyMarkers /\ {Open, Think} \in AnyMarkers /\ {Close} \in AnyMarkers
      /\ ThinkEnd \in MarkerTexts(Alphabet)
  BY <1>1 DEF AnyMarkers, MarkerTexts
<1>4. Apart({ThinkEnd})
  BY <1>3, OneIsApart
<1> QED
  BY <1>2, <1>3, <1>4, MarkersAssumption

\* What a marker found, and what is held back, leave of the text.
LEMMA TextCuts ==
  ASSUME NEW M \in AnyMarkers, NEW t \in AnyText
  PROVE  /\ Find(t, M) \in 0..Len(t) /\ Find(t, M) \in Nat
         /\ Find(t, M) > 0 => \E m \in M : Stands(t, m, Find(t, M))
         /\ Held(t, M) \in 0..Len(t) /\ (Len(t) - Held(t, M)) \in 0..Len(t)
         /\ Len(t) \in Nat
<1>1. t \in Seq(Alphabet) /\ M \in SUBSET Seq(Alphabet) /\ Len(t) \in Nat
  BY DEF AnyText, AnyMarkers, MarkerTexts
<1>2. Find(t, M) \in 0..Len(t) /\ (Find(t, M) # 0 => \E m \in M : Stands(t, m, Find(t, M)))
  BY <1>1, FindIs
<1>3. Held(t, M) \in 0..Len(t)
  BY <1>1, HeldIs
<1> QED
  BY <1>1, <1>2, <1>3

\* A marker that stands in a text ends in it.
LEMMA StandsInside ==
  ASSUME NEW t \in AnyText, NEW m \in AnyText, NEW i \in Nat, i > 0, Stands(t, m, i)
  PROVE  (i + Len(m) - 1) \in 0..Len(t) /\ (i - 1) \in 0..Len(t)
<1>1. Len(t) \in Nat /\ Len(m) \in Nat
  BY DEF AnyText
<1>2. i + Len(m) <= Len(t) + 1
  BY StandsIs DEF AnyText
<1> QED
  BY <1>1, <1>2

\* The types and lengths of the two parts of a cut.
LEMMA CutParts ==
  ASSUME NEW t \in AnyText, NEW n \in 0..Len(t)
  PROVE  /\ Take(t, n) \in AnyText /\ Len(Take(t, n)) = n
         /\ Drop(t, n) \in AnyText /\ Len(Drop(t, n)) = Len(t) - n
<1> QED
  BY TakeIs, DropIs DEF AnyText

\* The first symbols become events.
LEMMA EmitFirstIs ==
  ASSUME NEW p \in Parsers, NEW n \in 0..Len(p.pending)
  PROVE  /\ EmitFirst(p, n) \in Parsers
         /\ EmitFirst(p, n).pending = Drop(p.pending, n)
         /\ EmitFirst(p, n).events = EmitText(p.events, Take(p.pending, n))
         /\ EmitFirst(p, n).thinking = p.thinking /\ EmitFirst(p, n).inCall = p.inCall
         /\ EmitFirst(p, n).calls = p.calls /\ EmitFirst(p, n).failed = p.failed
<1>1. p.pending \in AnyText /\ p.events \in Seq(Events)
  BY PartsOf
<1>2. PICK t \in AnyText : Is(t, Take(p.pending, n))
  BY <1>1, CutParts DEF Is
<1>3. PICK d \in AnyText : Is(d, Drop(p.pending, n))
  BY <1>1, CutParts DEF Is
<1>4. PICK e \in Seq(Events) : Is(e, EmitText(p.events, t))
  BY <1>1, EmitTextIs DEF Is
<1>5. EmitFirst(p, n) = Reading(p, d, e)
  BY <1>2, <1>3, <1>4 DEF EmitFirst, Reading, Is
<1>6. /\ Reading(p, d, e) \in Parsers
      /\ Reading(p, d, e).pending = d /\ Reading(p, d, e).events = e
      /\ Reading(p, d, e).thinking = p.thinking /\ Reading(p, d, e).inCall = p.inCall
      /\ Reading(p, d, e).calls = p.calls /\ Reading(p, d, e).failed = p.failed
  BY ReadingIs
<1> QED
  BY <1>2, <1>3, <1>4, <1>5, <1>6 DEF Is

\* Giving out no symbol changes nothing.
LEMMA EmitNone ==
  ASSUME NEW p \in Parsers
  PROVE  EmitFirst(p, 0) = p
<1>1. p.pending \in AnyText /\ p.events \in Seq(Events)
  BY PartsOf
<1>2. 0 \in 0..Len(p.pending)
  BY <1>1 DEF AnyText
<1>3. Take(p.pending, 0) = <<>> /\ Drop(p.pending, 0) = p.pending
  BY <1>1, CutNothing DEF AnyText
<1>4. EmitText(p.events, <<>>) = p.events
  BY <1>1, JoinNothing, EmitTextIs
<1>5. PICK q \in Parsers : Is(q, EmitFirst(p, 0)) /\ q.pending = p.pending /\ q.events = p.events
        /\ q.thinking = p.thinking /\ q.inCall = p.inCall /\ q.calls = p.calls /\ q.failed = p.failed
  BY <1>2, <1>3, <1>4, EmitFirstIs DEF Is
<1>6. q = p
  BY <1>5, SameParser
<1> QED
  BY <1>5, <1>6 DEF Is

\* Events in two steps are events in one.
LEMMA EmitFurther ==
  ASSUME NEW p \in Parsers, NEW n \in 0..Len(p.pending), NEW k \in 0..(Len(p.pending) - n)
  PROVE  EmitFirst(EmitFirst(p, n), k) = EmitFirst(p, n + k)
<1>1. PICK t \in AnyText : Is(t, p.pending)
  BY PartsOf DEF Is
<1>2. PICK ev \in Seq(Events) : Is(ev, p.events)
  BY PartsOf DEF Is
<1>3. n \in 0..Len(t) /\ k \in 0..(Len(t) - n) /\ Len(t) \in Nat
  BY <1>1 DEF Is, AnyText
<1>4. PICK m \in 0..Len(t) : Is(m, n + k)
  BY <1>3 DEF Is
<1>5. PICK a \in AnyText, d \in AnyText : Is(a, Take(t, n)) /\ Is(d, Drop(t, n)) /\ Len(d) = Len(t) - n
  BY <1>3, CutParts DEF Is
<1>6. PICK b \in AnyText, c \in AnyText : Is(b, Take(d, k)) /\ Is(c, Drop(d, k))
  BY <1>3, <1>5, CutParts DEF Is
<1>7. a \o b = Take(t, m) /\ c = Drop(t, m)
  <2>1. Take(t, n) \o Take(Drop(t, n), k) = Take(t, n + k) /\ Drop(Drop(t, n), k) = Drop(t, n + k)
    BY <1>3, CutTwice
  <2> QED
    BY <1>4, <1>5, <1>6, <2>1 DEF Is
<1>8. PICK q \in Parsers : Is(q, EmitFirst(p, n)) /\ q.pending = d /\ q.events = EmitText(ev, a)
        /\ q.thinking = p.thinking /\ q.inCall = p.inCall /\ q.calls = p.calls /\ q.failed = p.failed
  BY <1>1, <1>2, <1>5, EmitFirstIs DEF Is
<1>9. k \in 0..Len(q.pending)
  BY <1>3, <1>5, <1>8
<1>10. PICK r \in Parsers : Is(r, EmitFirst(q, k)) /\ r.pending = c /\ r.events = EmitText(EmitText(ev, a), b)
        /\ r.thinking = p.thinking /\ r.inCall = p.inCall /\ r.calls = p.calls /\ r.failed = p.failed
  BY <1>6, <1>8, <1>9, EmitFirstIs DEF Is
<1>11. m \in 0..Len(p.pending)
  BY <1>1 DEF Is
<1>12. PICK s \in Parsers : Is(s, EmitFirst(p, m)) /\ s.pending = c /\ s.events = EmitText(ev, a \o b)
        /\ s.thinking = p.thinking /\ s.inCall = p.inCall /\ s.calls = p.calls /\ s.failed = p.failed
  BY <1>1, <1>2, <1>7, <1>11, EmitFirstIs DEF Is
<1>13. EmitText(EmitText(ev, a), b) = EmitText(ev, a \o b)
  BY EmitTwice
<1>14. r = s
  BY <1>10, <1>12, <1>13, SameParser
<1> QED
  BY <1>4, <1>8, <1>10, <1>12, <1>14 DEF Is

\* The parser p with the text b behind what it holds.
More(p, b) == [p EXCEPT !.pending = @ \o b]

\* The parts of a parser with more text to read.
LEMMA MoreIs ==
  ASSUME NEW p \in Parsers, NEW b \in AnyText
  PROVE  /\ More(p, b) \in Parsers
         /\ More(p, b).pending = p.pending \o b /\ More(p, b).events = p.events
         /\ More(p, b).thinking = p.thinking /\ More(p, b).inCall = p.inCall
         /\ More(p, b).calls = p.calls /\ More(p, b).failed = p.failed
<1>1. p.pending \in AnyText
  BY PartsOf
<1>2. PICK t \in AnyText : Is(t, p.pending \o b)
  BY <1>1, JoinTexts DEF Is
<1>3. More(p, b) = [p EXCEPT !.pending = t]
  BY <1>2 DEF More, Is
<1>4. /\ [p EXCEPT !.pending = t] \in Parsers
      /\ [p EXCEPT !.pending = t].pending = t /\ [p EXCEPT !.pending = t].events = p.events
      /\ [p EXCEPT !.pending = t].thinking = p.thinking /\ [p EXCEPT !.pending = t].inCall = p.inCall
      /\ [p EXCEPT !.pending = t].calls = p.calls /\ [p EXCEPT !.pending = t].failed = p.failed
  BY DEF Parsers
<1> QED
  BY <1>2, <1>3, <1>4 DEF Is

\* What comes behind does not change what is emitted before.
LEMMA EmitMore ==
  ASSUME NEW p \in Parsers, NEW b \in AnyText, NEW n \in 0..Len(p.pending)
  PROVE  /\ n \in 0..Len(More(p, b).pending)
         /\ EmitFirst(More(p, b), n) = More(EmitFirst(p, n), b)
<1>1. PICK t \in AnyText : Is(t, p.pending)
  BY PartsOf DEF Is
<1>2. PICK u \in AnyText : Is(u, t \o b)
  BY JoinTexts DEF Is
<1>3. n \in 0..Len(t)
  BY <1>1 DEF Is
<1>4. n \in 0..Len(u) /\ Take(u, n) = Take(t, n) /\ Drop(u, n) = Drop(t, n) \o b
  <2>1. /\ n \in 0..Len(t \o b) /\ Take(t \o b, n) = Take(t, n)
        /\ Drop(t \o b, n) = Drop(t, n) \o b
    BY <1>3, CutText
  <2> QED
    BY <1>2, <2>1 DEF Is
<1>5. PICK q \in Parsers : Is(q, More(p, b)) /\ q.pending = u /\ q.events = p.events
        /\ q.thinking = p.thinking /\ q.inCall = p.inCall /\ q.calls = p.calls /\ q.failed = p.failed
  BY <1>1, <1>2, MoreIs DEF Is
<1>6. n \in 0..Len(q.pending)
  BY <1>4, <1>5
<1>7. PICK r \in Parsers : Is(r, EmitFirst(q, n)) /\ r.pending = Drop(t, n) \o b
        /\ r.events = EmitText(p.events, Take(t, n))
        /\ r.thinking = p.thinking /\ r.inCall = p.inCall /\ r.calls = p.calls /\ r.failed = p.failed
  BY <1>4, <1>5, <1>6, EmitFirstIs DEF Is
<1>8. PICK s \in Parsers : Is(s, EmitFirst(p, n)) /\ s.pending = Drop(t, n)
        /\ s.events = EmitText(p.events, Take(t, n))
        /\ s.thinking = p.thinking /\ s.inCall = p.inCall /\ s.calls = p.calls /\ s.failed = p.failed
  BY <1>1, EmitFirstIs DEF Is
<1>9. PICK v \in Parsers : Is(v, More(s, b)) /\ v.pending = s.pending \o b /\ v.events = s.events
        /\ v.thinking = s.thinking /\ v.inCall = s.inCall /\ v.calls = s.calls /\ v.failed = s.failed
  BY MoreIs DEF Is
<1>10. r = v
  <2>1. r.pending = v.pending
    BY <1>7, <1>8, <1>9
  <2>2. r.events = v.events
    BY <1>7, <1>8, <1>9
  <2>3. r.thinking = v.thinking /\ r.inCall = v.inCall /\ r.calls = v.calls /\ r.failed = v.failed
    BY <1>7, <1>8, <1>9
  <2> QED
    BY <2>1, <2>2, <2>3, SameParser
<1> QED
  BY <1>5, <1>6, <1>7, <1>8, <1>9, <1>10 DEF Is

----------------------------------------------------------------------------
\* Recursion over numbers.

\* A function on 0..n that starts at base and takes the step at each number.
Recursion(f, n, S, base, step) ==
  /\ f \in [0..n -> S]
  /\ f[0] = base
  /\ \A i \in 1..n : f[i] = step[<<i, f[i - 1]>>]

\* There is one.
LEMMA RecursionExists ==
  ASSUME NEW n \in Nat, NEW S, NEW base \in S, NEW step \in [(1..n) \X S -> S]
  PROVE  \E f : Recursion(f, n, S, base, step)
<1> DEFINE Good(f, m) == \A i \in 0..m : f[i] = IF i = 0 THEN base ELSE step[<<i, f[i - 1]>>]
           T == {m \in Nat : m <= n => \E f \in [0..m -> S] : Good(f, m)}
<1>1. 0 \in T
  <2> DEFINE f == [i \in 0..0 |-> base]
  <2>1. f \in [0..0 -> S] /\ Good(f, 0)
    OBVIOUS
  <2> QED
    BY <2>1
<1>2. ASSUME NEW m \in T PROVE m + 1 \in T
  <2> SUFFICES ASSUME m + 1 <= n PROVE \E f \in [0..(m + 1) -> S] : Good(f, m + 1)
    OBVIOUS
  <2>1. PICK f \in [0..m -> S] : Good(f, m)
    OBVIOUS
  <2> DEFINE v == step[<<m + 1, f[m]>>]
             g == [i \in 0..(m + 1) |-> IF i = m + 1 THEN v ELSE f[i]]
  <2>2. v \in S
    OBVIOUS
  <2>3. g \in [0..(m + 1) -> S]
    BY <2>2
  <2>4. ASSUME NEW i \in 0..(m + 1)
        PROVE  g[i] = IF i = 0 THEN base ELSE step[<<i, g[i - 1]>>]
    <3>1. CASE i = m + 1
      <4>1. g[i] = v /\ g[i - 1] = f[m] /\ i # 0
        BY <3>1
      <4> QED
        BY <3>1, <4>1
    <3>2. CASE i # m + 1
      <4>1. i \in 0..m /\ g[i] = f[i] /\ (i # 0 => g[i - 1] = f[i - 1])
        BY <3>2
      <4> QED
        BY <2>1, <4>1
    <3> QED
      BY <3>1, <3>2
  <2> QED
    BY <2>3, <2>4
<1>3. n \in T
  <2> HIDE DEF T
  <2>1. T \in SUBSET Nat
    BY DEF T
  <2> QED
    BY <1>1, <1>2, <2>1, Induction
<1>4. PICK f \in [0..n -> S] : Good(f, n)
  BY <1>3
<1>5. f[0] = base /\ \A i \in 1..n : f[i] = step[<<i, f[i - 1]>>]
  <2>1. 0 \in 0..n /\ \A i \in 1..n : i \in 0..n /\ i # 0
    OBVIOUS
  <2> QED
    BY <1>4, <2>1
<1>6. Recursion(f, n, S, base, step)
  BY <1>5 DEF Recursion
<1> QED
  BY <1>6

----------------------------------------------------------------------------
\* Events through the splitter.

\* The splitter flushed, part by part.
LEMMA FlushIs ==
  ASSUME NEW th \in BOOLEAN, NEW pe \in AnyText, NEW co \in AnyText, NEW re \in AnyText,
         NEW ca \in Seq(AnyText)
  PROVE  SplitFlush(Staged(th, pe, co, re, ca)) =
           IF th THEN Staged(TRUE, <<>>, co, re \o pe, ca)
           ELSE Staged(FALSE, <<>>, co \o pe, re, ca)
<1> DEFINE sr == Staged(th, pe, co, re, ca)
<1>1. /\ sr.splitter = [thinking |-> th, pending |-> pe]
      /\ sr.reply = [content |-> co, reasoning |-> re, calls |-> ca]
      /\ sr.splitter.pending = pe /\ sr.splitter.thinking = th
  BY DEF Staged
<1> HIDE DEF sr
<1>2. SplitFlush(sr) = [splitter |-> [sr.splitter EXCEPT !.pending = <<>>],
                        reply |-> Say(sr.reply, th, pe)]
  BY <1>1 DEF SplitFlush
<1>3. [sr.splitter EXCEPT !.pending = <<>>] = [thinking |-> th, pending |-> <<>>]
  BY <1>1
<1>6. /\ Say([content |-> co, reasoning |-> re, calls |-> ca], FALSE, pe)
           = [content |-> co \o pe, reasoning |-> re, calls |-> ca]
      /\ Say([content |-> co, reasoning |-> re, calls |-> ca], TRUE, pe)
           = [content |-> co, reasoning |-> re \o pe, calls |-> ca]
  <2>1. \A y, z :
        /\ Say([content |-> co, reasoning |-> z, calls |-> ca], FALSE, y)
             = [content |-> co \o y, reasoning |-> z, calls |-> ca]
        /\ Say([content |-> co, reasoning |-> z, calls |-> ca], TRUE, y)
             = [content |-> co, reasoning |-> z \o y, calls |-> ca]
    BY DEF Say
  <2> QED
    BY <2>1
<1>4. CASE th
  <2>1. th = TRUE
    BY <1>4
  <2>2. Say(sr.reply, TRUE, pe) = [content |-> co, reasoning |-> re \o pe, calls |-> ca]
    BY <1>1, <1>6
  <2> QED
    BY <1>2, <1>3, <2>1, <2>2 DEF Staged, sr
<1>5. CASE ~th
  <2>1. th = FALSE
    BY <1>5
  <2>2. Say(sr.reply, FALSE, pe) = [content |-> co \o pe, reasoning |-> re, calls |-> ca]
    BY <1>1, <1>6
  <2> QED
    BY <1>2, <1>3, <2>1, <2>2 DEF Staged, sr
<1> QED
  BY <1>4, <1>5

\* A call recorded.
Grown(ca, x) == Append(ca, x)
Called(sr, body) == [sr EXCEPT !.reply.calls = Append(@, body)]

\* A call recorded behind the calls there are.
LEMMA CalledIs ==
  ASSUME NEW th, NEW pe, NEW co, NEW re, NEW ca, NEW body
  PROVE  Called(Staged(th, pe, co, re, ca), body) = Staged(th, pe, co, re, Grown(ca, body))
<1>1. \A s, r, x : [[splitter |-> s, reply |-> r] EXCEPT !.reply.calls = x]
                   = [splitter |-> s, reply |-> [r EXCEPT !.calls = x]]
  OBVIOUS
<1>2. \A x : [[content |-> co, reasoning |-> re, calls |-> ca] EXCEPT !.calls = x]
             = [content |-> co, reasoning |-> re, calls |-> x]
  OBVIOUS
<1>3. Staged(th, pe, co, re, ca).reply.calls = ca
  BY DEF Staged
<1>4. Called(Staged(th, pe, co, re, ca), body)
        = [Staged(th, pe, co, re, ca) EXCEPT !.reply.calls = Append(ca, body)]
  BY <1>3 DEF Called
<1> QED
  BY <1>1, <1>2, <1>4 DEF Staged, Grown

\* Nothing is all held back.
LEMMA NothingSettled == Settled(<<>>, {ThinkEnd})
<1>1. <<>> \in Seq(Alphabet) /\ Len(<<>>) = 0
  BY EmptySeq
<1>2. Find(<<>>, {ThinkEnd}) \in 0..0 /\ Held(<<>>, {ThinkEnd}) \in 0..0
  BY <1>1, ThinkEndIs, FindIs, HeldIs
<1> QED
  BY <1>1, <1>2 DEF Settled

\* Events leave the splitter ready for more.
LEMMA RouteEventReady ==
  ASSUME NEW sr, Ready(sr), NEW e \in Events
  PROVE  Ready(RouteEvent(sr, e))
<1>0. \A th, pe, co, re, ca, x :
        Called(Staged(th, pe, co, re, ca), x) = Staged(th, pe, co, re, Grown(ca, x))
  BY CalledIs
<1>1. e.text \in AnyText /\ e.call \in BOOLEAN
  BY DEF Events
<1>2. CASE ~e.call
  BY <1>1, <1>2, SplitReady DEF RouteEvent
<1>3. CASE e.call
  <2>1. PICK th \in BOOLEAN : \E pe, co, re \in AnyText : \E ca \in Seq(AnyText) :
          sr = Staged(th, pe, co, re, ca)
    BY StageIs DEF Ready
  <2>2. PICK pe \in AnyText, co \in AnyText, re \in AnyText : \E ca \in Seq(AnyText) :
          sr = Staged(th, pe, co, re, ca)
    BY <2>1
  <2>3. PICK ca \in Seq(AnyText) : sr = Staged(th, pe, co, re, ca)
    BY <2>2
  <2>9. /\ th => SplitFlush(sr) = Staged(th, <<>>, co, re \o pe, ca)
        /\ ~th => SplitFlush(sr) = Staged(th, <<>>, co \o pe, re, ca)
    <3>1. SplitFlush(sr) = IF th THEN Staged(TRUE, <<>>, co, re \o pe, ca)
                           ELSE Staged(FALSE, <<>>, co \o pe, re, ca)
      BY <2>3, FlushIs, ZenonT(30)
    <3>2. (th => th = TRUE) /\ (~th => th = FALSE)
      OBVIOUS
    <3> QED
      BY <3>1, <3>2, Zenon
  <2>4. RouteEvent(sr, e) = Called(SplitFlush(sr), e.text)
    BY <1>3 DEF RouteEvent, Called
  <2>5. PICK c2 \in Seq(AnyText) : Is(c2, Grown(ca, e.text))
    BY <1>1, AppendProperties DEF Is, Grown
  <2>6. PICK r2 \in AnyText, o2 \in AnyText : Is(r2, re \o pe) /\ Is(o2, co \o pe)
    BY JoinTexts DEF Is
  <2>7. CASE th
    <3>1. SplitFlush(sr) = Staged(th, <<>>, co, r2, ca)
      BY <2>6, <2>7, <2>9 DEF Is
    <3>2. Called(SplitFlush(sr), e.text) = Staged(th, <<>>, co, r2, c2)
      <4>1. Called(Staged(th, <<>>, co, r2, ca), e.text)
              = Staged(th, <<>>, co, r2, Grown(ca, e.text))
        BY <1>0
      <4> QED
        BY <2>5, <3>1, <4>1 DEF Is
    <3>3. Ready(Staged(th, <<>>, co, r2, c2))
      BY JoinNothing, NothingSettled, StagedType
    <3> QED
      BY <2>4, <3>2, <3>3
  <2>8. CASE ~th
    <3>1. SplitFlush(sr) = Staged(th, <<>>, o2, re, ca)
      BY <2>6, <2>8, <2>9 DEF Is
    <3>2. Called(SplitFlush(sr), e.text) = Staged(th, <<>>, o2, re, c2)
      <4>1. Called(Staged(th, <<>>, o2, re, ca), e.text)
              = Staged(th, <<>>, o2, re, Grown(ca, e.text))
        BY <1>0
      <4> QED
        BY <2>5, <3>1, <4>1 DEF Is
    <3>3. Ready(Staged(th, <<>>, o2, re, c2))
      BY JoinNothing, NothingSettled, StagedType
    <3> QED
      BY <2>4, <3>2, <3>3
  <2> QED
    BY <2>7, <2>8
<1> QED
  BY <1>1, <1>2, <1>3

\* The stages the events e lead through, from sr.
ReadyStages == {sr \in Stages : Ready(sr)}

Leads(f, sr, e) ==
  /\ f \in [0..Len(e) -> ReadyStages]
  /\ f[0] = sr
  /\ \A i \in 1..Len(e) : f[i] = RouteEvent(f[i - 1], e[i])

\* Routing is a run of the events from the stage.
LEMMA RouteIs ==
  ASSUME NEW sr, Ready(sr), NEW e \in Seq(Events)
  PROVE  \E f : Leads(f, sr, e) /\ Route(sr, e) = f[Len(e)]
<1> DEFINE n == Len(e)
           step == [x \in (1..n) \X ReadyStages |-> RouteEvent(x[2], e[x[1]])]
<1>1. n \in Nat /\ (\A i \in 1..n : e[i] \in Events) /\ sr \in ReadyStages
  BY ElementOfSeq DEF Ready, ReadyStages
<1> HIDE DEF n
<1>2. step \in [(1..n) \X ReadyStages -> ReadyStages]
  <2>1. \A s \in ReadyStages, x \in Events : RouteEvent(s, x) \in ReadyStages
    BY RouteEventReady DEF ReadyStages, Ready
  <2>3. \A x \in (1..n) \X ReadyStages : x[2] \in ReadyStages /\ e[x[1]] \in Events
    BY <1>1
  <2> QED
    BY <2>1, <2>3
<1>3. \E f : Recursion(f, n, ReadyStages, sr, step)
  <2> HIDE DEF step
  <2> QED
    BY <1>1, <1>2, RecursionExists
<1>4. PICK f : Recursion(f, n, ReadyStages, sr, step)
  BY <1>3
<1>5. /\ f \in [0..n -> ReadyStages] /\ f[0] = sr
      /\ \A i \in 1..n : f[i] = step[<<i, f[i - 1]>>]
  BY <1>4 DEF Recursion
<1>6. \A i \in 1..n : f[i] = RouteEvent(f[i - 1], e[i])
  <2>1. \A i \in 1..n : i - 1 \in 0..n
    BY <1>1
  <2>2. \A i \in 1..n : <<i, f[i - 1]>> \in (1..n) \X ReadyStages
    BY <1>5, <2>1
  <2> QED
    BY <1>5, <2>2
<1>7. \A i \in 0..n : i = 0 \/ i \in 1..n
  BY <1>1
<1> DEFINE C == CHOOSE g : g = [i \in 0..n |-> IF i = 0 THEN sr ELSE RouteEvent(g[i - 1], e[i])]
<1>8. f = [i \in 0..n |-> IF i = 0 THEN sr ELSE RouteEvent(f[i - 1], e[i])]
  BY <1>5, <1>6, <1>7
<1>9. C = [i \in 0..n |-> IF i = 0 THEN sr ELSE RouteEvent(C[i - 1], e[i])]
  BY <1>8
<1>10. Route(sr, e) = C[n]
  BY DEF Route, n
<1>11. Leads(C, sr, e)
  <2> HIDE DEF C
  <2>1. C[0] = sr /\ \A i \in 1..n : C[i] = RouteEvent(C[i - 1], e[i])
    BY <1>1, <1>9
  <2>2. \A i \in 0..n : C[i] = f[i]
    <3> DEFINE h == [x \in (1..n) \X ReadyStages |-> RouteEvent(x[2], e[x[1]])]
               T == {i \in Nat : i <= n => C[i] = f[i]}
    <3>1. 0 \in T
      BY <1>5, <2>1
    <3>2. ASSUME NEW i \in T PROVE i + 1 \in T
      <4> SUFFICES ASSUME i + 1 <= n PROVE C[i + 1] = f[i + 1]
        OBVIOUS
      <4>1. i + 1 \in 1..n /\ (i + 1) - 1 = i /\ C[i] = f[i]
        BY <1>1
      <4> QED
        BY <1>6, <2>1, <4>1
    <3>3. T = Nat
      <4>1. T \in SUBSET Nat
        OBVIOUS
      <4> HIDE DEF T
      <4> QED
        BY <3>1, <3>2, <4>1, Induction
    <3> QED
      BY <1>1, <3>3
  <2>3. C \in [0..n -> ReadyStages]
    BY <1>5, <1>9, <2>2
  <2> QED
    BY <2>1, <2>3 DEF Leads, n
<1> QED
  BY <1>10, <1>11 DEF n

\* The first k of the events e and d are the same.
Shared(e, d, k) == k <= Len(e) /\ k <= Len(d) /\ \A i \in 1..k : e[i] = d[i]

\* Two runs agree as far as their events do.
LEMMA LeadsAgree ==
  ASSUME NEW sr, NEW e \in Seq(Events), NEW d \in Seq(Events), NEW f, NEW g,
         Leads(f, sr, e), Leads(g, sr, d), NEW k \in Nat, Shared(e, d, k)
  PROVE  f[k] = g[k]
<1> DEFINE T == {i \in Nat : i <= k => f[i] = g[i]}
<1>0. Len(e) \in Nat /\ Len(d) \in Nat
  OBVIOUS
<1>1. /\ f[0] = g[0]
      /\ \A i \in 1..Len(e) : f[i] = RouteEvent(f[i - 1], e[i])
      /\ \A i \in 1..Len(d) : g[i] = RouteEvent(g[i - 1], d[i])
  BY DEF Leads
<1>2. 0 \in T
  BY <1>1
<1>3. ASSUME NEW i \in T PROVE i + 1 \in T
  <2> SUFFICES ASSUME i + 1 <= k PROVE f[i + 1] = g[i + 1]
    OBVIOUS
  <2>1. i + 1 \in 1..k /\ (i + 1) - 1 = i /\ f[i] = g[i] /\ i + 1 \in 1..Len(e) /\ i + 1 \in 1..Len(d)
    BY <1>0 DEF Shared
  <2>2. f[i + 1] = RouteEvent(f[i], e[i + 1]) /\ g[i + 1] = RouteEvent(g[i], d[i + 1])
    BY <1>1, <2>1
  <2>3. e[i + 1] = d[i + 1]
    BY <2>1 DEF Shared
  <2> QED
    BY <2>1, <2>2, <2>3
<1>4. T = Nat
  <2>1. T \in SUBSET Nat
    OBVIOUS
  <2> HIDE DEF T
  <2> QED
    BY <1>2, <1>3, <2>1, Induction
<1> QED
  BY <1>4

\* The stages of events, one by one.
LEMMA RouteLast ==
  ASSUME NEW sr, Ready(sr), NEW e \in Seq(Events), NEW d \in Seq(Events),
         Len(d) = Len(e) + 1, \A i \in 1..Len(e) : d[i] = e[i]
  PROVE  Route(sr, d) = RouteEvent(Route(sr, e), d[Len(d)])
<1>1. PICK f : Leads(f, sr, e) /\ Route(sr, e) = f[Len(e)]
  BY RouteIs
<1>2. PICK g : Leads(g, sr, d) /\ Route(sr, d) = g[Len(d)]
  BY RouteIs
<1>3. Len(e) \in Nat /\ Len(e) <= Len(d) /\ Len(d) \in 1..Len(d) /\ Len(d) - 1 = Len(e)
  OBVIOUS
<1>4. g[Len(e)] = f[Len(e)]
  <2>1. PICK k \in Nat : Is(k, Len(e))
    BY <1>3 DEF Is
  <2>2. Shared(e, d, k)
    BY <1>3, <2>1 DEF Shared, Is
  <2>3. f[k] = g[k]
    BY <1>1, <1>2, <2>2, LeadsAgree
  <2> QED
    BY <2>1, <2>3 DEF Is
<1>5. g[Len(d)] = RouteEvent(g[Len(d) - 1], d[Len(d)])
  BY <1>2, <1>3 DEF Leads
<1> QED
  BY <1>1, <1>2, <1>3, <1>4, <1>5

\* The splitter is between two texts after any events.
LEMMA RouteReady ==
  ASSUME NEW sr, Ready(sr), NEW e \in Seq(Events)
  PROVE  Ready(Route(sr, e))
<1>1. PICK f : Leads(f, sr, e) /\ Route(sr, e) = f[Len(e)]
  BY RouteIs
<1>2. Len(e) \in 0..Len(e)
  OBVIOUS
<1> QED
  BY <1>1, <1>2 DEF Leads, ReadyStages

\* No events change nothing.
LEMMA RouteNothing ==
  ASSUME NEW sr, Ready(sr)
  PROVE  Route(sr, <<>>) = sr
<1>1. <<>> \in Seq(Events) /\ Len(<<>>) = 0
  BY EmptySeq
<1>2. PICK f : Leads(f, sr, <<>>) /\ Route(sr, <<>>) = f[Len(<<>>)]
  BY <1>1, RouteIs
<1> QED
  BY <1>1, <1>2 DEF Leads

\* The last event is routed after the others.
LEMMA RouteAppend ==
  ASSUME NEW sr, Ready(sr), NEW e \in Seq(Events), NEW x \in Events
  PROVE  Route(sr, Append(e, x)) = RouteEvent(Route(sr, e), x)
<1>1. PICK d \in Seq(Events) : Is(d, Append(e, x)) /\ Len(d) = Len(e) + 1
        /\ d[Len(e) + 1] = x /\ \A i \in 1..Len(e) : d[i] = e[i]
  BY AppendEvent DEF Is
<1>2. Route(sr, d) = RouteEvent(Route(sr, e), d[Len(d)])
  BY <1>1, RouteLast
<1> QED
  BY <1>1, <1>2 DEF Is

\* Text given out is text split.
LEMMA RouteEmit ==
  ASSUME NEW sr, Ready(sr), NEW e \in Seq(Events), NEW x \in AnyText
  PROVE  Route(sr, EmitText(e, x)) = SplitText(Route(sr, e), x)
<1>1. CASE x = <<>>
  <2>1. EmitText(e, <<>>) = e
    BY <1>1, EmitTextIs
  <2>2. SplitText(Route(sr, e), <<>>) = Route(sr, e)
    BY RouteReady, SplitNothing
  <2> QED
    BY <1>1, <2>1, <2>2
<1>2. CASE x # <<>> /\ ~(e # <<>> /\ ~e[Len(e)].call)
  <2>1. EmitText(e, x) = Append(e, TextEvent(x))
    BY <1>2, EmitTextIs
  <2>2. PICK y \in Events : Is(y, TextEvent(x)) /\ y.text = x /\ ~y.call
    BY TextEventIs DEF Is
  <2>3. Route(sr, Append(e, y)) = RouteEvent(Route(sr, e), y)
    BY RouteAppend
  <2>4. RouteEvent(Route(sr, e), y) = SplitText(Route(sr, e), x)
    BY <2>2 DEF RouteEvent
  <2> QED
    BY <2>1, <2>2, <2>3, <2>4 DEF Is
<1>3. CASE x # <<>> /\ e # <<>> /\ ~e[Len(e)].call
  <2>1. EmitText(e, x) = Joined(e, x)
    BY <1>3, EmitTextIs
  <2>2. PICK d \in Seq(Events) : Is(d, Joined(e, x)) /\ Len(d) = Len(e)
          /\ Len(e) \in Nat \ {0} /\ (\A i \in 1..Len(e) : i # Len(e) => d[i] = e[i])
          /\ d[Len(e)].call = e[Len(e)].call /\ d[Len(e)].text = e[Len(e)].text \o x
    BY <1>3, JoinedIs DEF Is
  <2>3. PICK f : Leads(f, sr, e) /\ Route(sr, e) = f[Len(e)]
    BY RouteIs
  <2>4. PICK g : Leads(g, sr, d) /\ Route(sr, d) = g[Len(d)]
    BY RouteIs
  <2>5. PICK k \in Nat : k = Len(e) - 1
    BY <2>2, SMTT(30)
  <2>6. g[k] = f[k]
    <3>1. Shared(e, d, k)
      BY <2>2, <2>5 DEF Shared
    <3> QED
      BY <2>3, <2>4, <3>1, LeadsAgree
  <2>7. /\ f[Len(e)] = RouteEvent(f[k], e[Len(e)])
        /\ g[Len(e)] = RouteEvent(g[k], d[Len(e)])
        /\ Ready(f[k])
    <3>1. Len(e) \in 1..Len(e) /\ k \in 0..Len(e) /\ Len(d) = Len(e)
      BY <2>2, <2>5
    <3> QED
      BY <2>3, <2>4, <2>5, <3>1 DEF Leads, ReadyStages
  <2>8. e[Len(e)].text \in AnyText
    <3>1. e[Len(e)] \in Events
      BY <2>2, ElementOfSeq
    <3> QED
      BY <3>1 DEF Events
  <2>9. SplitText(SplitText(f[k], e[Len(e)].text), x) = SplitText(f[k], e[Len(e)].text \o x)
    BY <2>7, <2>8, SplitTwice
  <2>10. f[Len(e)] = SplitText(f[k], e[Len(e)].text)
    BY <1>3, <2>7 DEF RouteEvent
  <2>11. g[Len(e)] = SplitText(f[k], e[Len(e)].text \o x)
    BY <1>3, <2>2, <2>6, <2>7 DEF RouteEvent
  <2>12. Route(sr, d) = g[Len(e)]
    BY <2>2, <2>4
  <2> QED
    BY <2>1, <2>2, <2>3, <2>9, <2>10, <2>11, <2>12 DEF Is
<1> QED
  BY <1>1, <1>2, <1>3

\* One piece of text.
LEMMA RouteText ==
  ASSUME NEW sr, Ready(sr), NEW x \in AnyText
  PROVE  Route(sr, <<TextEvent(x)>>) = SplitText(sr, x)
<1>1. PICK y \in Events : Is(y, TextEvent(x)) /\ y.text = x /\ ~y.call
  BY TextEventIs DEF Is
<1>2. <<>> \in Seq(Events) /\ Append(<<>>, y) = <<y>>
  BY EmptySeq
<1>3. Route(sr, Append(<<>>, y)) = RouteEvent(Route(sr, <<>>), y)
  BY <1>2, RouteAppend
<1>4. RouteEvent(sr, y) = SplitText(sr, x)
  BY <1>1 DEF RouteEvent
<1> QED
  BY <1>1, <1>2, <1>3, <1>4, RouteNothing DEF Is

----------------------------------------------------------------------------
\* Without tools: reasoning, then the answer.

\* The splitter and the reply of a new answer; and as the state has them.
NewStage(o) == Staged(o.thinking, <<>>, <<>>, <<>>, <<>>)
Stage(sp, r) == [splitter |-> sp, reply |-> r]

\* A new splitter is between two texts.
LEMMA NewStageReady ==
  ASSUME NEW o \in Options
  PROVE  /\ Ready(NewStage(o))
         /\ NewStage(o) = Stage(NewSplitter(o), NewReply)
<1>1. o.thinking \in BOOLEAN /\ <<>> \in AnyText /\ <<>> \in Seq(AnyText)
  BY StopsOf, JoinNothing, EmptySeq
<1>2. Ready(NewStage(o))
  BY <1>1, StagedType, NothingSettled DEF NewStage
<1>3. NewStage(o) = Stage(NewSplitter(o), NewReply)
  BY DEF NewStage, Staged, Stage, NewSplitter, NewReply
<1> QED
  BY <1>2, <1>3

\* What the parser p gives out.
Giving(p, e) == [p EXCEPT !.events = e]

\* A parser that gives out other events is otherwise the same.
LEMMA GivingIs ==
  ASSUME NEW p \in Parsers, NEW e
  PROVE  /\ Giving(p, e).events = e /\ Quiet(Giving(p, e)) = Quiet(p)
         /\ Giving(p, e).failed = p.failed /\ Quiet(p).failed = p.failed
         /\ p.events = <<>> => Quiet(p) = p
<1>1. Giving(p, e).events = e /\ Giving(p, e).failed = p.failed
  BY DEF Giving, Parsers
<1>2. Quiet(Giving(p, e)) = Quiet(p)
  BY DEF Giving, Quiet, Parsers
<1>3. ASSUME p.events = <<>> PROVE Quiet(p) = p
  <2>1. PICK q \in Parsers : Is(q, Quiet(p)) /\ q.pending = p.pending /\ q.events = <<>>
         /\ q.thinking = p.thinking /\ q.inCall = p.inCall
         /\ q.calls = p.calls /\ q.failed = p.failed
    BY QuietIs DEF Is
  <2>2. q = p
    BY <1>3, <2>1, SameParser
  <2> QED
    BY <2>1, <2>2 DEF Is
<1>4. Quiet(p).failed = p.failed
  BY QuietIs
<1> QED
  BY <1>1, <1>2, <1>3, <1>4

\* The parts of a new parser.
LEMMA NewParserIs ==
  ASSUME NEW o \in Options
  PROVE  /\ NewParser(o) \in Parsers /\ NewParser(o).events = <<>>
         /\ NewParser(o).pending = <<>> /\ NewParser(o).thinking = o.thinking
         /\ NewParser(o).inCall = FALSE /\ NewParser(o).calls = 0 /\ NewParser(o).failed = FALSE
<1>1. o.thinking \in BOOLEAN /\ <<>> \in AnyText /\ <<>> \in Seq(Events)
  BY StopsOf, JoinNothing, EmptySeq
<1> QED
  BY <1>1 DEF NewParser, Parsers

\* Text without tools: the parser lets it through.
LEMMA PlainRoute ==
  ASSUME NEW o \in Options, ~o.tools, NEW v \in AnyText, NEW x \in AnyText, NEW sp, NEW r,
         Stage(sp, r) = SplitText(NewStage(o), v)
  PROVE  LET q == ParserPush(o, NewParser(o), x)
         IN  /\ Quiet(q) = NewParser(o)
             /\ Sorted(sp, r, q) = SplitText(NewStage(o), v \o x)
             /\ Ready(Sorted(sp, r, q))
<1> DEFINE p == NewParser(o)
           q == ParserPush(o, p, x)
<1>1. p \in Parsers /\ p.events = <<>>
  BY NewParserIs
<1> HIDE DEF p
<1>2. q = Giving(p, <<TextEvent(x)>>)
  BY DEF ParserPush, Giving
<1> HIDE DEF q
<1>3. Quiet(q) = p /\ q.events = <<TextEvent(x)>>
  BY <1>1, <1>2, GivingIs
<1>4. Ready(NewStage(o)) /\ Ready(SplitText(NewStage(o), v))
  BY NewStageReady, SplitReady
<1>5. Sorted(sp, r, q) = Route(SplitText(NewStage(o), v), <<TextEvent(x)>>)
  BY <1>3 DEF Sorted, Stage
<1>6. Route(SplitText(NewStage(o), v), <<TextEvent(x)>>) = SplitText(SplitText(NewStage(o), v), x)
  BY <1>4, RouteText
<1>7. SplitText(SplitText(NewStage(o), v), x) = SplitText(NewStage(o), v \o x)
  BY <1>4, SplitTwice
<1>8. Ready(SplitText(SplitText(NewStage(o), v), x))
  BY <1>4, SplitReady
<1> QED
  BY <1>3, <1>5, <1>6, <1>7, <1>8 DEF p, q

\* The state without tools, with and without what the splitter holds.
PlainInv ==
  ~options.tools =>
    /\ parser = NewParser(options)
    /\ status = "open" => Stage(splitter, reply) = SplitText(NewStage(options), visible)
    /\ status = "finished" =>
         Stage(splitter, reply) = SplitFlush(SplitText(NewStage(options), visible))
    /\ status \in {"open", "finished"}

\* The two parts of a stage.
LEMMA StageParts ==
  ASSUME NEW sr, Ready(sr)
  PROVE  Stage(sr.splitter, sr.reply) = sr
<1> QED
  BY DEF Stage, Ready, Stages

\* Without tools, a chunk leaves the splitter where all the text at once
\* would.
LEMMA PlainPush ==
  ASSUME NEW o \in Options, ~o.tools, NEW s, NEW v, NEW rd, NEW x \in AnyText,
         StopHolds(o, s, v, rd), ~s.stopped, NEW sp, NEW r,
         Stage(sp, r) = SplitText(NewStage(o), v)
  PROVE  LET st == DoPush(o, Whole(s, NewParser(o), sp, r, v), x)
         IN  /\ st = Whole(st.stop, NewParser(o), st.splitter, st.reply, st.visible)
             /\ Stage(st.splitter, st.reply) = SplitText(NewStage(o), st.visible)
             /\ StopHolds(o, st.stop, st.visible, rd \o x)
<1> DEFINE f == StopPush(s, x)
           q == ParserPush(o, NewParser(o), f.out)
           sr == Sorted(sp, r, q)
           w == v \o f.out
           fs == f.stop
           a == sr.splitter
           b == sr.reply
           st == DoPush(o, Whole(s, NewParser(o), sp, r, v), x)
<1>1. f.out \in AnyText /\ StopHolds(o, fs, w, rd \o x) /\ v \in AnyText
  <2>1. o.stops \in AnyMarkers
    BY StopsOf
  <2>2. f.out \in AnyText /\ StopHolds(o, f.stop, v \o f.out, rd \o x)
    BY <2>1, StopPushKeeps
  <2> QED
    BY <2>2 DEF StopHolds
<1>2. Quiet(q) = NewParser(o) /\ sr = SplitText(NewStage(o), w) /\ Ready(sr)
  <2> HIDE DEF f
  <2> QED
    BY <1>1, PlainRoute
<1>3. st = Whole(fs, Quiet(q), a, b, w)
  BY PushIs
<1>4. Stage(a, b) = SplitText(NewStage(o), w)
  <2> HIDE DEF sr
  <2> QED
    BY <1>2, StageParts
<1> HIDE DEF f, q, sr, w, fs, a, b, st
<1>5. st = Whole(fs, NewParser(o), a, b, w)
  BY <1>2, <1>3
<1>6. st.stop = fs /\ st.splitter = a /\ st.reply = b /\ st.visible = w
  BY <1>5, PartsAre
<1>7. /\ st = Whole(st.stop, NewParser(o), st.splitter, st.reply, st.visible)
      /\ Stage(st.splitter, st.reply) = SplitText(NewStage(o), st.visible)
      /\ StopHolds(o, st.stop, st.visible, rd \o x)
  BY <1>1, <1>4, <1>5, <1>6
<1> QED
  BY <1>7 DEF st

\* Without tools, the end leaves the reply of all the text at once.
LEMMA PlainFinish ==
  ASSUME NEW o \in Options, ~o.tools, NEW s, NEW v \in AnyText, s.pending \in AnyText,
         NEW sp, NEW r, Stage(sp, r) = SplitText(NewStage(o), v)
  PROVE  LET st == DoFinish(o, Whole(s, NewParser(o), sp, r, v))
         IN  /\ st.parser = NewParser(o)
             /\ Stage(st.splitter, st.reply) = SplitFlush(SplitText(NewStage(o), st.visible))
<1> DEFINE p  == NewParser(o)
           x  == s.pending
           q  == ParserPush(o, p, x)
           q1 == Quiet(q)
           sr == Sorted(sp, r, q)
           q2 == ParserFinish(o, q1)
           q3 == Quiet(q2)
           to == Sorted(sr.splitter, sr.reply, q2)
           fl == SplitFlush([splitter |-> to.splitter, reply |-> to.reply])
           e  == Emptied(s)
           w  == v \o x
           a == fl.splitter
           b == fl.reply
           st == DoFinish(o, Whole(s, p, sp, r, v))
<1>1. st = IF p.failed THEN Whole(s, p, sp, r, v)
           ELSE IF q1.failed THEN Whole(e, q1, sr.splitter, sr.reply, w)
           ELSE IF q3.failed THEN Whole(e, q3, to.splitter, to.reply, w)
           ELSE Whole(e, q3, a, b, w)
  BY FinishIs
<1>2. p \in Parsers /\ p.events = <<>> /\ p.failed = FALSE
  BY NewParserIs
<1>3. q1 = p /\ sr = SplitText(NewStage(o), w) /\ Ready(sr)
  <2> HIDE DEF x
  <2> QED
    BY PlainRoute DEF x
<1> HIDE DEF p, q1, sr, q
<1>4. q2 = Giving(p, <<>>)
  BY <1>3 DEF ParserFinish, Giving
<1> HIDE DEF q2
<1>5. q3 = p /\ q2.events = <<>>
  BY <1>2, <1>4, GivingIs
<1>6. to = sr
  <2>1. to = Route(Stage(sr.splitter, sr.reply), <<>>)
    BY <1>5 DEF Sorted, Stage
  <2> HIDE DEF to
  <2>2. Route(sr, <<>>) = sr
    BY <1>3, RouteNothing
  <2> QED
    BY <1>3, <2>1, <2>2, StageParts
<1> HIDE DEF to
<1>7. fl = SplitFlush(sr)
  <2>1. Stage(sr.splitter, sr.reply) = sr
    BY <1>3, StageParts
  <2> QED
    BY <1>6, <2>1 DEF Stage
<1>8. Stage(fl.splitter, fl.reply) = fl
  BY DEF Stage, SplitFlush
<1> HIDE DEF fl, a, b, e, w, q3, st
<1>9. st = Whole(e, p, a, b, w)
  BY <1>1, <1>2, <1>3, <1>5
<1>10. st.parser = p /\ st.splitter = a /\ st.reply = b /\ st.visible = w
  BY <1>9, PartsAre
<1>11. Stage(a, b) = SplitFlush(SplitText(NewStage(o), w))
  BY <1>3, <1>7, <1>8 DEF a, b
<1>12. st.parser = p /\ Stage(st.splitter, st.reply) = SplitFlush(SplitText(NewStage(o), st.visible))
  BY <1>10, <1>11
<1> QED
  BY <1>12 DEF st, p

\* A new answer has no text.
LEMMA PlainInvInit == OutputInit => PlainInv
<1> SUFFICES ASSUME OutputInit PROVE PlainInv
  OBVIOUS
<1>1. options \in Options /\ status = "open" /\ visible = <<>> /\ parser = NewParser(options)
      /\ splitter = NewSplitter(options) /\ reply = NewReply
  BY DEF OutputInit
<1>2. Stage(splitter, reply) = NewStage(options) /\ Ready(NewStage(options))
  BY <1>1, NewStageReady
<1>3. SplitText(NewStage(options), <<>>) = NewStage(options)
  BY <1>2, SplitNothing
<1> QED
  BY <1>1, <1>2, <1>3 DEF PlainInv

\* A chunk keeps the splitter where all the text would leave it.
LEMMA PlainInvPush ==
  ASSUME StopInv, PlainInv, NEW chunk \in Chunks(options), Push(chunk)
  PROVE  PlainInv'
<1>1. options \in Options /\ chunk \in AnyText /\ options' = options
  BY StopsOf DEF StopInv, Push
<1> SUFFICES ASSUME ~options.tools PROVE PlainInv'
  BY <1>1 DEF PlainInv
<1>2. StopHolds(options, stop, visible, raw) /\ ~stop.stopped /\ status = "open"
  BY DEF StopInv, Push
<1>3. parser = NewParser(options) /\ Stage(splitter, reply) = SplitText(NewStage(options), visible)
  BY <1>2 DEF PlainInv
<1>4. State = Whole(stop, NewParser(options), splitter, reply, visible)
  BY <1>3 DEF State, Whole
<1> DEFINE st == DoPush(options, State, chunk)
<1>5. /\ st = Whole(st.stop, NewParser(options), st.splitter, st.reply, st.visible)
      /\ Stage(st.splitter, st.reply) = SplitText(NewStage(options), st.visible)
  <2> DEFINE su == DoPush(options, Whole(stop, NewParser(options), splitter, reply, visible), chunk)
  <2>1. /\ su = Whole(su.stop, NewParser(options), su.splitter, su.reply, su.visible)
        /\ Stage(su.splitter, su.reply) = SplitText(NewStage(options), su.visible)
        /\ StopHolds(options, su.stop, su.visible, raw \o chunk)
    BY <1>1, <1>2, <1>3, PlainPush
  <2>2. st = su
    BY <1>4
  <2> QED
    BY <2>1, <2>2
<1> HIDE DEF st
<1>6. st.parser = NewParser(options)
  BY <1>5, PartsAre
<1>7. /\ parser' = st.parser /\ splitter' = st.splitter /\ reply' = st.reply /\ visible' = st.visible
      /\ status' = IF st.parser.failed THEN "failed" ELSE "open"
  BY DEF Push, Becomes, st
<1>8. NewParser(options).failed = FALSE
  BY <1>1, NewParserIs
<1> QED
  BY <1>1, <1>5, <1>6, <1>7, <1>8 DEF PlainInv

\* So does the end of the answer.
LEMMA PlainInvFinish ==
  ASSUME StopInv, PlainInv, NEW tail \in Chunks(options), Finish(tail)
  PROVE  PlainInv'
<1>1. options \in Options /\ tail \in AnyText /\ options' = options
  BY StopsOf DEF StopInv, Finish
<1> SUFFICES ASSUME ~options.tools PROVE PlainInv'
  BY <1>1 DEF PlainInv
<1>2. StopHolds(options, stop, visible, raw) /\ status = "open"
  BY DEF StopInv, Finish
<1>3. parser = NewParser(options) /\ Stage(splitter, reply) = SplitText(NewStage(options), visible)
  BY <1>2 DEF PlainInv
<1>4. State = Whole(stop, NewParser(options), splitter, reply, visible)
  BY <1>3 DEF State, Whole
<1>5. PICK s, sp, r, v : /\ DoPush(options, State, tail) = Whole(s, NewParser(options), sp, r, v)
                         /\ Stage(sp, r) = SplitText(NewStage(options), v)
                         /\ \E rd : StopHolds(options, s, v, rd)
  <2>1. CASE stop.stopped
    BY <1>2, <1>3, <1>4, <2>1, PushIs
  <2>2. CASE ~stop.stopped
    <3> DEFINE st == DoPush(options, State, tail)
    <3>1. /\ st = Whole(st.stop, NewParser(options), st.splitter, st.reply, st.visible)
          /\ Stage(st.splitter, st.reply) = SplitText(NewStage(options), st.visible)
          /\ StopHolds(options, st.stop, st.visible, raw \o tail)
      <4> DEFINE su == DoPush(options, Whole(stop, NewParser(options), splitter, reply, visible), tail)
      <4>1. /\ su = Whole(su.stop, NewParser(options), su.splitter, su.reply, su.visible)
            /\ Stage(su.splitter, su.reply) = SplitText(NewStage(options), su.visible)
            /\ StopHolds(options, su.stop, su.visible, raw \o tail)
        BY <1>1, <1>2, <1>3, <2>2, PlainPush
      <4>2. st = su
        BY <1>4
      <4> QED
        BY <4>1, <4>2
    <3> HIDE DEF st
    <3> QED
      BY <3>1 DEF st
  <2> QED
    BY <2>1, <2>2
<1>6. s.pending \in AnyText /\ v \in AnyText
  BY <1>5 DEF StopHolds
<1> DEFINE st == DoFinish(options, DoPush(options, State, tail))
<1>7. /\ st.parser = NewParser(options)
      /\ Stage(st.splitter, st.reply) = SplitFlush(SplitText(NewStage(options), st.visible))
  BY <1>1, <1>5, <1>6, PlainFinish
<1> HIDE DEF st
<1>8. /\ parser' = st.parser /\ splitter' = st.splitter /\ reply' = st.reply /\ visible' = st.visible
      /\ status' = IF st.parser.failed THEN "failed" ELSE "finished"
  BY DEF Finish, Becomes, st
<1>9. NewParser(options).failed = FALSE
  BY <1>1, NewParserIs
<1> QED
  BY <1>1, <1>7, <1>8, <1>9 DEF PlainInv

\* Every step keeps the invariant of the splitter.
LEMMA PlainInvNext == StopInv /\ PlainInv /\ [OutputNext]_outputVars => PlainInv'
<1> SUFFICES ASSUME StopInv, PlainInv, [OutputNext]_outputVars PROVE PlainInv'
  OBVIOUS
<1>1. CASE OutputNext
  <2>1. PICK chunk \in Chunks(options) : Push(chunk) \/ Finish(chunk)
    BY <1>1 DEF OutputNext, Following
  <2> QED
    BY <2>1, PlainInvPush, PlainInvFinish
<1>2. CASE UNCHANGED outputVars
  BY <1>2 DEF outputVars, PlainInv
<1> QED
  BY <1>1, <1>2

\* Replies.
Replies == [content : AnyText, reasoning : AnyText, calls : Seq(AnyText)]

\* What is said goes to one side of the reply.
LEMMA SayIs ==
  \A r \in Replies : \A x :
        /\ Say(r, TRUE, x).content = r.content /\ Say(r, TRUE, x).reasoning = r.reasoning \o x
        /\ Say(r, TRUE, x).calls = r.calls
        /\ Say(r, FALSE, x).content = r.content \o x /\ Say(r, FALSE, x).reasoning = r.reasoning
        /\ Say(r, FALSE, x).calls = r.calls
<1> QED
  BY DEF Say, Replies

\* What the reply has once the splitter is flushed.
LEMMA FlushSays ==
  ASSUME NEW sr \in Stages
  PROVE  /\ sr.splitter.thinking =>
              /\ SplitFlush(sr).reply.content = sr.reply.content
              /\ SplitFlush(sr).reply.reasoning = sr.reply.reasoning \o sr.splitter.pending
         /\ ~sr.splitter.thinking =>
              /\ SplitFlush(sr).reply.content = sr.reply.content \o sr.splitter.pending
              /\ SplitFlush(sr).reply.reasoning = sr.reply.reasoning
         /\ SplitFlush(sr).reply.calls = sr.reply.calls
<1>1. /\ sr.reply \in [content : AnyText, reasoning : AnyText, calls : Seq(AnyText)]
      /\ sr.splitter.thinking \in BOOLEAN
  BY DEF Stages
<1>2. SplitFlush(sr).reply = Say(sr.reply, sr.splitter.thinking, sr.splitter.pending)
  BY DEF SplitFlush
<1>3. PICK r \in Replies : Is(r, sr.reply)
  BY <1>1 DEF Is, Replies
<1>4. CASE sr.splitter.thinking
  <2>1. SplitFlush(sr).reply = Say(sr.reply, TRUE, sr.splitter.pending)
    BY <1>2, <1>4 DEF Say
  <2>2. LET f == Say(r, TRUE, sr.splitter.pending)
        IN  f.content = r.content /\ f.reasoning = r.reasoning \o sr.splitter.pending /\ f.calls = r.calls
    BY SayIs
  <2> QED
    BY <1>3, <1>4, <2>1, <2>2 DEF Is
<1>5. CASE ~sr.splitter.thinking
  <2>1. SplitFlush(sr).reply = Say(sr.reply, FALSE, sr.splitter.pending)
    BY <1>2, <1>5 DEF Say
  <2>2. LET f == Say(r, FALSE, sr.splitter.pending)
        IN  f.content = r.content \o sr.splitter.pending /\ f.reasoning = r.reasoning /\ f.calls = r.calls
    BY SayIs
  <2> QED
    BY <1>3, <1>5, <2>1, <2>2 DEF Is
<1> QED
  BY <1>4, <1>5

\* The parts of a stage.
LEMMA StagedParts ==
  \A th, pe, co, re, ca :
    /\ Staged(th, pe, co, re, ca).splitter.thinking = th
    /\ Staged(th, pe, co, re, ca).splitter.pending = pe
    /\ Staged(th, pe, co, re, ca).reply.content = co
    /\ Staged(th, pe, co, re, ca).reply.reasoning = re
    /\ Staged(th, pe, co, re, ca).reply.calls = ca
<1> QED
  BY DEF Staged

\* What the reply has once all is said.
LEMMA PlainSays ==
  ASSUME NEW th \in BOOLEAN, NEW v \in AnyText
  PROVE  LET sr  == SplitText(Staged(th, <<>>, <<>>, <<>>, <<>>), v)
             hit == Find(v, {ThinkEnd})
             fl  == SplitFlush(sr).reply
         IN  /\ ~th => fl.reasoning = <<>> /\ fl.content = v
             /\ th /\ hit = 0 => fl.reasoning = v /\ fl.content = <<>>
             /\ th /\ hit # 0 => fl.reasoning = Take(v, hit - 1)
                                 /\ fl.content = Drop(v, hit + Len(ThinkEnd) - 1)
             /\ sr.reply.calls = <<>> /\ fl.calls = <<>>
<1> DEFINE hit == Find(v, {ThinkEnd})
           n   == Len(v) - Held(v, {ThinkEnd})
           sr  == SplitText(Staged(th, <<>>, <<>>, <<>>, <<>>), v)
           fl  == SplitFlush(sr).reply
           a   == Take(v, hit - 1)
           b   == Drop(v, hit + Len(ThinkEnd) - 1)
           c   == Take(v, n)
           d   == Drop(v, n)
           ca  == <<>>
<1>0. /\ <<>> \in AnyText /\ <<>> \in Seq(AnyText) /\ ca \in Seq(AnyText)
      /\ \A x \in AnyText : <<>> \o x = x /\ x \o <<>> = x
  BY JoinNothing, EmptySeq
<1>1. sr = Split(th, v, <<>>, <<>>, <<>>)
  <2>1. <<>> \o v = v
    BY <1>0
  <2>2. SplitText(Staged(th, <<>>, <<>>, <<>>, <<>>), v) = Split(th, <<>> \o v, <<>>, <<>>, <<>>)
    <3>1. \A pe \in AnyText, co \in AnyText, re \in AnyText :
            SplitText(Staged(th, pe, co, re, ca), v) = Split(th, pe \o v, co, re, ca)
      <4> HIDE DEF ca
      <4> QED
        BY <1>0, SplitTextIs
    <3> QED
      BY <1>0, <3>1
  <2> QED
    BY <2>1, <2>2
<1>2. /\ hit \in Nat
      /\ c \in AnyText /\ d \in AnyText /\ (hit > 0 => a \in AnyText /\ b \in AnyText)
      /\ c \o d = v
  <2>1. /\ hit \in Nat /\ n \in 0..Len(v)
        /\ c \in AnyText /\ d \in AnyText /\ (hit > 0 => a \in AnyText /\ b \in AnyText)
    BY CutsOf
  <2>2. c \o d = v
    <3> HIDE DEF n
    <3> QED
      BY <2>1, TakeAndDrop DEF AnyText
  <2> QED
    BY <2>1, <2>2
<1>3. sr \in Stages
  <2>1. Ready(Staged(th, <<>>, <<>>, <<>>, <<>>))
    BY <1>0, StagedType, NothingSettled
  <2> QED
    BY <2>1, SplitReady DEF Ready
<1>4. CASE ~th
  <2>0. <<>> \o v = v /\ v \o <<>> = v /\ th = FALSE
    BY <1>0, <1>4
  <2>1. sr = Staged(FALSE, <<>>, <<>> \o v, <<>>, <<>>)
    BY <1>0, <1>1, <1>4 DEF Split
  <2>2. sr = Staged(th, <<>>, v, <<>>, ca)
    BY <2>0, <2>1
  <2> HIDE DEF sr, ca
  <2>3. fl.content = v \o <<>> /\ fl.reasoning = <<>> /\ fl.calls = ca /\ sr.reply.calls = ca
    <3>1. /\ sr.splitter.thinking = th /\ sr.splitter.pending = <<>> /\ sr.reply.content = v
          /\ sr.reply.reasoning = <<>> /\ sr.reply.calls = ca
      BY <2>2, StagedParts
    <3> QED
      BY <1>3, <1>4, <3>1, FlushSays
  <2> HIDE DEF fl
  <2> QED
    BY <1>4, <2>0, <2>3 DEF ca, fl, sr
<1>5. CASE th /\ hit > 0
  <2>0. <<>> \o b = b /\ <<>> \o a = a /\ b \o <<>> = b /\ a \o <<>> = a /\ th = TRUE
    BY <1>0, <1>2, <1>5
  <2>1. sr = Staged(FALSE, <<>>, <<>> \o b, <<>> \o a, <<>>)
    BY <1>1, <1>5 DEF Split
  <2>2. PICK t \in BOOLEAN : t = FALSE
    OBVIOUS
  <2>3. sr = Staged(t, <<>>, b, a, ca)
    BY <2>0, <2>1, <2>2
  <2> HIDE DEF sr, ca, a, b
  <2>4. fl.content = b \o <<>> /\ fl.reasoning = a /\ fl.calls = ca /\ sr.reply.calls = ca
    <3>1. /\ sr.splitter.thinking = t /\ sr.splitter.pending = <<>> /\ sr.reply.content = b
          /\ sr.reply.reasoning = a /\ sr.reply.calls = ca
      BY <2>3, StagedParts
    <3> QED
      BY <1>3, <2>2, <3>1, FlushSays
  <2> HIDE DEF fl, hit
  <2>7. hit # 0
    BY <1>5
  <2> QED
    BY <1>5, <2>0, <2>4, <2>7 DEF ca, fl, sr, a, b, hit
<1>6. CASE th /\ ~(hit > 0)
  <2>0. <<>> \o c = c /\ th = TRUE
    BY <1>0, <1>2, <1>6
  <2>1. sr = Staged(TRUE, d, <<>>, <<>> \o c, <<>>)
    BY <1>1, <1>6 DEF Split
  <2>3. sr = Staged(th, d, <<>>, c, ca)
    BY <2>0, <2>1
  <2> HIDE DEF sr, ca, c, d
  <2>4. fl.content = <<>> /\ fl.reasoning = c \o d /\ fl.calls = ca /\ sr.reply.calls = ca
    <3>1. /\ sr.splitter.thinking = th /\ sr.splitter.pending = d /\ sr.reply.content = <<>>
          /\ sr.reply.reasoning = c /\ sr.reply.calls = ca
      BY <2>3, StagedParts
    <3> QED
      BY <1>3, <1>6, <3>1, FlushSays
  <2> HIDE DEF fl, hit
  <2>7. hit = 0
    BY <1>2, <1>6
  <2> QED
    BY <1>2, <1>6, <2>4, <2>7 DEF ca, fl, sr, hit
<1> QED
  BY <1>4, <1>5, <1>6

\* The invariant says where reasoning ends and the answer begins.
LEMMA PlainInvMeans ==
  StopInv /\ PlainInv =>
    ReasoningThenAnswer /\ (~options.tools => reply.calls = <<>> \/ status = "failed")
<1> SUFFICES ASSUME StopInv, PlainInv, ~options.tools
             PROVE  ReasoningThenAnswer /\ (reply.calls = <<>> \/ status = "failed")
  BY DEF ReasoningThenAnswer
<1>1. options \in Options /\ visible \in AnyText /\ options.thinking \in BOOLEAN
  <2>1. options \in Options /\ options.thinking \in BOOLEAN
    BY StopsOf DEF StopInv
  <2>2. CASE StopHolds(options, stop, visible, raw)
    BY <2>1, <2>2 DEF StopHolds
  <2>3. CASE AllRead(options, stop, visible, raw)
    <3>1. raw \in Seq(Alphabet) /\ options.stops \in SUBSET Seq(Alphabet)
      BY <2>1, StopsOf DEF StopInv, AnyText
    <3>2. Find(raw, options.stops) \in 0..Len(raw)
      BY <3>1, FindIs
    <3>3. CASE stop.stopped
      <4>1. Find(raw, options.stops) - 1 \in 0..Len(raw)
        BY <2>3, <3>1, <3>2, <3>3 DEF AllRead
      <4> QED
        BY <2>1, <2>3, <3>1, <3>3, <4>1, TakeIs DEF AllRead, AnyText
    <3>4. CASE ~stop.stopped
      BY <2>1, <2>3, <3>4 DEF AllRead, StopInv
    <3> QED
      BY <3>3, <3>4
  <2> QED
    BY <2>1, <2>2, <2>3 DEF StopInv
<1> DEFINE sr == SplitText(NewStage(options), visible)
           hit == Find(visible, {ThinkEnd})
           fl == SplitFlush(sr).reply
<1>2. /\ ~options.thinking => fl.reasoning = <<>> /\ fl.content = visible
      /\ options.thinking /\ hit = 0 => fl.reasoning = visible /\ fl.content = <<>>
      /\ options.thinking /\ hit # 0 => fl.reasoning = Take(visible, hit - 1)
                          /\ fl.content = Drop(visible, hit + Len(ThinkEnd) - 1)
      /\ sr.reply.calls = <<>> /\ fl.calls = <<>>
  BY <1>1, PlainSays DEF NewStage
<1>3. status = "finished" => reply = fl
  BY DEF PlainInv, Stage
<1>4. status = "open" => reply = sr.reply
  BY DEF PlainInv, Stage
<1>5. status \in {"open", "finished"}
  BY DEF PlainInv
<1> HIDE DEF sr, hit, fl
<1>6. ReasoningThenAnswer
  BY <1>2, <1>3 DEF ReasoningThenAnswer, hit
<1> QED
  BY <1>2, <1>3, <1>4, <1>5, <1>6

\* Without tools the client gets the visible text cut at its first closing
\* think marker, wherever the chunks cut the marker.
THEOREM ReasoningFirst == OutputSpec => []ReasoningThenAnswer
<1>1. StopInv /\ PlainInv /\ [OutputNext]_outputVars => (StopInv /\ PlainInv)'
  BY StopInvNext, PlainInvNext
<1>2. OutputInit => StopInv /\ PlainInv
  BY StopInvInit, PlainInvInit
<1>3. OutputSpec => [](StopInv /\ PlainInv)
  BY <1>1, <1>2, PTL DEF OutputSpec
<1> QED
  BY <1>3, PlainInvMeans, PTL

----------------------------------------------------------------------------
\* Where a call ends.

\* The first closing marker with a text of G before it.
CloseAt(t, G) == First({i \in Places(t, {Close}) : Take(t, i - 1) \in G})

\* The closing marker it finds, and none before it.
LEMMA CloseAtIs ==
  ASSUME NEW t \in AnyText, NEW G
  PROVE  /\ CloseAt(t, G) \in 0..Len(t)
         /\ CloseAt(t, G) > 0 => /\ Stands(t, Close, CloseAt(t, G))
                                 /\ Take(t, CloseAt(t, G) - 1) \in G
         /\ \A i \in 1..Len(t) :
              Stands(t, Close, i) /\ Take(t, i - 1) \in G =>
                CloseAt(t, G) # 0 /\ CloseAt(t, G) <= i
<1> DEFINE P == {i \in Places(t, {Close}) : Take(t, i - 1) \in G}
<1>1. /\ P \in SUBSET Nat /\ P \in SUBSET (1..Len(t)) /\ Len(t) \in Nat
      /\ \A i \in 1..Len(t) : i \in P <=> Stands(t, Close, i) /\ Take(t, i - 1) \in G
  BY DEF Places, AnyText
<1>2. CloseAt(t, G) = IF P = {} THEN 0 ELSE Min(P)
  BY DEF CloseAt, First
<1> HIDE DEF P
<1>3. CASE P = {}
  BY <1>1, <1>2, <1>3
<1>4. CASE P # {}
  <2>1. Min(P) \in P /\ \A x \in P : Min(P) <= x
    BY <1>1, <1>4, MinIs
  <2>2. PICK c \in P : Is(c, CloseAt(t, G)) /\ \A x \in P : c <= x
    BY <1>2, <1>4, <2>1 DEF Is
  <2>3. /\ c \in 0..Len(t) /\ c \in 1..Len(t) /\ c # 0
        /\ Stands(t, Close, c) /\ Take(t, c - 1) \in G
        /\ \A i \in 1..Len(t) : Stands(t, Close, i) /\ Take(t, i - 1) \in G => c <= i
    BY <1>1, <2>2
  <2> QED
    BY <2>2, <2>3 DEF Is
<1> QED
  BY <1>3, <1>4

\* Text behind changes nothing.
LEMMA CloseStays ==
  ASSUME NEW t \in AnyText, NEW b \in AnyText, NEW G, CloseAt(t, G) > 0
  PROVE  CloseAt(t \o b, G) = CloseAt(t, G)
<1>1. PICK u \in AnyText : Is(u, t \o b)
  BY JoinTexts DEF Is
<1>2. PICK e \in 1..Len(t) : Is(e, CloseAt(t, G))
  <2>1. CloseAt(t, G) \in 0..Len(t) /\ Len(t) \in Nat
    BY CloseAtIs DEF AnyText
  <2> QED
    BY <2>1 DEF Is
<1>3. Len(t) \in Nat /\ Len(b) \in Nat /\ Len(u) = Len(t) + Len(b) /\ Len(Close) \in Nat \ {0}
  <2>1. Len(t \o b) = Len(t) + Len(b)
    BY ConcatProperties DEF AnyText
  <2> QED
    BY <1>1, <2>1, MarkersAre DEF AnyText, Is
<1>4. Stands(t, Close, e) /\ Take(t, e - 1) \in G
  BY <1>2, CloseAtIs DEF Is
<1>5. e + Len(Close) <= Len(t) + 1
  <2>1. t \in Seq(Alphabet) /\ Close \in Seq(Alphabet)
    BY MarkersAre DEF AnyText
  <2> QED
    BY <1>4, <2>1, StandsIs
<1>6. ASSUME NEW i \in 1..e
      PROVE  (Stands(u, Close, i) <=> Stands(t, Close, i)) /\ Take(u, i - 1) = Take(t, i - 1)
  <2>1. i \in Nat \ {0} /\ i + Len(Close) <= Len(t) + 1 /\ i - 1 \in 0..Len(t)
    BY <1>3, <1>5
  <2>2. Stands(t \o b, Close, i) <=> Stands(t, Close, i)
    BY <2>1, MarkersAre, StandsInConcat DEF AnyText
  <2>3. PICK k \in 0..Len(t) : Is(k, i - 1)
    BY <2>1 DEF Is
  <2>4. Take(t \o b, k) = Take(t, k)
    BY <2>3, CutText
  <2> QED
    BY <1>1, <2>2, <2>3, <2>4 DEF Is
<1>7. Stands(u, Close, e) /\ Take(u, e - 1) \in G /\ e \in 1..Len(u)
  BY <1>3, <1>4, <1>6
<1>8. PICK f : Is(f, CloseAt(u, G))
  BY DEF Is
<1>9. f # 0 /\ f <= e /\ f \in 0..Len(u)
  BY <1>7, <1>8, CloseAtIs DEF Is
<1>10. f \in 1..e /\ f > 0
  BY <1>3, <1>9
<1>11. Stands(u, Close, f) /\ Take(u, f - 1) \in G
  BY <1>8, <1>10, CloseAtIs DEF Is
<1>12. Stands(t, Close, f) /\ Take(t, f - 1) \in G /\ f \in 1..Len(t)
  BY <1>3, <1>6, <1>10, <1>11
<1>13. e <= f
  BY <1>2, <1>12, CloseAtIs DEF Is
<1>14. e = f
  BY <1>10, <1>13
<1> QED
  BY <1>1, <1>2, <1>8, <1>14 DEF Is

\* The texts behind which a body that begins like t may end.
BeforeEnd(t) ==
  IF Begins(t, Function) THEN {x \in AnyText : XmlMode(x) = "ended"}
  ELSE IF Begins(t, Brace) THEN {x \in AnyText : JsonMode(x) = "plain"}
  ELSE AnyText

\* The end of a call is such a closing marker, whatever the body's form.
LEMMA CallEndIs ==
  ASSUME NEW t \in AnyText
  PROVE  CallEnd(t) = CloseAt(t, BeforeEnd(t))
<1>1. \A i \in Places(t, {Close}) : Take(t, i - 1) \in AnyText
  <2> SUFFICES ASSUME NEW i \in Places(t, {Close}) PROVE Take(t, i - 1) \in AnyText
    OBVIOUS
  <2>1. i \in 1..Len(t) /\ Len(t) \in Nat
    BY DEF Places, AnyText
  <2>2. i - 1 \in 0..Len(t)
    BY <2>1
  <2> QED
    BY <2>2, TakeIs DEF AnyText
<1> DEFINE P == Places(t, {Close})
<1>2. CASE Begins(t, Function)
  <2>1. {i \in P : XmlMode(Take(t, i - 1)) = "ended"} = {i \in P : Take(t, i - 1) \in BeforeEnd(t)}
    BY <1>1, <1>2 DEF BeforeEnd
  <2>2. ~Begins(t, Brace)
    BY <1>2, TagsAssumption DEF Begins
  <2> QED
    BY <1>2, <2>1, <2>2 DEF CallEnd, XmlCallEnd, CloseAt
<1>3. CASE ~Begins(t, Function) /\ Begins(t, Brace)
  <2>1. {i \in P : JsonMode(Take(t, i - 1)) = "plain"} = {i \in P : Take(t, i - 1) \in BeforeEnd(t)}
    BY <1>1, <1>3 DEF BeforeEnd
  <2> QED
    BY <1>3, <2>1 DEF CallEnd, CloseAt
<1>4. CASE ~Begins(t, Function) /\ ~Begins(t, Brace)
  <2>1. P = {i \in P : Take(t, i - 1) \in BeforeEnd(t)}
    BY <1>1, <1>4 DEF BeforeEnd
  <2> QED
    BY <1>4, <2>1 DEF CallEnd, CloseAt, Find
<1> QED
  BY <1>2, <1>3, <1>4

\* A call that ends, ends there whatever comes behind.
LEMMA CallEndStays ==
  ASSUME NEW t \in AnyText, NEW b \in AnyText
  PROVE  /\ CallEnd(t) \in 0..Len(t)
         /\ CallEnd(t) > 0 =>
              /\ Stands(t, Close, CallEnd(t))
              /\ Take(t, CallEnd(t) - 1) \in BeforeEnd(t)
              /\ CallEnd(t \o b) = CallEnd(t)
<1>1. CallEnd(t) = CloseAt(t, BeforeEnd(t))
  BY CallEndIs
<1>2. ASSUME CallEnd(t) > 0 PROVE CallEnd(t \o b) = CallEnd(t)
  <2>1. PICK u \in AnyText : Is(u, t \o b)
    BY JoinTexts DEF Is
  <2>2. CloseAt(u, BeforeEnd(t)) = CallEnd(t)
    BY <1>1, <1>2, <2>1, CloseStays DEF Is
  <2>3. BeforeEnd(u) = BeforeEnd(t)
    <3>1. CallEnd(t) \in 0..Len(t) /\ Len(t) \in Nat
      BY <1>1, CloseAtIs DEF AnyText
    <3>2. t # <<>> /\ 1 \in 1..Len(t)
      BY <1>2, <3>1 DEF AnyText
    <3>3. (t \o b)[1] = t[1] /\ Len(t \o b) = Len(t) + Len(b) /\ Len(b) \in Nat
      BY <3>2, ConcatProperties DEF AnyText
    <3>4. u # <<>> /\ u[1] = t[1]
      BY <2>1, <3>1, <3>2, <3>3 DEF Is, AnyText
    <3> QED
      BY <3>2, <3>4 DEF BeforeEnd, Begins
  <2>4. CallEnd(u) = CloseAt(u, BeforeEnd(u))
    BY CallEndIs
  <2> QED
    BY <2>1, <2>2, <2>3, <2>4 DEF Is
<1>3. /\ CallEnd(t) \in 0..Len(t)
      /\ CallEnd(t) > 0 => Stands(t, Close, CallEnd(t)) /\ Take(t, CallEnd(t) - 1) \in BeforeEnd(t)
  BY <1>1, CloseAtIs
<1> QED
  BY <1>2, <1>3

\* The parser p behind a call: with d to read and e given out.
Ends(p, d, e) ==
  [p EXCEPT !.calls = @ + 1, !.inCall = FALSE, !.pending = d, !.events = e]

OneMore(n) == n + 1

\* Its parts; and the calls it counts.
LEMMA EndsIs ==
  ASSUME NEW p \in Parsers, NEW d \in AnyText, NEW e \in Seq(Events)
  PROVE  /\ Ends(p, d, e) \in Parsers
         /\ Ends(p, d, e).pending = d /\ Ends(p, d, e).events = e
<1>1. PICK c \in Nat : Is(c, p.calls + 1)
  <2>1. p.calls \in Nat
    BY PartsOf
  <2> QED
    BY <2>1 DEF Is
<1>2. Ends(p, d, e) = [p EXCEPT !.calls = c, !.inCall = FALSE, !.pending = d, !.events = e]
  BY <1>1 DEF Ends, Is
<1>3. LET q == [p EXCEPT !.calls = c, !.inCall = FALSE, !.pending = d, !.events = e]
      IN  /\ q \in Parsers /\ q.pending = d /\ q.events = e
  BY DEF Parsers
<1> QED
  BY <1>2, <1>3

\* The end of a call leaves the rest of the parser alone.
LEMMA EndsKeeps ==
  ASSUME NEW p \in Parsers, NEW d \in AnyText, NEW e \in Seq(Events)
  PROVE  /\ Ends(p, d, e).thinking = p.thinking /\ Ends(p, d, e).inCall = FALSE
         /\ Ends(p, d, e).failed = p.failed
  BY DEF Ends, Parsers

\* The end of a call counts it.
LEMMA EndsCounts ==
  ASSUME NEW p \in Parsers, NEW d \in AnyText, NEW e \in Seq(Events)
  PROVE  Is(Ends(p, d, e).calls, OneMore(p.calls))
  BY DEF Ends, Parsers, Is, OneMore

\* A call with this body fails the answer.
Refuses(o, p, body) == ~(o.parallel \/ p.calls = 0) \/ ~ValidBody(body)

\* The turn inside a call.
LEMMA CallTurnIs ==
  ASSUME NEW o, NEW p \in Parsers, NEW fin \in BOOLEAN
  PROVE  LET t    == p.pending
             end  == CallEnd(t)
             body == Take(t, end - 1)
         IN  /\ end > 0 /\ Refuses(o, p, body) => CallTurn(o, p, fin) = Fail(p)
             /\ end > 0 /\ ~Refuses(o, p, body) =>
                  CallTurn(o, p, fin) = Ends(p, Drop(t, end + Len(Close) - 1),
                                             Append(p.events, CallEvent(body)))
             /\ ~(end > 0) /\ fin => CallTurn(o, p, fin) = Fail(p)
             /\ ~(end > 0) /\ ~fin => CallTurn(o, p, fin) = p
<1> DEFINE t    == p.pending
           end  == CallEnd(t)
           body == Take(t, end - 1)
<1>1. CallTurn(o, p, fin) = IF end > 0 THEN EndCall(o, p, end) ELSE IF fin THEN Fail(p) ELSE p
  BY DEF CallTurn
<1>2. EndCall(o, p, end) =
        IF Refuses(o, p, body) THEN Fail(p)
        ELSE Ends(p, Drop(t, end + Len(Close) - 1), Append(p.events, CallEvent(body)))
  BY DEF EndCall, Refuses, Ends
<1> HIDE DEF end, body
<1>3. /\ end > 0 /\ Refuses(o, p, body) => CallTurn(o, p, fin) = Fail(p)
      /\ end > 0 /\ ~Refuses(o, p, body) =>
           CallTurn(o, p, fin) = Ends(p, Drop(t, end + Len(Close) - 1),
                                      Append(p.events, CallEvent(body)))
      /\ ~(end > 0) /\ fin => CallTurn(o, p, fin) = Fail(p)
      /\ ~(end > 0) /\ ~fin => CallTurn(o, p, fin) = p
  BY <1>1, <1>2
<1> QED
  BY <1>3 DEF end, body

\* Where an end that is found cuts the text.
LEMMA EndCuts ==
  ASSUME NEW t \in AnyText, CallEnd(t) > 0
  PROVE  /\ CallEnd(t) - 1 \in 0..Len(t) /\ CallEnd(t) + Len(Close) - 1 \in 0..Len(t)
         /\ CallEnd(t) + Len(Close) - 1 > 0
         /\ Take(t, CallEnd(t) - 1) \in AnyText
         /\ Drop(t, CallEnd(t) + Len(Close) - 1) \in AnyText
         /\ Len(Drop(t, CallEnd(t) + Len(Close) - 1)) < Len(t)
<1>1. PICK e \in Nat : Is(e, CallEnd(t)) /\ e > 0 /\ Stands(t, Close, e)
  <2>1. CallEnd(t) \in 0..Len(t) /\ Len(t) \in Nat /\ Stands(t, Close, CallEnd(t))
    BY CallEndStays, JoinNothing DEF AnyText
  <2> QED
    BY <2>1 DEF Is
<1>2. Close \in AnyText /\ Len(Close) \in Nat \ {0} /\ Len(t) \in Nat
  BY MarkersAre DEF AnyText
<1>3. (e + Len(Close) - 1) \in 0..Len(t) /\ (e - 1) \in 0..Len(t)
  BY <1>1, <1>2, StandsInside
<1>4. PICK n \in 0..Len(t), k \in 0..Len(t) : Is(n, e - 1) /\ Is(k, e + Len(Close) - 1)
  BY <1>3 DEF Is
<1>5. /\ Take(t, n) \in AnyText /\ Drop(t, k) \in AnyText /\ Len(Drop(t, k)) = Len(t) - k
  BY CutParts
<1>6. k > 0 /\ Len(t) - k < Len(t)
  BY <1>1, <1>2, <1>4 DEF Is
<1> QED
  BY <1>1, <1>3, <1>4, <1>5, <1>6 DEF Is

\* What a turn inside a call leaves.
LEMMA CallTurnType ==
  ASSUME NEW o, NEW p \in Parsers, NEW fin \in BOOLEAN
  PROVE  LET q == CallTurn(o, p, fin)
         IN  /\ q \in Parsers
             /\ q = p \/ q.failed \/ Len(q.pending) < Len(p.pending)
<1> DEFINE end  == CallEnd(p.pending)
           body == Take(p.pending, end - 1)
           d    == Drop(p.pending, end + Len(Close) - 1)
           q    == CallTurn(o, p, fin)
<1>1. p.pending \in AnyText /\ p.events \in Seq(Events)
  BY PartsOf
<1>2. Fail(p) \in Parsers /\ Fail(p).failed
  BY FailIs
<1>3. ASSUME end > 0 PROVE d \in AnyText /\ body \in AnyText /\ Len(d) < Len(p.pending)
  BY <1>1, <1>3, EndCuts
<1>4. CASE end > 0 /\ ~Refuses(o, p, body)
  <2>1. q = Ends(p, d, Append(p.events, CallEvent(body)))
    BY <1>4, CallTurnIs
  <2> HIDE DEF q, end, d, body
  <2>2. PICK b \in AnyText : Is(b, body)
    BY <1>3, <1>4 DEF Is
  <2>3. PICK x \in Events : Is(x, CallEvent(b))
    BY TextEventIs DEF Is
  <2>4. PICK e \in Seq(Events) : Is(e, Append(p.events, x))
    BY <1>1, AppendEvent DEF Is
  <2>5. q = Ends(p, d, e)
    BY <2>1, <2>2, <2>3, <2>4 DEF Is
  <2>6. q \in Parsers /\ q.pending = d
    BY <1>3, <1>4, <2>5, EndsIs
  <2> QED
    BY <1>3, <1>4, <2>6 DEF q
<1>5. CASE end > 0 /\ Refuses(o, p, body)
  BY <1>2, <1>5, CallTurnIs
<1>6. CASE ~(end > 0)
  <2>1. q = Fail(p) \/ q = p
    BY <1>6, CallTurnIs
  <2> QED
    BY <1>2, <2>1
<1> QED
  BY <1>4, <1>5, <1>6

\* The turn inside reasoning.
LEMMA ThinkTurnIs ==
  ASSUME NEW p \in Parsers, NEW fin \in BOOLEAN
  PROVE  LET t     == p.pending
             leave == Find(t, {ThinkEnd})
             n     == leave + Len(ThinkEnd) - 1
             keep  == IF fin THEN Len(t) ELSE Len(t) - Held(t, {ThinkEnd})
         IN  /\ leave \in Nat
             /\ leave > 0 => /\ n \in 0..Len(t) /\ n > 0
                             /\ ThinkTurn(p, fin) = Thinks(EmitFirst(p, n), FALSE)
             /\ ~(leave > 0) => /\ keep \in 0..Len(t)
                                /\ ThinkTurn(p, fin) = EmitFirst(p, keep)
<1> DEFINE t     == p.pending
           leave == Find(t, {ThinkEnd})
           n     == leave + Len(ThinkEnd) - 1
           keep  == IF fin THEN Len(t) ELSE Len(t) - Held(t, {ThinkEnd})
<1>1. t \in AnyText /\ Len(t) \in Nat
  BY PartsOf DEF AnyText
<1>2. ThinkTurn(p, fin) = IF leave > 0 THEN Thinks(EmitFirst(p, n), FALSE) ELSE EmitFirst(p, keep)
  BY DEF ThinkTurn, Thinks
<1>3. /\ leave \in Nat /\ keep \in 0..Len(t)
      /\ leave > 0 => Stands(t, ThinkEnd, leave)
  <2>1. {ThinkEnd} \in AnyMarkers
    BY MarkersAre
  <2>2. /\ leave \in Nat /\ (Len(t) - Held(t, {ThinkEnd})) \in 0..Len(t)
        /\ leave > 0 => \E m \in {ThinkEnd} : Stands(t, m, leave)
    BY <1>1, <2>1, TextCuts
  <2> QED
    BY <1>1, <2>2
<1>4. ASSUME leave > 0 PROVE n \in 0..Len(t) /\ n > 0
  <2>1. ThinkEnd \in AnyText /\ Len(ThinkEnd) \in Nat \ {0}
    BY MarkersAre
  <2> HIDE DEF leave
  <2>2. n \in 0..Len(t)
    BY <1>1, <1>3, <1>4, <2>1, StandsInside
  <2> QED
    BY <1>3, <1>4, <2>1, <2>2
<1> HIDE DEF leave, n, keep
<1>5. /\ leave \in Nat
      /\ leave > 0 => n \in 0..Len(t) /\ n > 0 /\ ThinkTurn(p, fin) = Thinks(EmitFirst(p, n), FALSE)
      /\ ~(leave > 0) => keep \in 0..Len(t) /\ ThinkTurn(p, fin) = EmitFirst(p, keep)
  BY <1>2, <1>3, <1>4
<1> QED
  BY <1>5 DEF leave, n, keep

\* Symbols given out are read.
LEMMA EmitShrinks ==
  ASSUME NEW p \in Parsers, NEW n \in 0..Len(p.pending)
  PROVE  EmitFirst(p, n) = p \/ Len(EmitFirst(p, n).pending) < Len(p.pending)
<1>1. Len(p.pending) \in Nat
  BY PartsOf DEF AnyText
<1>2. CASE n = 0
  BY <1>2, EmitNone
<1>3. CASE n # 0
  <2>1. EmitFirst(p, n).pending = Drop(p.pending, n)
    BY EmitFirstIs
  <2>2. Len(Drop(p.pending, n)) = Len(p.pending) - n
    BY PartsOf, CutParts
  <2> QED
    BY <1>1, <1>3, <2>1, <2>2
<1> QED
  BY <1>2, <1>3

\* Giving out symbols leaves less to read.
LEMMA EmitSome ==
  ASSUME NEW p \in Parsers, NEW n \in 0..Len(p.pending), n > 0
  PROVE  Len(EmitFirst(p, n).pending) < Len(p.pending)
<1>1. Len(p.pending) \in Nat
  BY PartsOf DEF AnyText
<1>2. EmitFirst(p, n).pending = Drop(p.pending, n)
  BY EmitFirstIs
<1>3. Len(Drop(p.pending, n)) = Len(p.pending) - n
  BY PartsOf, CutParts
<1> QED
  BY <1>1, <1>2, <1>3

\* The turn inside reasoning keeps the parser's type.
LEMMA ThinkTurnType ==
  ASSUME NEW p \in Parsers, NEW fin \in BOOLEAN
  PROVE  LET q == ThinkTurn(p, fin)
         IN  /\ q \in Parsers
             /\ q = p \/ q.failed \/ Len(q.pending) < Len(p.pending)
<1> DEFINE t     == p.pending
           leave == Find(t, {ThinkEnd})
           n     == leave + Len(ThinkEnd) - 1
           keep  == IF fin THEN Len(t) ELSE Len(t) - Held(t, {ThinkEnd})
           q     == ThinkTurn(p, fin)
<1>1. /\ leave > 0 => n \in 0..Len(t) /\ n > 0 /\ q = Thinks(EmitFirst(p, n), FALSE)
      /\ ~(leave > 0) => keep \in 0..Len(t) /\ q = EmitFirst(p, keep)
  BY ThinkTurnIs
<1> HIDE DEF leave, n, keep, q
<1>2. CASE leave > 0
  <2>1. EmitFirst(p, n) \in Parsers /\ Len(EmitFirst(p, n).pending) < Len(t)
    BY <1>1, <1>2, EmitFirstIs, EmitSome
  <2>2. PICK r \in Parsers : Is(r, EmitFirst(p, n)) /\ Len(r.pending) < Len(t)
    BY <2>1 DEF Is
  <2>3. q = Thinks(r, FALSE)
    BY <1>1, <1>2, <2>2 DEF Is
  <2>4. q \in Parsers /\ q.pending = r.pending
    BY <2>3, ThinksIs
  <2> QED
    BY <2>2, <2>4 DEF q
<1>3. CASE ~(leave > 0)
  <2>1. /\ EmitFirst(p, keep) \in Parsers
        /\ EmitFirst(p, keep) = p \/ Len(EmitFirst(p, keep).pending) < Len(t)
    BY <1>1, <1>3, EmitFirstIs, EmitShrinks
  <2> QED
    BY <1>1, <1>3, <2>1 DEF q
<1> QED
  BY <1>2, <1>3

\* Text that ends like a call that never begins.
EndsShort(rest) == Len(rest) > 1 /\ rest = Take(Open, Len(rest))

\* The turn outside reasoning and calls.
LEMMA TextTurnIs ==
  ASSUME NEW p \in Parsers, NEW fin \in BOOLEAN
  PROVE  LET t    == p.pending
             at   == Find(t, {Open, Think})
             keep == Len(t) - Held(t, {Open, Think})
             k    == at + Len(Open) - 1
             n    == at + Len(Think) - 1
         IN  /\ at \in Nat /\ keep \in 0..Len(t) /\ Len(t) \in 0..Len(t)
             /\ at > 0 /\ Stands(t, Open, at) =>
                  /\ k \in 0..Len(t) /\ at - 1 \in 0..Len(t) /\ k > 0
                  /\ TextTurn(p, fin) = Enters(EmitFirst(p, at - 1), Drop(t, k))
             /\ at > 0 /\ ~Stands(t, Open, at) =>
                  /\ Stands(t, Think, at) /\ n \in 0..Len(t) /\ n > 0
                  /\ TextTurn(p, fin) = Thinks(EmitFirst(p, n), TRUE)
             /\ ~(at > 0) /\ ~fin => TextTurn(p, fin) = EmitFirst(p, keep)
             /\ ~(at > 0) /\ fin => TextTurn(p, fin) = IF EndsShort(Drop(t, keep)) THEN Fail(p)
                                                      ELSE EmitFirst(p, Len(t))
<1> DEFINE t    == p.pending
           at   == Find(t, {Open, Think})
           keep == Len(t) - Held(t, {Open, Think})
           k    == at + Len(Open) - 1
           n    == at + Len(Think) - 1
<1>1. t \in AnyText /\ Len(t) \in Nat
  BY PartsOf DEF AnyText
<1>2. /\ at \in Nat /\ keep \in 0..Len(t) /\ Len(t) \in 0..Len(t)
      /\ at > 0 => Stands(t, Open, at) \/ Stands(t, Think, at)
  <2>1. {Open, Think} \in AnyMarkers
    BY MarkersAre
  <2>2. /\ at \in Nat /\ (Len(t) - Held(t, {Open, Think})) \in 0..Len(t)
        /\ at > 0 => \E m \in {Open, Think} : Stands(t, m, at)
    BY <1>1, <2>1, TextCuts
  <2> QED
    BY <1>1, <2>2
<1>3. /\ Open \in AnyText /\ Len(Open) \in Nat \ {0} /\ Think \in AnyText /\ Len(Think) \in Nat \ {0}
  BY MarkersAre
<1>4. ASSUME at > 0, Stands(t, Open, at)
      PROVE  /\ k \in 0..Len(t) /\ at - 1 \in 0..Len(t) /\ k > 0
             /\ TextTurn(p, fin) = Enters(EmitFirst(p, at - 1), Drop(t, k))
  <2>1. TextTurn(p, fin) = Enters(EmitFirst(p, at - 1), Drop(t, k))
    BY <1>2, <1>4 DEF TextTurn, Enters
  <2> HIDE DEF at
  <2>2. k \in 0..Len(t) /\ at - 1 \in 0..Len(t)
    BY <1>1, <1>2, <1>3, <1>4, StandsInside
  <2>3. k > 0
    BY <1>2, <1>3, <1>4
  <2> QED
    BY <2>1, <2>2, <2>3
<1>5. ASSUME at > 0, ~Stands(t, Open, at)
      PROVE  /\ Stands(t, Think, at) /\ n \in 0..Len(t) /\ n > 0
             /\ TextTurn(p, fin) = Thinks(EmitFirst(p, n), TRUE)
  <2>1. TextTurn(p, fin) = Thinks(EmitFirst(p, n), TRUE)
    BY <1>2, <1>5 DEF TextTurn, Thinks
  <2> HIDE DEF at
  <2>2. Stands(t, Think, at)
    BY <1>2, <1>5
  <2>3. n \in 0..Len(t)
    BY <1>1, <1>2, <1>3, <1>5, <2>2, StandsInside
  <2>4. n > 0
    BY <1>2, <1>3, <1>5
  <2> QED
    BY <2>1, <2>2, <2>3, <2>4
<1>6. ASSUME ~(at > 0)
      PROVE  /\ ~fin => TextTurn(p, fin) = EmitFirst(p, keep)
             /\ fin => TextTurn(p, fin) = IF EndsShort(Drop(t, keep)) THEN Fail(p)
                                          ELSE EmitFirst(p, Len(t))
  <2>1. at = 0
    BY <1>2, <1>6
  <2> QED
    BY <2>1 DEF TextTurn, EndsShort
<1> HIDE DEF at, keep, k, n
<1>7. /\ at \in Nat /\ keep \in 0..Len(t) /\ Len(t) \in 0..Len(t)
      /\ at > 0 /\ Stands(t, Open, at) =>
           /\ k \in 0..Len(t) /\ at - 1 \in 0..Len(t) /\ k > 0
           /\ TextTurn(p, fin) = Enters(EmitFirst(p, at - 1), Drop(t, k))
      /\ at > 0 /\ ~Stands(t, Open, at) =>
           /\ Stands(t, Think, at) /\ n \in 0..Len(t) /\ n > 0
           /\ TextTurn(p, fin) = Thinks(EmitFirst(p, n), TRUE)
      /\ ~(at > 0) /\ ~fin => TextTurn(p, fin) = EmitFirst(p, keep)
      /\ ~(at > 0) /\ fin => TextTurn(p, fin) = IF EndsShort(Drop(t, keep)) THEN Fail(p)
                                               ELSE EmitFirst(p, Len(t))
  BY <1>2, <1>4, <1>5, <1>6
<1> QED
  BY <1>7 DEF at, keep, k, n

\* The turn outside reasoning and calls keeps the parser's type.
LEMMA TextTurnType ==
  ASSUME NEW p \in Parsers, NEW fin \in BOOLEAN
  PROVE  LET q == TextTurn(p, fin)
         IN  /\ q \in Parsers
             /\ q = p \/ q.failed \/ Len(q.pending) < Len(p.pending)
<1> DEFINE t    == p.pending
           at   == Find(t, {Open, Think})
           keep == Len(t) - Held(t, {Open, Think})
           k    == at + Len(Open) - 1
           n    == at + Len(Think) - 1
           q    == TextTurn(p, fin)
<1>1. /\ at \in Nat /\ keep \in 0..Len(t) /\ Len(t) \in 0..Len(t)
      /\ at > 0 /\ Stands(t, Open, at) =>
           /\ k \in 0..Len(t) /\ at - 1 \in 0..Len(t) /\ k > 0
           /\ q = Enters(EmitFirst(p, at - 1), Drop(t, k))
      /\ at > 0 /\ ~Stands(t, Open, at) =>
           /\ Stands(t, Think, at) /\ n \in 0..Len(t) /\ n > 0
           /\ q = Thinks(EmitFirst(p, n), TRUE)
      /\ ~(at > 0) /\ ~fin => q = EmitFirst(p, keep)
      /\ ~(at > 0) /\ fin => q = IF EndsShort(Drop(t, keep)) THEN Fail(p)
                                 ELSE EmitFirst(p, Len(t))
  BY TextTurnIs
<1> HIDE DEF at, keep, k, n, q
<1>0. t \in AnyText
  BY PartsOf
<1>2. CASE at > 0 /\ Stands(t, Open, at)
  <2>1. PICK m \in 0..Len(t) : Is(m, at - 1)
    BY <1>1, <1>2 DEF Is
  <2>2. PICK r \in Parsers : Is(r, EmitFirst(p, m))
    BY EmitFirstIs DEF Is
  <2>3. PICK d \in AnyText : Is(d, Drop(t, k)) /\ Len(d) = Len(t) - k
    BY <1>0, <1>1, <1>2, CutParts DEF Is
  <2>4. q = Enters(r, d)
    BY <1>1, <1>2, <2>1, <2>2, <2>3 DEF Is
  <2>5. q \in Parsers /\ q.pending = d
    BY <2>4, EntersIs
  <2>6. Len(t) - k < Len(t)
    BY <1>1, <1>2
  <2> QED
    BY <2>3, <2>5, <2>6 DEF q
<1>3. CASE at > 0 /\ ~Stands(t, Open, at)
  <2>1. EmitFirst(p, n) \in Parsers /\ Len(EmitFirst(p, n).pending) < Len(t)
    BY <1>1, <1>3, EmitFirstIs, EmitSome
  <2>2. PICK r \in Parsers : Is(r, EmitFirst(p, n)) /\ Len(r.pending) < Len(t)
    BY <2>1 DEF Is
  <2>3. q = Thinks(r, TRUE)
    BY <1>1, <1>3, <2>2 DEF Is
  <2>4. q \in Parsers /\ q.pending = r.pending
    BY <2>3, ThinksIs
  <2> QED
    BY <2>2, <2>4 DEF q
<1>4. CASE ~(at > 0)
  <2>1. /\ EmitFirst(p, keep) \in Parsers
        /\ EmitFirst(p, keep) = p \/ Len(EmitFirst(p, keep).pending) < Len(t)
    BY <1>1, EmitFirstIs, EmitShrinks
  <2>2. /\ EmitFirst(p, Len(t)) \in Parsers
        /\ EmitFirst(p, Len(t)) = p \/ Len(EmitFirst(p, Len(t)).pending) < Len(t)
    BY <1>1, EmitFirstIs, EmitShrinks
  <2>3. Fail(p) \in Parsers /\ Fail(p).failed
    BY FailIs
  <2>4. q = EmitFirst(p, keep) \/ q = EmitFirst(p, Len(t)) \/ q = Fail(p)
    BY <1>1, <1>4
  <2> QED
    BY <2>1, <2>2, <2>3, <2>4 DEF q
<1> QED
  BY <1>2, <1>3, <1>4

\* A turn is a parser again: the same, a failed one, or one with less to read.
LEMMA TurnType ==
  ASSUME NEW o, NEW p \in Parsers, NEW fin \in BOOLEAN
  PROVE  LET q == DrainTurn(o, p, fin)
         IN  /\ q \in Parsers
             /\ q = p \/ q.failed \/ Len(q.pending) < Len(p.pending)
             /\ p.failed => q = p
<1>1. p.failed \in BOOLEAN /\ p.inCall \in BOOLEAN /\ p.thinking \in BOOLEAN
  BY PartsOf
<1>2. CASE p.failed
  BY <1>2 DEF DrainTurn
<1>3. CASE ~p.failed /\ p.inCall
  <2>1. DrainTurn(o, p, fin) = CallTurn(o, p, fin)
    BY <1>3 DEF DrainTurn
  <2> QED
    BY <1>3, <2>1, CallTurnType
<1>4. CASE ~p.failed /\ ~p.inCall /\ p.thinking
  <2>1. DrainTurn(o, p, fin) = ThinkTurn(p, fin)
    BY <1>4 DEF DrainTurn
  <2> QED
    BY <1>4, <2>1, ThinkTurnType
<1>5. CASE ~p.failed /\ ~p.inCall /\ ~p.thinking
  <2>1. DrainTurn(o, p, fin) = TextTurn(p, fin)
    BY <1>5 DEF DrainTurn
  <2> QED
    BY <1>5, <2>1, TextTurnType
<1> QED
  BY <1>1, <1>2, <1>3, <1>4, <1>5

----------------------------------------------------------------------------
\* The loop.

\* The first n turns from p.
Turns(a, n, o, p, fin) ==
  /\ a \in [0..n -> Parsers]
  /\ a[0] = p
  /\ \A i \in 1..n : a[i] = DrainTurn(o, a[i - 1], fin)

\* There are such.
LEMMA TurnsExist ==
  ASSUME NEW n \in Nat, NEW o, NEW p \in Parsers, NEW fin \in BOOLEAN
  PROVE  \E a : Turns(a, n, o, p, fin)
<1> DEFINE step == [x \in (1..n) \X Parsers |-> DrainTurn(o, x[2], fin)]
<1>1. step \in [(1..n) \X Parsers -> Parsers]
  <2>1. \A s \in Parsers : DrainTurn(o, s, fin) \in Parsers
    BY TurnType
  <2>2. \A x \in (1..n) \X Parsers : x[2] \in Parsers
    OBVIOUS
  <2> QED
    BY <2>1, <2>2
<1>2. \E f : Recursion(f, n, Parsers, p, step)
  <2> HIDE DEF step
  <2> QED
    BY <1>1, RecursionExists
<1>3. PICK f : Recursion(f, n, Parsers, p, step)
  BY <1>2
<1>4. /\ f \in [0..n -> Parsers] /\ f[0] = p
      /\ \A i \in 1..n : f[i] = step[<<i, f[i - 1]>>]
  BY <1>3 DEF Recursion
<1>5. \A i \in 1..n : f[i] = DrainTurn(o, f[i - 1], fin)
  <2>1. \A i \in 1..n : i - 1 \in 0..n
    OBVIOUS
  <2>2. \A i \in 1..n : <<i, f[i - 1]>> \in (1..n) \X Parsers
    BY <1>4, <2>1
  <2> QED
    BY <1>4, <2>2
<1> QED
  BY <1>4, <1>5 DEF Turns

\* They are the same as far as both go.
LEMMA TurnsAgree ==
  ASSUME NEW n \in Nat, NEW m \in Nat, NEW o, NEW p, NEW fin, NEW a, NEW b,
         Turns(a, n, o, p, fin), Turns(b, m, o, p, fin), NEW k \in Nat, k <= n, k <= m
  PROVE  a[k] = b[k]
<1> DEFINE T == {i \in Nat : i <= k => a[i] = b[i]}
<1>1. /\ a[0] = b[0]
      /\ \A i \in 1..n : a[i] = DrainTurn(o, a[i - 1], fin)
      /\ \A i \in 1..m : b[i] = DrainTurn(o, b[i - 1], fin)
  BY DEF Turns
<1>2. 0 \in T
  BY <1>1
<1>3. ASSUME NEW i \in T PROVE i + 1 \in T
  <2> SUFFICES ASSUME i + 1 <= k PROVE a[i + 1] = b[i + 1]
    OBVIOUS
  <2>1. i + 1 \in 1..n /\ i + 1 \in 1..m /\ (i + 1) - 1 = i /\ a[i] = b[i]
    OBVIOUS
  <2> QED
    BY <1>1, <2>1
<1>4. T = Nat
  <2>1. T \in SUBSET Nat
    OBVIOUS
  <2> HIDE DEF T
  <2> QED
    BY <1>2, <1>3, <2>1, Induction
<1> QED
  BY <1>4

\* What holds of p, and of what a turn makes of what it holds of, holds of all.
LEMMA TurnsKeep ==
  ASSUME NEW n \in Nat, NEW o, NEW p, NEW fin, NEW a, Turns(a, n, o, p, fin),
         NEW Q, p \in Q, \A x \in Q : DrainTurn(o, x, fin) \in Q
  PROVE  \A i \in 0..n : a[i] \in Q
<1> DEFINE T == {i \in Nat : i <= n => a[i] \in Q}
<1>1. /\ a[0] = p
      /\ \A i \in 1..n : a[i] = DrainTurn(o, a[i - 1], fin)
  BY DEF Turns
<1>2. 0 \in T
  BY <1>1
<1>3. ASSUME NEW i \in T PROVE i + 1 \in T
  <2> SUFFICES ASSUME i + 1 <= n PROVE a[i + 1] \in Q
    OBVIOUS
  <2>1. i + 1 \in 1..n /\ (i + 1) - 1 = i /\ a[i] \in Q
    OBVIOUS
  <2> QED
    BY <1>1, <2>1
<1>4. T = Nat
  <2>1. T \in SUBSET Nat
    OBVIOUS
  <2> HIDE DEF T
  <2> QED
    BY <1>2, <1>3, <2>1, Induction
<1> QED
  BY <1>4

\* A parser a turn does not change.
Rests(o, x, fin) == DrainTurn(o, x, fin) = x

\* As many turns as there are symbols, and one more, come to rest.
LEMMA TurnsRest ==
  ASSUME NEW o, NEW p \in Parsers, NEW fin \in BOOLEAN, NEW a, NEW n \in Nat,
         n = Len(p.pending) + 1, Turns(a, n, o, p, fin)
  PROVE  Rests(o, a[n], fin)
<1> DEFINE T == {i \in Nat : i <= n => Rests(o, a[i], fin)
                                         \/ Len(a[i].pending) <= Len(p.pending) - i}
<1>0. Len(p.pending) \in Nat
  BY PartsOf DEF AnyText
<1>1. /\ a[0] = p /\ a \in [0..n -> Parsers]
      /\ \A i \in 1..n : a[i] = DrainTurn(o, a[i - 1], fin)
  BY DEF Turns
<1>2. 0 \in T
  BY <1>0, <1>1
<1>3. ASSUME NEW i \in T PROVE i + 1 \in T
  <2> SUFFICES ASSUME i + 1 <= n
               PROVE  \/ Rests(o, a[i + 1], fin)
                      \/ Len(a[i + 1].pending) <= Len(p.pending) - (i + 1)
    OBVIOUS
  <2>1. i + 1 \in 1..n /\ (i + 1) - 1 = i /\ i \in 0..n /\ i + 1 \in 0..n
    OBVIOUS
  <2>2. a[i + 1] = DrainTurn(o, a[i], fin) /\ a[i] \in Parsers /\ a[i + 1] \in Parsers
    BY <1>1, <2>1
  <2>3. Rests(o, a[i], fin) \/ Len(a[i].pending) <= Len(p.pending) - i
    BY <2>1
  <2>4. CASE Rests(o, a[i], fin)
    BY <2>2, <2>4 DEF Rests
  <2>5. CASE Len(a[i].pending) <= Len(p.pending) - i /\ ~Rests(o, a[i], fin)
    <3>1. a[i + 1].failed \/ Len(a[i + 1].pending) < Len(a[i].pending)
      BY <2>2, <2>5, TurnType DEF Rests
    <3>2. CASE a[i + 1].failed
      <4>1. DrainTurn(o, a[i + 1], fin) = a[i + 1]
        BY <2>2, <3>2, TurnType
      <4> QED
        BY <4>1 DEF Rests
    <3>3. CASE Len(a[i + 1].pending) < Len(a[i].pending)
      <4>1. Len(a[i].pending) \in Nat /\ Len(a[i + 1].pending) \in Nat
        BY <2>2, PartsOf DEF AnyText
      <4> QED
        BY <1>0, <2>5, <3>3, <4>1, SMTT(30)
    <3> QED
      BY <3>1, <3>2, <3>3
  <2> QED
    BY <2>3, <2>4, <2>5
<1>4. T = Nat
  <2>1. T \in SUBSET Nat
    OBVIOUS
  <2> HIDE DEF T
  <2> QED
    BY <1>2, <1>3, <2>1, Induction
<1>5. Rests(o, a[n], fin) \/ Len(a[n].pending) <= Len(p.pending) - n
  BY <1>4
<1>6. Len(a[n].pending) \in Nat
  <2>1. a[n] \in Parsers
    BY <1>1
  <2> QED
    BY <2>1, PartsOf DEF AnyText
<1> QED
  BY <1>0, <1>5, <1>6

\* At rest, all the turns are the same.
LEMMA RestStays ==
  ASSUME NEW n \in Nat, NEW o, NEW p, NEW fin, NEW a, Turns(a, n, o, p, fin),
         NEW k \in 0..n, Rests(o, a[k], fin)
  PROVE  a[n] = a[k]
<1> DEFINE T == {i \in Nat : k <= i /\ i <= n => a[i] = a[k]}
<1>1. \A i \in 1..n : a[i] = DrainTurn(o, a[i - 1], fin)
  BY DEF Turns
<1>2. 0 \in T
  OBVIOUS
<1>3. ASSUME NEW i \in T PROVE i + 1 \in T
  <2> SUFFICES ASSUME k <= i + 1, i + 1 <= n PROVE a[i + 1] = a[k]
    OBVIOUS
  <2>1. CASE k = i + 1
    BY <2>1
  <2>2. CASE k <= i
    <3>1. i + 1 \in 1..n /\ (i + 1) - 1 = i /\ a[i] = a[k]
      BY <2>2
    <3>2. a[i + 1] = DrainTurn(o, a[i], fin)
      BY <1>1, <3>1
    <3> QED
      BY <3>1, <3>2 DEF Rests
  <2> QED
    BY <2>1, <2>2
<1>4. T = Nat
  <2>1. T \in SUBSET Nat
    OBVIOUS
  <2> HIDE DEF T
  <2> QED
    BY <1>2, <1>3, <2>1, Induction
<1> QED
  BY <1>4

\* The loop takes that many turns.
LEMMA DrainIs ==
  ASSUME NEW o, NEW p \in Parsers, NEW fin \in BOOLEAN
  PROVE  \E n \in Nat : \E a : /\ n = Len(p.pending) + 1 /\ Turns(a, n, o, p, fin)
                                /\ Drain(o, p, fin) = a[n]
<1>1. PICK n \in Nat : n = Len(p.pending) + 1
  <2>1. Len(p.pending) \in Nat
    BY PartsOf DEF AnyText
  <2> QED
    BY <2>1
<1>2. PICK f : Turns(f, n, o, p, fin)
  BY TurnsExist
<1> DEFINE C == CHOOSE g : g = [i \in 0..n |-> IF i = 0 THEN p ELSE DrainTurn(o, g[i - 1], fin)]
<1>3. /\ f \in [0..n -> Parsers] /\ f[0] = p
      /\ \A i \in 1..n : f[i] = DrainTurn(o, f[i - 1], fin)
      /\ \A i \in 0..n : i = 0 \/ i \in 1..n
  BY <1>2 DEF Turns
<1>4. f = [i \in 0..n |-> IF i = 0 THEN p ELSE DrainTurn(o, f[i - 1], fin)]
  BY <1>3
<1>5. C = [i \in 0..n |-> IF i = 0 THEN p ELSE DrainTurn(o, C[i - 1], fin)]
  BY <1>4
<1>6. Drain(o, p, fin) = C[n]
  BY <1>1 DEF Drain
<1> HIDE DEF C
<1>7. C[0] = p /\ \A i \in 1..n : C[i] = DrainTurn(o, C[i - 1], fin)
  BY <1>3, <1>5
<1>8. \A i \in 0..n : C[i] = f[i]
  <2> DEFINE T == {i \in Nat : i <= n => C[i] = f[i]}
  <2>1. 0 \in T
    BY <1>3, <1>7
  <2>2. ASSUME NEW i \in T PROVE i + 1 \in T
    <3> SUFFICES ASSUME i + 1 <= n PROVE C[i + 1] = f[i + 1]
      OBVIOUS
    <3>1. i + 1 \in 1..n /\ (i + 1) - 1 = i /\ C[i] = f[i]
      OBVIOUS
    <3> QED
      BY <1>3, <1>7, <3>1
  <2>3. T = Nat
    <3>1. T \in SUBSET Nat
      OBVIOUS
    <3> HIDE DEF T
    <3> QED
      BY <2>1, <2>2, <3>1, Induction
  <2> QED
    BY <2>3
<1>9. Drain(o, p, fin) = f[n]
  BY <1>6, <1>8
<1> QED
  BY <1>1, <1>2, <1>9

\* Any turns that come to rest end where the loop does.
LEMMA DrainAtRest ==
  ASSUME NEW o, NEW p \in Parsers, NEW fin \in BOOLEAN, NEW m \in Nat, NEW b,
         Turns(b, m, o, p, fin), Rests(o, b[m], fin)
  PROVE  Drain(o, p, fin) = b[m]
<1>21. PICK n \in Nat : \E a : /\ n = Len(p.pending) + 1 /\ Turns(a, n, o, p, fin)
                               /\ Drain(o, p, fin) = a[n]
  BY DrainIs
<1>1. PICK a : /\ n = Len(p.pending) + 1 /\ Turns(a, n, o, p, fin)
               /\ Drain(o, p, fin) = a[n]
  BY <1>21
<1>2. Rests(o, a[n], fin)
  BY <1>1, TurnsRest
<1>3. CASE n <= m
  <2>1. a[n] = b[n]
    BY <1>1, <1>3, TurnsAgree
  <2>2. Rests(o, b[n], fin) /\ n \in 0..m
    BY <1>2, <1>3, <2>1
  <2>3. b[m] = b[n]
    BY <2>2, RestStays
  <2> QED
    BY <1>1, <2>1, <2>3
<1>4. CASE m <= n
  <2>1. a[m] = b[m]
    BY <1>1, <1>4, TurnsAgree
  <2>2. Rests(o, a[m], fin) /\ m \in 0..n
    BY <1>4, <2>1
  <2>3. a[n] = a[m]
    BY <1>1, <2>2, RestStays
  <2> QED
    BY <1>1, <2>1, <2>3
<1> QED
  BY <1>3, <1>4

\* The loop ends at rest.
LEMMA DrainRests ==
  ASSUME NEW o, NEW p \in Parsers, NEW fin \in BOOLEAN
  PROVE  Drain(o, p, fin) \in Parsers /\ Rests(o, Drain(o, p, fin), fin)
<1>21. PICK n \in Nat : \E a : /\ n = Len(p.pending) + 1 /\ Turns(a, n, o, p, fin)
                               /\ Drain(o, p, fin) = a[n]
  BY DrainIs
<1>1. PICK a : /\ n = Len(p.pending) + 1 /\ Turns(a, n, o, p, fin)
               /\ Drain(o, p, fin) = a[n]
  BY <1>21
<1>2. Rests(o, a[n], fin)
  BY <1>1, TurnsRest
<1>3. a[n] \in Parsers
  BY <1>1 DEF Turns
<1> QED
  BY <1>1, <1>2, <1>3

\* What holds of p and of what turns make of it holds at the end.
LEMMA DrainKeeps ==
  ASSUME NEW o, NEW p \in Parsers, NEW fin \in BOOLEAN, NEW Q, p \in Q,
         \A x \in Q : DrainTurn(o, x, fin) \in Q
  PROVE  Drain(o, p, fin) \in Q
<1>21. PICK n \in Nat : \E a : /\ n = Len(p.pending) + 1 /\ Turns(a, n, o, p, fin)
                               /\ Drain(o, p, fin) = a[n]
  BY DrainIs
<1>1. PICK a : /\ n = Len(p.pending) + 1 /\ Turns(a, n, o, p, fin)
               /\ Drain(o, p, fin) = a[n]
  BY <1>21
<1>2. a[n] \in Q
  BY <1>1, TurnsKeep
<1> QED
  BY <1>1, <1>2

\* A turn taken before changes nothing.
LEMMA DrainOfTurn ==
  ASSUME NEW o, NEW p \in Parsers, NEW fin \in BOOLEAN
  PROVE  Drain(o, DrainTurn(o, p, fin), fin) = Drain(o, p, fin)
<1>1. PICK q \in Parsers : Is(q, DrainTurn(o, p, fin))
  BY TurnType DEF Is
<1>22. PICK n \in Nat : \E a : /\ n = Len(q.pending) + 1 /\ Turns(a, n, o, q, fin)
                               /\ Drain(o, q, fin) = a[n]
  BY DrainIs
<1>2. PICK a : /\ n = Len(q.pending) + 1 /\ Turns(a, n, o, q, fin)
               /\ Drain(o, q, fin) = a[n]
  BY <1>22
<1>3. Rests(o, a[n], fin)
  BY <1>2, TurnsRest
<1> DEFINE b == [i \in 0..(n + 1) |-> IF i = 0 THEN p ELSE a[i - 1]]
<1>4. Turns(b, n + 1, o, p, fin)
  <2>1. a \in [0..n -> Parsers] /\ a[0] = q /\ \A i \in 1..n : a[i] = DrainTurn(o, a[i - 1], fin)
    BY <1>2 DEF Turns
  <2>2. b \in [0..(n + 1) -> Parsers]
    <3>1. \A i \in 0..(n + 1) : i # 0 => i - 1 \in 0..n
      OBVIOUS
    <3> QED
      BY <2>1, <3>1
  <2>3. b[0] = p
    OBVIOUS
  <2>4. ASSUME NEW i \in 1..(n + 1) PROVE b[i] = DrainTurn(o, b[i - 1], fin)
    <3>1. b[i] = a[i - 1]
      OBVIOUS
    <3>2. CASE i = 1
      <4>1. b[i] = q /\ b[i - 1] = p
        BY <2>1, <3>1, <3>2
      <4> QED
        BY <1>1, <4>1 DEF Is
    <3>3. CASE i # 1
      <4>1. i - 1 \in 1..n /\ b[i - 1] = a[(i - 1) - 1]
        BY <3>3
      <4> QED
        BY <2>1, <3>1, <4>1
    <3> QED
      BY <3>2, <3>3
  <2> HIDE DEF b
  <2> QED
    BY <2>2, <2>3, <2>4 DEF Turns
<1>5. b[n + 1] = a[n] /\ n + 1 \in Nat
  OBVIOUS
<1> HIDE DEF b
<1>6. Drain(o, p, fin) = b[n + 1]
  BY <1>3, <1>4, <1>5, DrainAtRest
<1> QED
  BY <1>1, <1>2, <1>5, <1>6 DEF Is

----------------------------------------------------------------------------
\* Text that comes while the parser is at work, and text that comes behind it.

\* More text and the ways a parser changes do not touch.
LEMMA EndsMore ==
  ASSUME NEW p \in Parsers, NEW b \in AnyText, NEW d \in AnyText, NEW w \in AnyText,
         Is(w, d \o b), NEW e \in Seq(Events)
  PROVE  Ends(More(p, b), w, e) = More(Ends(p, d, e), b)
<1>1. PICK q \in Parsers : Is(q, More(p, b)) /\ q.thinking = p.thinking /\ q.calls = p.calls
                           /\ q.failed = p.failed
  BY MoreIs DEF Is
<1>3. PICK r \in Parsers : Is(r, Ends(q, w, e)) /\ r.pending = w /\ r.events = e
        /\ r.thinking = q.thinking /\ r.inCall = FALSE /\ Is(r.calls, OneMore(q.calls)) /\ r.failed = q.failed
  <2>1. /\ Ends(q, w, e) \in Parsers
        /\ Ends(q, w, e).pending = w /\ Ends(q, w, e).events = e
    BY EndsIs
  <2>2. Ends(q, w, e).thinking = q.thinking /\ Ends(q, w, e).inCall = FALSE
    BY EndsKeeps
  <2>3. Ends(q, w, e).failed = q.failed
    BY EndsKeeps
  <2>4. Is(Ends(q, w, e).calls, OneMore(q.calls))
    BY EndsCounts
  <2> QED
    BY <2>1, <2>2, <2>3, <2>4 DEF Is
<1>4. PICK s \in Parsers : Is(s, Ends(p, d, e)) /\ s.pending = d /\ s.events = e
        /\ s.thinking = p.thinking /\ s.inCall = FALSE /\ Is(s.calls, OneMore(p.calls)) /\ s.failed = p.failed
  <2>1. /\ Ends(p, d, e) \in Parsers
        /\ Ends(p, d, e).pending = d /\ Ends(p, d, e).events = e
    BY EndsIs
  <2>2. Ends(p, d, e).thinking = p.thinking /\ Ends(p, d, e).inCall = FALSE
    BY EndsKeeps
  <2>3. Ends(p, d, e).failed = p.failed
    BY EndsKeeps
  <2>4. Is(Ends(p, d, e).calls, OneMore(p.calls))
    BY EndsCounts
  <2> QED
    BY <2>1, <2>2, <2>3, <2>4 DEF Is
<1>5. PICK t \in Parsers : Is(t, More(s, b)) /\ t.pending = s.pending \o b /\ t.events = s.events
        /\ t.thinking = s.thinking /\ t.inCall = s.inCall /\ t.calls = s.calls /\ t.failed = s.failed
  BY MoreIs DEF Is
<1>6. r = t
  <2>1. r.pending = t.pending
    BY <1>3, <1>4, <1>5 DEF Is
  <2>2. r.events = t.events /\ r.thinking = t.thinking /\ r.inCall = t.inCall
        /\ r.calls = t.calls /\ r.failed = t.failed
    BY <1>1, <1>3, <1>4, <1>5 DEF Is
  <2> QED
    BY <2>1, <2>2, SameParser
<1> QED
  BY <1>1, <1>3, <1>4, <1>5, <1>6 DEF Is

\* More text, and reasoning entered or left, in either order.
LEMMA ThinksMore ==
  ASSUME NEW p \in Parsers, NEW b \in AnyText, NEW c \in BOOLEAN
  PROVE  Thinks(More(p, b), c) = More(Thinks(p, c), b)
<1>1. PICK q \in Parsers : Is(q, More(p, b)) /\ q.pending = p.pending \o b /\ q.events = p.events
        /\ q.inCall = p.inCall /\ q.calls = p.calls /\ q.failed = p.failed
  BY MoreIs DEF Is
<1>2. PICK r \in Parsers : Is(r, Thinks(q, c)) /\ r.pending = q.pending /\ r.events = q.events
        /\ r.thinking = c /\ r.inCall = q.inCall /\ r.calls = q.calls /\ r.failed = q.failed
  BY ThinksIs DEF Is
<1>3. PICK s \in Parsers : Is(s, Thinks(p, c)) /\ s.pending = p.pending /\ s.events = p.events
        /\ s.thinking = c /\ s.inCall = p.inCall /\ s.calls = p.calls /\ s.failed = p.failed
  BY ThinksIs DEF Is
<1>4. PICK t \in Parsers : Is(t, More(s, b)) /\ t.pending = s.pending \o b /\ t.events = s.events
        /\ t.thinking = s.thinking /\ t.inCall = s.inCall /\ t.calls = s.calls /\ t.failed = s.failed
  BY MoreIs DEF Is
<1>5. r = t
  <2>1. r.pending = t.pending
    BY <1>1, <1>2, <1>3, <1>4
  <2>2. r.events = t.events /\ r.thinking = t.thinking /\ r.inCall = t.inCall
        /\ r.calls = t.calls /\ r.failed = t.failed
    BY <1>1, <1>2, <1>3, <1>4
  <2> QED
    BY <2>1, <2>2, SameParser
<1> QED
  BY <1>1, <1>2, <1>3, <1>4, <1>5 DEF Is

\* More text, and a call entered, in either order.
LEMMA EntersMore ==
  ASSUME NEW p \in Parsers, NEW b \in AnyText, NEW d \in AnyText, NEW w \in AnyText,
         Is(w, d \o b)
  PROVE  Enters(More(p, b), w) = More(Enters(p, d), b)
<1>1. PICK q \in Parsers : Is(q, More(p, b)) /\ q.events = p.events /\ q.thinking = p.thinking
        /\ q.calls = p.calls /\ q.failed = p.failed
  BY MoreIs DEF Is
<1>2. PICK r \in Parsers : Is(r, Enters(q, w)) /\ r.pending = w /\ r.events = q.events
        /\ r.thinking = q.thinking /\ r.inCall = TRUE /\ r.calls = q.calls /\ r.failed = q.failed
  BY EntersIs DEF Is
<1>3. PICK s \in Parsers : Is(s, Enters(p, d)) /\ s.pending = d /\ s.events = p.events
        /\ s.thinking = p.thinking /\ s.inCall = TRUE /\ s.calls = p.calls /\ s.failed = p.failed
  BY EntersIs DEF Is
<1>4. PICK t \in Parsers : Is(t, More(s, b)) /\ t.pending = s.pending \o b /\ t.events = s.events
        /\ t.thinking = s.thinking /\ t.inCall = s.inCall /\ t.calls = s.calls /\ t.failed = s.failed
  BY MoreIs DEF Is
<1>5. r = t
  <2>1. r.pending = t.pending
    BY <1>2, <1>3, <1>4 DEF Is
  <2>2. r.events = t.events /\ r.thinking = t.thinking /\ r.inCall = t.inCall
        /\ r.calls = t.calls /\ r.failed = t.failed
    BY <1>1, <1>2, <1>3, <1>4
  <2> QED
    BY <2>1, <2>2, SameParser
<1> QED
  BY <1>1, <1>2, <1>3, <1>4, <1>5 DEF Is

\* What turns make of more text: more of what they made, or what they make of
\* that.
CallMoves(o, p, b) ==
  LET q == CallTurn(o, p, FALSE)
  IN  \/ q.failed /\ CallTurn(o, More(p, b), FALSE).failed
      \/ q = p
      \/ CallTurn(o, More(p, b), FALSE) = More(q, b)

\* More text behind a turn inside a call.
LEMMA CallMore ==
  ASSUME NEW o, NEW p \in Parsers, NEW b \in AnyText
  PROVE  CallMoves(o, p, b)
<1>1. PICK t \in AnyText : Is(t, p.pending)
  BY PartsOf DEF Is
<1>2. PICK u \in AnyText : Is(u, t \o b)
  BY JoinTexts DEF Is
<1>3. PICK y \in Parsers : Is(y, More(p, b)) /\ Is(y.pending, u) /\ y.events = p.events
        /\ y.calls = p.calls
  BY <1>1, <1>2, MoreIs DEF Is
<1>4. CASE CallEnd(t) > 0 /\ ~Refuses(o, p, Take(t, CallEnd(t) - 1))
  <2>1. PICK k \in 0..Len(t), n \in 0..Len(t), end \in Nat :
          /\ Is(k, end + Len(Close) - 1) /\ Is(n, end - 1)
          /\ Is(end, CallEnd(t)) /\ Is(end, CallEnd(u)) /\ end > 0
    <3>1. CallEnd(t) \in Nat /\ CallEnd(t \o b) = CallEnd(t)
      BY <1>4, CallEndStays DEF AnyText
    <3>2. CallEnd(t) - 1 \in 0..Len(t) /\ CallEnd(t) + Len(Close) - 1 \in 0..Len(t)
      BY <1>4, EndCuts
    <3> QED
      BY <1>2, <1>4, <3>1, <3>2 DEF Is
  <2>2. PICK d \in AnyText, body \in AnyText : Is(d, Drop(t, k)) /\ Is(body, Take(t, n))
    BY CutParts DEF Is
  <2>3. PICK w \in AnyText : Is(w, d \o b)
    BY JoinTexts DEF Is
  <2>4. Take(u, n) = body /\ Drop(u, k) = w
    <3>1. Take(t \o b, n) = Take(t, n) /\ Drop(t \o b, k) = Drop(t, k) \o b
      BY CutText
    <3> QED
      BY <1>2, <2>2, <2>3, <3>1 DEF Is
  <2>5. PICK x \in Events : Is(x, CallEvent(body))
    BY TextEventIs DEF Is
  <2>6. PICK e \in Seq(Events) : Is(e, Append(p.events, x))
    BY PartsOf, AppendEvent DEF Is
  <2>7. ~Refuses(o, p, body) /\ ~Refuses(o, y, body)
    BY <1>3, <1>4, <2>1, <2>2 DEF Refuses, Is
  <2>8. CallTurn(o, p, FALSE) = Ends(p, d, e)
    <3>1. CallTurn(o, p, FALSE) = Ends(p, Drop(p.pending, CallEnd(p.pending) + Len(Close) - 1),
                    Append(p.events, CallEvent(Take(p.pending, CallEnd(p.pending) - 1))))
      BY <1>1, <1>4, CallTurnIs DEF Is
    <3> QED
      BY <1>1, <2>1, <2>2, <2>5, <2>6, <3>1 DEF Is
  <2>9. CallTurn(o, y, FALSE) = Ends(y, w, e)
    <3>0. CallEnd(y.pending) > 0 /\ ~Refuses(o, y, Take(y.pending, CallEnd(y.pending) - 1))
      BY <1>3, <2>1, <2>4, <2>7 DEF Is
    <3>1. CallTurn(o, y, FALSE) = Ends(y, Drop(y.pending, CallEnd(y.pending) + Len(Close) - 1),
                    Append(y.events, CallEvent(Take(y.pending, CallEnd(y.pending) - 1))))
      BY <3>0, CallTurnIs
    <3> QED
      BY <1>3, <2>1, <2>4, <2>5, <2>6, <3>1 DEF Is
  <2>10. Ends(More(p, b), w, e) = More(Ends(p, d, e), b)
    BY <2>3, EndsMore
  <2> QED
    BY <1>3, <2>8, <2>9, <2>10 DEF CallMoves, Is
<1>5. CASE CallEnd(t) > 0 /\ Refuses(o, p, Take(t, CallEnd(t) - 1))
  <2>1. CallTurn(o, p, FALSE) = Fail(p)
    BY <1>1, <1>5, CallTurnIs DEF Is
  <2>2. PICK n \in 0..Len(t), end \in Nat :
          Is(n, end - 1) /\ Is(end, CallEnd(t)) /\ Is(end, CallEnd(u)) /\ end > 0
    <3>1. CallEnd(t) \in Nat /\ CallEnd(t \o b) = CallEnd(t)
      BY <1>5, CallEndStays DEF AnyText
    <3>2. CallEnd(t) - 1 \in 0..Len(t)
      BY <1>5, EndCuts
    <3> QED
      BY <1>2, <1>5, <3>1, <3>2 DEF Is
  <2>3. PICK body \in AnyText : Is(body, Take(t, n)) /\ Is(body, Take(u, n))
    <3>1. Take(t \o b, n) = Take(t, n) /\ Take(t, n) \in AnyText
      BY CutText, CutParts
    <3> QED
      BY <1>2, <3>1 DEF Is
  <2>4. Refuses(o, y, body)
    BY <1>3, <1>5, <2>2, <2>3 DEF Refuses, Is
  <2>5. CallTurn(o, y, FALSE) = Fail(y)
    <3>1. CallEnd(y.pending) > 0 /\ Refuses(o, y, Take(y.pending, CallEnd(y.pending) - 1))
      BY <1>3, <2>2, <2>3, <2>4 DEF Is
    <3> QED
      BY <3>1, CallTurnIs
  <2> QED
    BY <1>3, <2>1, <2>5, FailIs DEF CallMoves, Is
<1>6. CASE ~(CallEnd(t) > 0)
  <2>1. CallTurn(o, p, FALSE) = p
    BY <1>1, <1>6, CallTurnIs DEF Is
  <2> QED
    BY <2>1 DEF CallMoves
<1> QED
  BY <1>4, <1>5, <1>6

\* The same inside reasoning.
ThinkMoves(p, b) ==
  LET q == ThinkTurn(p, FALSE)
  IN  \/ ThinkTurn(More(p, b), FALSE) = More(q, b)
      \/ /\ ThinkTurn(More(p, b), FALSE) = ThinkTurn(More(q, b), FALSE)
         /\ q \in Parsers
         /\ q.thinking = p.thinking /\ q.inCall = p.inCall /\ q.failed = p.failed

\* A text in which nothing is found, the rest kept of it, and more.
IsBeyond(t, b, M, k, u, w, g, h, c) ==
  /\ Is(k, Len(t) - Held(t, M)) /\ Is(u, t \o b) /\ Is(w, Drop(t, k) \o b)
  /\ Is(g, Find(u, M)) /\ Is(h, Find(w, M)) /\ Is(c, Held(w, M)) /\ Is(c, Held(u, M))
  /\ g = (IF h = 0 THEN 0 ELSE k + h)
  /\ Len(u) = k + Len(w) /\ c \in 0..Len(w) /\ h \in 0..Len(w)
  /\ Is(Drop(u, k), w)

\* More text behind a text in which nothing was found: where what was held
\* back begins, and what is found and held back from there.
LEMMA KeptMore ==
  ASSUME NEW t \in AnyText, NEW b \in AnyText, NEW M \in AnyMarkers, Find(t, M) = 0
  PROVE  \E k \in 0..Len(t), u \in AnyText, w \in AnyText, g \in Nat, h \in Nat, c \in Nat :
           IsBeyond(t, b, M, k, u, w, g, h, c)
<1>1. PICK k \in 0..Len(t) : Is(k, Len(t) - Held(t, M))
  BY TextCuts DEF Is
<1>2. PICK d \in AnyText : Is(d, Drop(t, k)) /\ Len(d) = Len(t) - k
  BY CutParts DEF Is
<1>3. PICK u \in AnyText, w \in AnyText : Is(u, t \o b) /\ Is(w, d \o b)
  BY JoinTexts DEF Is
<1>4. PICK g \in Nat, h \in Nat, c \in Nat :
        Is(g, Find(u, M)) /\ Is(h, Find(w, M)) /\ Is(c, Held(w, M))
        /\ c \in 0..Len(w) /\ h \in 0..Len(w)
  <2>1. Find(u, M) \in Nat
    BY TextCuts
  <2>2. Find(w, M) \in Nat /\ Held(w, M) \in 0..Len(w) /\ Find(w, M) \in 0..Len(w) /\ Len(w) \in Nat
    BY TextCuts
  <2> QED
    BY <2>1, <2>2 DEF Is
<1>5. /\ Find(t \o b, M) = IF Find(Drop(t, k) \o b, M) = 0 THEN 0 ELSE k + Find(Drop(t, k) \o b, M)
      /\ Held(t \o b, M) = Held(Drop(t, k) \o b, M)
  <2>1. k = Len(t) - Held(t, M)
    BY <1>1 DEF Is
  <2> QED
    BY <2>1, TextBehindCut
<1>6. g = (IF h = 0 THEN 0 ELSE k + h) /\ Is(c, Held(u, M)) /\ Is(w, Drop(t, k) \o b)
  BY <1>2, <1>3, <1>4, <1>5 DEF Is
<1>7. Len(u) = k + Len(w)
  <2>1. Len(t \o b) = Len(t) + Len(b) /\ Len(d \o b) = Len(d) + Len(b) /\ Len(t) \in Nat /\ Len(b) \in Nat
    BY ConcatProperties DEF AnyText
  <2> QED
    BY <1>2, <1>3, <2>1 DEF Is
<1>8. Is(Drop(u, k), w)
  <2>1. Drop(t \o b, k) = Drop(t, k) \o b
    BY CutText
  <2> QED
    BY <1>2, <1>3, <2>1 DEF Is
<1>9. IsBeyond(t, b, M, k, u, w, g, h, c)
  BY <1>1, <1>3, <1>4, <1>6, <1>7, <1>8 DEF IsBeyond
<1> QED
  BY <1>9

\* Text that was given out before the turn is text the turn would have given out.
LEMMA ThinkFurther ==
  ASSUME NEW y \in Parsers, NEW z \in Parsers, NEW k \in 0..Len(y.pending),
         Is(z, EmitFirst(y, k)), NEW M, M = {ThinkEnd},
         Find(y.pending, M) = (IF Find(z.pending, M) = 0 THEN 0 ELSE k + Find(z.pending, M)),
         Held(y.pending, M) = Held(z.pending, M)
  PROVE  ThinkTurn(y, FALSE) = ThinkTurn(z, FALSE)
<1>1. PICK u \in AnyText, w \in AnyText : Is(u, y.pending) /\ Is(w, z.pending)
  BY PartsOf DEF Is
<1>2. PICK g \in Nat, h \in Nat, c \in Nat, L \in Nat \ {0} :
        /\ Is(g, Find(u, {ThinkEnd})) /\ Is(h, Find(w, {ThinkEnd}))
        /\ Is(c, Held(w, {ThinkEnd})) /\ Is(c, Held(u, {ThinkEnd})) /\ Is(L, Len(ThinkEnd))
        /\ g = (IF h = 0 THEN 0 ELSE k + h)
  <2>1. Find(u, {ThinkEnd}) \in Nat /\ Find(w, {ThinkEnd}) \in Nat /\ Held(w, {ThinkEnd}) \in Nat
    BY MarkersAre, TextCuts
  <2>2. Len(ThinkEnd) \in Nat \ {0}
    BY MarkersAre
  <2> QED
    BY <1>1, <2>1, <2>2 DEF Is
<1>3. Len(u) \in Nat /\ Len(w) \in Nat /\ Len(w) = Len(u) - k /\ k \in 0..Len(u)
  <2>1. z.pending = Drop(y.pending, k)
    BY EmitFirstIs DEF Is
  <2>2. Len(Drop(y.pending, k)) = Len(y.pending) - k
    BY PartsOf, CutParts
  <2>3. Len(u) \in Nat /\ Len(w) \in Nat
    BY DEF AnyText
  <2> QED
    BY <1>1, <2>1, <2>2, <2>3 DEF Is
<1>4. CASE h > 0
  <2>1. h + L - 1 \in 0..Len(w) /\ ThinkTurn(z, FALSE) = Thinks(EmitFirst(z, h + L - 1), FALSE)
    BY <1>1, <1>2, <1>4, ThinkTurnIs DEF Is
  <2>2. g > 0
    BY <1>2, <1>4
  <2>3. ThinkTurn(y, FALSE) = Thinks(EmitFirst(y, g + L - 1), FALSE)
    BY <1>1, <1>2, <2>2, ThinkTurnIs DEF Is
  <2>4. h + L - 1 \in 0..(Len(u) - k)
    BY <1>3, <2>1
  <2>5. PICK n \in 0..(Len(u) - k) : n = h + L - 1
    BY <2>4
  <2>6. g = k + h
    BY <1>2, <1>4
  <2>7. g + L - 1 = k + n
    BY <1>3, <2>5, <2>6
  <2>8. EmitFirst(EmitFirst(y, k), n) = EmitFirst(y, k + n)
    BY <1>1, EmitFurther DEF Is
  <2> QED
    BY <2>1, <2>3, <2>5, <2>7, <2>8 DEF Is
<1>5. CASE ~(h > 0)
  <2>1. Len(w) - c \in 0..Len(w) /\ ThinkTurn(z, FALSE) = EmitFirst(z, Len(w) - c)
    <3>1. ~(Find(z.pending, {ThinkEnd}) > 0)
      BY <1>1, <1>2, <1>5 DEF Is
    <3>2. /\ (Len(z.pending) - Held(z.pending, {ThinkEnd})) \in 0..Len(z.pending)
          /\ ThinkTurn(z, FALSE) = EmitFirst(z, Len(z.pending) - Held(z.pending, {ThinkEnd}))
      BY <3>1, ThinkTurnIs
    <3> QED
      BY <1>1, <1>2, <3>2 DEF Is
  <2>2. ThinkTurn(y, FALSE) = EmitFirst(y, Len(u) - c)
    <3>1. ~(Find(y.pending, {ThinkEnd}) > 0)
      BY <1>1, <1>2, <1>5 DEF Is
    <3>2. ThinkTurn(y, FALSE) = EmitFirst(y, Len(y.pending) - Held(y.pending, {ThinkEnd}))
      BY <3>1, ThinkTurnIs
    <3> QED
      BY <1>1, <1>2, <3>2 DEF Is
  <2>4. Len(w) - c \in 0..(Len(u) - k)
    BY <1>3, <2>1
  <2>5. PICK n \in 0..(Len(u) - k) : n = Len(w) - c
    BY <2>4
  <2>7. Len(u) - c = k + n
    BY <1>3, <2>5
  <2>8. EmitFirst(EmitFirst(y, k), n) = EmitFirst(y, k + n)
    BY <1>1, EmitFurther DEF Is
  <2> QED
    BY <2>1, <2>2, <2>5, <2>7, <2>8 DEF Is
<1> QED
  BY <1>4, <1>5

\* More text behind a turn inside reasoning.
LEMMA ThinkMore ==
  ASSUME NEW p \in Parsers, NEW b \in AnyText
  PROVE  ThinkMoves(p, b)
<1>1. PICK t \in AnyText : Is(t, p.pending)
  BY PartsOf DEF Is
<1>2. PICK u \in AnyText : Is(u, t \o b)
  BY JoinTexts DEF Is
<1>3. PICK y \in Parsers : Is(y, More(p, b)) /\ Is(y.pending, u)
  BY <1>1, <1>2, MoreIs DEF Is
<1>4. CASE Find(t, {ThinkEnd}) > 0
  <2>1. Find(u, {ThinkEnd}) = Find(t, {ThinkEnd})
    <3>1. Find(t, {ThinkEnd}) # 0 /\ {ThinkEnd} \in SUBSET MarkerTexts(Alphabet) /\ Apart({ThinkEnd})
      BY <1>4, MarkersAre DEF AnyMarkers
    <3>2. Find(t \o b, {ThinkEnd}) = Find(t, {ThinkEnd})
      BY <3>1, FoundStays DEF AnyText
    <3> QED
      BY <1>2, <3>2 DEF Is
  <2>2. PICK n \in 0..Len(t) : /\ Is(n, Find(t, {ThinkEnd}) + Len(ThinkEnd) - 1)
                               /\ ThinkTurn(p, FALSE) = Thinks(EmitFirst(p, n), FALSE)
    BY <1>1, <1>4, ThinkTurnIs DEF Is
  <2>3. ThinkTurn(y, FALSE) = Thinks(EmitFirst(y, n), FALSE)
    <3>1. Find(y.pending, {ThinkEnd}) > 0
      BY <1>3, <1>4, <2>1 DEF Is
    <3>2. ThinkTurn(y, FALSE)
            = Thinks(EmitFirst(y, Find(y.pending, {ThinkEnd}) + Len(ThinkEnd) - 1), FALSE)
      BY <3>1, ThinkTurnIs
    <3> QED
      BY <1>3, <2>1, <2>2, <3>2 DEF Is
  <2>4. EmitFirst(More(p, b), n) = More(EmitFirst(p, n), b) /\ EmitFirst(p, n) \in Parsers
    BY <1>1, EmitMore, EmitFirstIs DEF Is
  <2>5. PICK q \in Parsers : Is(q, EmitFirst(p, n))
    BY <2>4 DEF Is
  <2>6. PICK no \in BOOLEAN : no = FALSE
    OBVIOUS
  <2>7. Thinks(More(q, b), no) = More(Thinks(q, no), b)
    BY ThinksMore
  <2>8. ThinkTurn(More(p, b), FALSE) = More(ThinkTurn(p, FALSE), b)
    BY <1>3, <2>2, <2>3, <2>4, <2>5, <2>6, <2>7 DEF Is
  <2> QED
    BY <2>8 DEF ThinkMoves
<1>5. CASE ~(Find(t, {ThinkEnd}) > 0)
  <2>0. Find(t, {ThinkEnd}) = 0 /\ {ThinkEnd} \in AnyMarkers
    <3>1. {ThinkEnd} \in AnyMarkers
      BY MarkersAre
    <3>2. Find(t, {ThinkEnd}) \in Nat
      BY <3>1, TextCuts
    <3> QED
      BY <1>5, <3>1, <3>2
  <2>9. PICK k \in 0..Len(t), v \in AnyText, w \in AnyText, g \in Nat, h \in Nat, c \in Nat :
           IsBeyond(t, b, {ThinkEnd}, k, v, w, g, h, c)
    BY <2>0, KeptMore
  <2>1. /\ Is(k, Len(t) - Held(t, {ThinkEnd})) /\ Is(v, t \o b) /\ Is(w, Drop(t, k) \o b)
        /\ Is(g, Find(v, {ThinkEnd})) /\ Is(h, Find(w, {ThinkEnd}))
        /\ Is(c, Held(w, {ThinkEnd})) /\ Is(c, Held(v, {ThinkEnd}))
        /\ g = (IF h = 0 THEN 0 ELSE k + h)
    BY <2>9 DEF IsBeyond
  <2>2. ThinkTurn(p, FALSE) = EmitFirst(p, k)
    BY <1>1, <1>5, <2>1, ThinkTurnIs DEF Is
  <2>3. PICK q \in Parsers : /\ Is(q, EmitFirst(p, k)) /\ q.pending = Drop(t, k)
          /\ q.thinking = p.thinking /\ q.inCall = p.inCall /\ q.failed = p.failed
    BY <1>1, EmitFirstIs DEF Is
  <2>4. PICK z \in Parsers : Is(z, More(q, b)) /\ Is(z.pending, w)
    <3>1. PICK z \in Parsers : Is(z, More(q, b)) /\ z.pending = q.pending \o b
      BY MoreIs DEF Is
    <3> QED
      BY <2>1, <2>3, <3>1 DEF Is
  <2>5. k \in 0..Len(y.pending) /\ Is(z, EmitFirst(y, k))
    <3>1. /\ k \in 0..Len(More(p, b).pending)
          /\ EmitFirst(More(p, b), k) = More(EmitFirst(p, k), b)
      BY <1>1, EmitMore DEF Is
    <3> QED
      BY <1>3, <2>3, <2>4, <3>1 DEF Is
  <2>6. /\ Find(y.pending, {ThinkEnd}) = (IF Find(z.pending, {ThinkEnd}) = 0 THEN 0
                                          ELSE k + Find(z.pending, {ThinkEnd}))
        /\ Held(y.pending, {ThinkEnd}) = Held(z.pending, {ThinkEnd})
    BY <1>2, <1>3, <2>1, <2>4 DEF Is
  <2>7. ThinkTurn(y, FALSE) = ThinkTurn(z, FALSE)
    BY <2>5, <2>6, ThinkFurther
  <2> QED
    BY <1>3, <2>2, <2>3, <2>4, <2>7 DEF ThinkMoves, Is
<1> QED
  BY <1>4, <1>5

\* The two markers looked for together never stand at the same place.
LEMMA OnlyOne ==
  ASSUME NEW t \in AnyText, NEW i \in Nat \ {0}, Stands(t, Open, i), Stands(t, Think, i)
  PROVE  FALSE
<1>1. /\ Open \in Seq(Alphabet) /\ Think \in Seq(Alphabet)
      /\ Len(Open) \in Nat \ {0} /\ Len(Think) \in Nat \ {0}
      /\ t \in Seq(Alphabet)
  BY MarkersAre DEF AnyText
<1>2. \A k \in 1..Len(Open) : t[i + k - 1] = Open[k]
  BY <1>1, StandsIs
<1>3. \A k \in 1..Len(Think) : t[i + k - 1] = Think[k]
  BY <1>1, StandsIs
<1>4. ~Stands(Open, Think, 1) /\ ~Stands(Think, Open, 1)
  BY MarkersAssumption
<1>5. CASE Len(Think) <= Len(Open)
  <2>1. \A k \in 1..Len(Think) : Open[1 + k - 1] = Think[k]
    <3>1. SUFFICES ASSUME NEW k \in 1..Len(Think) PROVE Open[1 + k - 1] = Think[k]
      OBVIOUS
    <3>2. k \in 1..Len(Open) /\ 1 + k - 1 = k
      BY <1>1, <1>5
    <3> QED
      BY <1>2, <1>3, <3>2
  <2>2. 1 + Len(Think) <= Len(Open) + 1
    BY <1>1, <1>5
  <2>3. Stands(Open, Think, 1)
    <3>1. PICK one \in Nat \ {0} : one = 1
      OBVIOUS
    <3>2. Stands(Open, Think, one) <=> /\ one + Len(Think) <= Len(Open) + 1
                                    /\ \A k \in 1..Len(Think) : Open[one + k - 1] = Think[k]
      BY <1>1, StandsIs
    <3> QED
      BY <2>1, <2>2, <3>1, <3>2
  <2> QED
    BY <1>4, <2>3
<1>6. CASE Len(Open) <= Len(Think)
  <2>1. \A k \in 1..Len(Open) : Think[1 + k - 1] = Open[k]
    <3>1. SUFFICES ASSUME NEW k \in 1..Len(Open) PROVE Think[1 + k - 1] = Open[k]
      OBVIOUS
    <3>2. k \in 1..Len(Think) /\ 1 + k - 1 = k
      BY <1>1, <1>6
    <3> QED
      BY <1>2, <1>3, <3>2
  <2>2. 1 + Len(Open) <= Len(Think) + 1
    BY <1>1, <1>6
  <2>3. Stands(Think, Open, 1)
    <3>1. PICK one \in Nat \ {0} : one = 1
      OBVIOUS
    <3>2. Stands(Think, Open, one) <=> /\ one + Len(Open) <= Len(Think) + 1
                                    /\ \A k \in 1..Len(Open) : Think[one + k - 1] = Open[k]
      BY <1>1, StandsIs
    <3> QED
      BY <2>1, <2>2, <3>1, <3>2
  <2> QED
    BY <1>4, <2>3
<1> QED
  BY <1>1, <1>5, <1>6

\* A marker that stands in a text stands in a longer one.
LEMMA StandsMore ==
  ASSUME NEW t \in AnyText, NEW b \in AnyText, NEW m \in AnyText, NEW i \in Nat, i > 0,
         Stands(t, m, i)
  PROVE  Stands(t \o b, m, i)
<1>1. i + Len(m) <= Len(t) + 1
  BY StandsIs DEF AnyText
<1> QED
  BY <1>1, StandsInConcat DEF AnyText

\* The two markers looked for outside calls and reasoning, together.
Starts == {Open, Think}

\* The two of them are markers that do not overlap.
LEMMA StartsAre ==
  /\ Starts \in AnyMarkers /\ Starts \in SUBSET MarkerTexts(Alphabet)
  /\ Apart(Starts) /\ Starts = {Open, Think}
  BY MarkersAre DEF Starts, AnyMarkers

\* A beginning that is found is found in a longer text.
LEMMA StartStays ==
  ASSUME NEW t \in AnyText, NEW b \in AnyText, NEW at \in Nat, at > 0, Is(at, Find(t, Starts))
  PROVE  /\ Find(t \o b, Starts) = at
         /\ Stands(t \o b, Open, at) <=> Stands(t, Open, at)
<1>1. Find(t, Starts) # 0
  BY DEF Is
<1>2. Find(t \o b, Starts) = at
  BY <1>1, StartsAre, FoundStays DEF AnyText, Is
<1>3. Open \in AnyText /\ Think \in AnyText
  BY MarkersAre
<1>4. Stands(t, Open, at) => Stands(t \o b, Open, at)
  BY <1>3, StandsMore
<1>5. ASSUME ~Stands(t, Open, at), Stands(t \o b, Open, at) PROVE FALSE
  <2>1. \E m \in Starts : Stands(t, m, at)
    <3>1. Find(t, Starts) > 0 => \E m \in Starts : Stands(t, m, Find(t, Starts))
      BY StartsAre, TextCuts
    <3> QED
      BY <3>1 DEF Is
  <2>2. Stands(t, Think, at)
    BY <1>5, <2>1, StartsAre
  <2>3. Stands(t \o b, Think, at)
    BY <1>3, <2>2, StandsMore
  <2>4. t \o b \in AnyText /\ at \in Nat \ {0}
    BY JoinTexts
  <2> QED
    BY <1>5, <2>3, <2>4, OnlyOne
<1> QED
  BY <1>2, <1>4, <1>5

\* What a turn outside calls and reasoning does, by what it finds.
LEMMA TextTurnEnters ==
  ASSUME NEW p \in Parsers, NEW fin \in BOOLEAN, NEW t, Is(t, p.pending),
         NEW at \in Nat, Is(at, Find(t, Starts)), at > 0, Stands(t, Open, at)
  PROVE  /\ at - 1 \in 0..Len(t) /\ at + Len(Open) - 1 \in 0..Len(t)
         /\ TextTurn(p, fin) = Enters(EmitFirst(p, at - 1), Drop(t, at + Len(Open) - 1))
  BY TextTurnIs DEF Is, Starts

\* The turn that finds an opening think marker first.
LEMMA TextTurnThinks ==
  ASSUME NEW p \in Parsers, NEW fin \in BOOLEAN, NEW t, Is(t, p.pending),
         NEW at \in Nat, Is(at, Find(t, Starts)), at > 0, ~Stands(t, Open, at)
  PROVE  /\ at + Len(Think) - 1 \in 0..Len(t)
         /\ TextTurn(p, fin) = Thinks(EmitFirst(p, at + Len(Think) - 1), TRUE)
  BY TextTurnIs DEF Is, Starts

\* The turn that finds neither.
LEMMA TextTurnEmits ==
  ASSUME NEW p \in Parsers, NEW t, Is(t, p.pending),
         NEW at \in Nat, Is(at, Find(t, Starts)), ~(at > 0),
         NEW keep \in 0..Len(t), Is(keep, Len(t) - Held(t, Starts))
  PROVE  TextTurn(p, FALSE) = EmitFirst(p, keep)
<1>1. PICK no \in BOOLEAN : no = FALSE
  OBVIOUS
<1>2. ~(Find(p.pending, {Open, Think}) > 0)
  BY DEF Is, Starts
<1>3. TextTurn(p, no) = EmitFirst(p, Len(p.pending) - Held(p.pending, {Open, Think}))
  BY <1>1, <1>2, TextTurnIs
<1> QED
  BY <1>1, <1>3 DEF Is, Starts

\* Outside calls and reasoning too, text that was given out before the turn is
\* text the turn would have given out.
LEMMA TextFurther ==
  ASSUME NEW y \in Parsers, NEW z \in Parsers, NEW k \in 0..Len(y.pending),
         Is(z, EmitFirst(y, k)), NEW u \in AnyText, Is(u, y.pending),
         NEW w \in AnyText, Is(w, z.pending), Is(w, Drop(u, k)),
         NEW g \in Nat, Is(g, Find(u, Starts)), NEW h \in Nat, Is(h, Find(w, Starts)),
         g = (IF h = 0 THEN 0 ELSE k + h),
         NEW c \in 0..Len(w), Is(c, Held(u, Starts)), Is(c, Held(w, Starts))
  PROVE  TextTurn(y, FALSE) = TextTurn(z, FALSE)
<1>0. PICK no \in BOOLEAN : no = FALSE
  OBVIOUS
<1>1. /\ Open \in AnyText /\ Think \in AnyText
      /\ Len(Open) \in Nat \ {0} /\ Len(Think) \in Nat \ {0}
  BY MarkersAre
<1>2. Len(u) \in Nat /\ Len(w) \in Nat /\ Len(w) = Len(u) - k /\ k \in 0..Len(u)
  <2>1. k \in 0..Len(u)
    BY DEF Is
  <2>2. Len(Drop(u, k)) = Len(u) - k
    BY <2>1, CutParts
  <2> QED
    BY <2>1, <2>2 DEF Is, AnyText
<1>3. ASSUME h > 0 PROVE g = k + h /\ g > 0 /\ (Stands(w, Open, h) <=> Stands(u, Open, g))
  <2>1. g = k + h /\ g > 0
    BY <1>2, <1>3
  <2>2. Stands(Drop(u, k), Open, h) <=> Stands(u, Open, k + h)
    BY <1>1, <1>2, <1>3, StandsInDrop DEF AnyText
  <2> QED
    BY <2>1, <2>2 DEF Is
<1>4. CASE h > 0 /\ Stands(w, Open, h)
  <2>1. /\ h - 1 \in 0..Len(w) /\ h + Len(Open) - 1 \in 0..Len(w)
        /\ TextTurn(z, no) = Enters(EmitFirst(z, h - 1), Drop(w, h + Len(Open) - 1))
    BY <1>4, TextTurnEnters
  <2>2. TextTurn(y, no) = Enters(EmitFirst(y, g - 1), Drop(u, g + Len(Open) - 1))
    BY <1>3, <1>4, TextTurnEnters
  <2>3. PICK n \in 0..(Len(u) - k) : n = h - 1
    BY <1>2, <2>1
  <2>4. PICK m \in 0..(Len(u) - k) : m = h + Len(Open) - 1
    BY <1>2, <2>1
  <2>5. g - 1 = k + n
    BY <1>2, <1>3, <1>4, <2>3
  <2>6. g + Len(Open) - 1 = k + m
    BY <1>1, <1>2, <1>3, <1>4, <2>4
  <2>7. EmitFirst(EmitFirst(y, k), n) = EmitFirst(y, k + n)
    BY EmitFurther DEF Is
  <2>8. Drop(Drop(u, k), m) = Drop(u, k + m)
    BY <1>2, CutFurther DEF AnyText
  <2> QED
    BY <1>0, <2>1, <2>2, <2>3, <2>4, <2>5, <2>6, <2>7, <2>8 DEF Is
<1>5. CASE h > 0 /\ ~Stands(w, Open, h)
  <2>1. /\ h + Len(Think) - 1 \in 0..Len(w)
        /\ TextTurn(z, no) = Thinks(EmitFirst(z, h + Len(Think) - 1), TRUE)
    BY <1>5, TextTurnThinks
  <2>2. TextTurn(y, no) = Thinks(EmitFirst(y, g + Len(Think) - 1), TRUE)
    BY <1>3, <1>5, TextTurnThinks
  <2>3. PICK n \in 0..(Len(u) - k) : n = h + Len(Think) - 1
    BY <1>2, <2>1
  <2>5. g + Len(Think) - 1 = k + n
    BY <1>1, <1>2, <1>3, <1>5, <2>3
  <2>7. EmitFirst(EmitFirst(y, k), n) = EmitFirst(y, k + n)
    BY EmitFurther DEF Is
  <2> QED
    BY <1>0, <2>1, <2>2, <2>3, <2>5, <2>7 DEF Is
<1>6. CASE ~(h > 0)
  <2>1. ~(g > 0)
    BY <1>6
  <2>2. PICK n \in 0..(Len(u) - k) : n = Len(w) - c
    <3>1. Len(w) - c \in 0..(Len(u) - k)
      BY <1>2
    <3> QED
      BY <3>1
  <2>3. PICK m \in 0..Len(u) : m = Len(u) - c
    <3>1. Len(u) - c \in 0..Len(u)
      BY <1>2
    <3> QED
      BY <3>1
  <2>4. TextTurn(z, FALSE) = EmitFirst(z, n)
    <3>1. n \in 0..Len(w) /\ Is(n, Len(w) - Held(w, Starts))
      BY <1>2, <2>2 DEF Is
    <3> QED
      BY <1>6, <3>1, TextTurnEmits
  <2>5. TextTurn(y, FALSE) = EmitFirst(y, m)
    <3>1. Is(m, Len(u) - Held(u, Starts))
      BY <2>3 DEF Is
    <3> QED
      BY <2>1, <3>1, TextTurnEmits
  <2>6. m = k + n
    BY <1>2, <2>2, <2>3
  <2>7. EmitFirst(EmitFirst(y, k), n) = EmitFirst(y, k + n)
    BY EmitFurther DEF Is
  <2> QED
    BY <2>4, <2>5, <2>6, <2>7 DEF Is
<1> QED
  BY <1>4, <1>5, <1>6

\* What more text makes of the turn outside reasoning and calls.
TextMoves(p, b) ==
  LET q == TextTurn(p, FALSE)
  IN  \/ TextTurn(More(p, b), FALSE) = More(q, b)
      \/ /\ TextTurn(More(p, b), FALSE) = TextTurn(More(q, b), FALSE)
         /\ q \in Parsers
         /\ q.thinking = p.thinking /\ q.inCall = p.inCall /\ q.failed = p.failed

\* More text behind a turn outside reasoning and calls.
LEMMA TextMore ==
  ASSUME NEW p \in Parsers, NEW b \in AnyText
  PROVE  TextMoves(p, b)
<1>0. PICK no \in BOOLEAN, yes \in BOOLEAN : no = FALSE /\ yes = TRUE
  OBVIOUS
<1>1. PICK t \in AnyText : Is(t, p.pending)
  BY PartsOf DEF Is
<1>2. PICK u \in AnyText : Is(u, t \o b)
  BY JoinTexts DEF Is
<1>3. PICK y \in Parsers : Is(y, More(p, b)) /\ Is(y.pending, u) /\ Is(u, y.pending)
  <2>1. PICK y \in Parsers : Is(y, More(p, b)) /\ y.pending = p.pending \o b
    BY MoreIs DEF Is
  <2> QED
    BY <1>1, <1>2, <2>1 DEF Is
<1>4. PICK at \in Nat : Is(at, Find(t, Starts))
  BY StartsAre, TextCuts DEF Is
<1>5. ASSUME at > 0
      PROVE  Is(at, Find(u, Starts)) /\ (Stands(u, Open, at) <=> Stands(t, Open, at))
  BY <1>2, <1>4, <1>5, StartStays DEF Is
<1>6. CASE at > 0 /\ Stands(t, Open, at)
  <2>1. /\ at - 1 \in 0..Len(t) /\ at + Len(Open) - 1 \in 0..Len(t)
        /\ TextTurn(p, no) = Enters(EmitFirst(p, at - 1), Drop(t, at + Len(Open) - 1))
    BY <1>1, <1>4, <1>6, TextTurnEnters
  <2>2. TextTurn(y, no) = Enters(EmitFirst(y, at - 1), Drop(u, at + Len(Open) - 1))
    BY <1>3, <1>5, <1>6, TextTurnEnters
  <2>3. PICK n \in 0..Len(t), k \in 0..Len(t) : Is(n, at - 1) /\ Is(k, at + Len(Open) - 1)
    BY <2>1 DEF Is
  <2>4. PICK d \in AnyText : Is(d, Drop(t, k))
    BY CutParts DEF Is
  <2>5. PICK w \in AnyText : Is(w, d \o b)
    BY JoinTexts DEF Is
  <2>6. Drop(t \o b, k) = Drop(t, k) \o b
    BY CutText
  <2>7. PICK q \in Parsers : Is(q, EmitFirst(p, n))
    BY <1>1, EmitFirstIs DEF Is
  <2>8. EmitFirst(More(p, b), n) = More(EmitFirst(p, n), b)
    BY <1>1, EmitMore DEF Is
  <2>9. Enters(More(q, b), w) = More(Enters(q, d), b)
    BY <2>5, EntersMore
  <2>10. TextTurn(y, no) = More(TextTurn(p, no), b)
    BY <1>2, <1>3, <2>1, <2>2, <2>3, <2>4, <2>5, <2>6, <2>7, <2>8, <2>9 DEF Is
  <2> QED
    BY <1>0, <1>3, <2>10 DEF TextMoves, Is
<1>7. CASE at > 0 /\ ~Stands(t, Open, at)
  <2>1. /\ at + Len(Think) - 1 \in 0..Len(t)
        /\ TextTurn(p, no) = Thinks(EmitFirst(p, at + Len(Think) - 1), TRUE)
    BY <1>1, <1>4, <1>7, TextTurnThinks
  <2>2. TextTurn(y, no) = Thinks(EmitFirst(y, at + Len(Think) - 1), TRUE)
    BY <1>3, <1>5, <1>7, TextTurnThinks
  <2>3. PICK n \in 0..Len(t) : Is(n, at + Len(Think) - 1)
    BY <2>1 DEF Is
  <2>7. PICK q \in Parsers : Is(q, EmitFirst(p, n))
    BY <1>1, EmitFirstIs DEF Is
  <2>8. EmitFirst(More(p, b), n) = More(EmitFirst(p, n), b)
    BY <1>1, EmitMore DEF Is
  <2>9. Thinks(More(q, b), yes) = More(Thinks(q, yes), b)
    BY ThinksMore
  <2>10. TextTurn(y, no) = More(TextTurn(p, no), b)
    BY <1>0, <1>3, <2>1, <2>2, <2>3, <2>7, <2>8, <2>9 DEF Is
  <2> QED
    BY <1>0, <1>3, <2>10 DEF TextMoves, Is
<1>8. CASE ~(at > 0)
  <2>0. Find(t, Starts) = 0 /\ Starts \in AnyMarkers
    BY <1>4, <1>8, StartsAre DEF Is
  <2>1. PICK k \in 0..Len(t), v \in AnyText, w \in AnyText, g \in Nat, h \in Nat, c \in Nat :
          IsBeyond(t, b, Starts, k, v, w, g, h, c)
    BY <2>0, KeptMore
  <2>2. /\ Is(k, Len(t) - Held(t, Starts)) /\ Is(v, t \o b) /\ Is(w, Drop(t, k) \o b)
        /\ Is(g, Find(v, Starts)) /\ Is(h, Find(w, Starts))
        /\ Is(c, Held(w, Starts)) /\ Is(c, Held(v, Starts))
        /\ g = (IF h = 0 THEN 0 ELSE k + h)
        /\ c \in 0..Len(w) /\ Is(Drop(v, k), w)
    BY <2>1 DEF IsBeyond
  <2>3. TextTurn(p, FALSE) = EmitFirst(p, k)
    BY <1>1, <1>4, <1>8, <2>2, TextTurnEmits
  <2>4. PICK q \in Parsers : /\ Is(q, EmitFirst(p, k)) /\ q.pending = Drop(t, k)
          /\ q.thinking = p.thinking /\ q.inCall = p.inCall /\ q.failed = p.failed
    BY <1>1, EmitFirstIs DEF Is
  <2>5. PICK z \in Parsers : Is(z, More(q, b)) /\ Is(w, z.pending)
    <3>1. PICK z \in Parsers : Is(z, More(q, b)) /\ z.pending = q.pending \o b
      BY MoreIs DEF Is
    <3> QED
      BY <2>2, <2>4, <3>1 DEF Is
  <2>6. k \in 0..Len(y.pending) /\ Is(z, EmitFirst(y, k))
    <3>1. /\ k \in 0..Len(More(p, b).pending)
          /\ EmitFirst(More(p, b), k) = More(EmitFirst(p, k), b)
      BY <1>1, EmitMore DEF Is
    <3> QED
      BY <1>3, <2>4, <2>5, <3>1 DEF Is
  <2>7. /\ Is(u, y.pending) /\ Is(w, Drop(u, k)) /\ Is(g, Find(u, Starts))
        /\ Is(c, Held(u, Starts))
    BY <1>2, <1>3, <2>2 DEF Is
  <2>8. TextTurn(y, FALSE) = TextTurn(z, FALSE)
    BY <2>2, <2>5, <2>6, <2>7, TextFurther, ZenonT(30)
  <2> QED
    BY <1>3, <2>3, <2>4, <2>5, <2>8 DEF TextMoves, Is
<1> QED
  BY <1>6, <1>7, <1>8

\* What more text makes of a turn: it fails as well, or did nothing before, or is
\* more of what the turn left, or what it makes of that.
TurnMoves(o, p, b) ==
  LET q == DrainTurn(o, p, FALSE)
  IN  \/ q.failed /\ DrainTurn(o, More(p, b), FALSE).failed
      \/ q = p
      \/ DrainTurn(o, More(p, b), FALSE) = More(q, b)
      \/ DrainTurn(o, More(p, b), FALSE) = DrainTurn(o, More(q, b), FALSE)

\* The turns by what the parser is in.
LEMMA TurnIs ==
  ASSUME NEW o, NEW p \in Parsers, NEW fin
  PROVE  /\ p.failed => DrainTurn(o, p, fin) = p
         /\ ~p.failed /\ p.inCall => DrainTurn(o, p, fin) = CallTurn(o, p, fin)
         /\ ~p.failed /\ ~p.inCall /\ p.thinking => DrainTurn(o, p, fin) = ThinkTurn(p, fin)
         /\ ~p.failed /\ ~p.inCall /\ ~p.thinking => DrainTurn(o, p, fin) = TextTurn(p, fin)
  BY PartsOf DEF DrainTurn

\* More text behind a turn, whatever the parser is inside of.
LEMMA TurnMore ==
  ASSUME NEW o, NEW p \in Parsers, NEW b \in AnyText
  PROVE  TurnMoves(o, p, b)
<1>1. p.failed \in BOOLEAN /\ p.inCall \in BOOLEAN /\ p.thinking \in BOOLEAN
  BY PartsOf
<1>2. PICK y \in Parsers : /\ Is(y, More(p, b)) /\ y.failed = p.failed /\ y.inCall = p.inCall
                           /\ y.thinking = p.thinking
  BY MoreIs DEF Is
<1>3. CASE p.failed
  <2>1. DrainTurn(o, p, FALSE) = p
    BY <1>3, TurnIs
  <2> QED
    BY <2>1 DEF TurnMoves
<1>4. CASE ~p.failed /\ p.inCall
  <2>1. DrainTurn(o, p, FALSE) = CallTurn(o, p, FALSE) /\ DrainTurn(o, y, FALSE) = CallTurn(o, y, FALSE)
    BY <1>2, <1>4, TurnIs
  <2>2. CallMoves(o, p, b)
    BY CallMore
  <2> QED
    BY <1>2, <2>1, <2>2 DEF CallMoves, TurnMoves, Is
<1>5. CASE ~p.failed /\ ~p.inCall /\ p.thinking
  <2>1. DrainTurn(o, p, FALSE) = ThinkTurn(p, FALSE) /\ DrainTurn(o, y, FALSE) = ThinkTurn(y, FALSE)
    BY <1>2, <1>5, TurnIs
  <2>2. ThinkMoves(p, b)
    BY ThinkMore
  <2>3. CASE ThinkTurn(More(p, b), FALSE) = More(ThinkTurn(p, FALSE), b)
    BY <1>2, <2>1, <2>3 DEF TurnMoves, Is
  <2>4. CASE ~(ThinkTurn(More(p, b), FALSE) = More(ThinkTurn(p, FALSE), b))
    <3>1. PICK q \in Parsers :
            /\ Is(q, ThinkTurn(p, FALSE))
            /\ ThinkTurn(More(p, b), FALSE) = ThinkTurn(More(q, b), FALSE)
            /\ q.thinking = p.thinking /\ q.inCall = p.inCall /\ q.failed = p.failed
      BY <2>2, <2>4 DEF ThinkMoves, Is
    <3>2. PICK z \in Parsers : /\ Is(z, More(q, b)) /\ z.failed = q.failed /\ z.inCall = q.inCall
                               /\ z.thinking = q.thinking
      BY MoreIs DEF Is
    <3>3. DrainTurn(o, z, FALSE) = ThinkTurn(z, FALSE)
      BY <1>5, <3>1, <3>2, TurnIs
    <3> QED
      BY <1>2, <2>1, <3>1, <3>2, <3>3 DEF TurnMoves, Is
  <2> QED
    BY <2>3, <2>4
<1>6. CASE ~p.failed /\ ~p.inCall /\ ~p.thinking
  <2>1. DrainTurn(o, p, FALSE) = TextTurn(p, FALSE) /\ DrainTurn(o, y, FALSE) = TextTurn(y, FALSE)
    BY <1>2, <1>6, TurnIs
  <2>2. TextMoves(p, b)
    BY TextMore
  <2>3. CASE TextTurn(More(p, b), FALSE) = More(TextTurn(p, FALSE), b)
    BY <1>2, <2>1, <2>3 DEF TurnMoves, Is
  <2>4. CASE ~(TextTurn(More(p, b), FALSE) = More(TextTurn(p, FALSE), b))
    <3>1. PICK q \in Parsers :
            /\ Is(q, TextTurn(p, FALSE))
            /\ TextTurn(More(p, b), FALSE) = TextTurn(More(q, b), FALSE)
            /\ q.thinking = p.thinking /\ q.inCall = p.inCall /\ q.failed = p.failed
      BY <2>2, <2>4 DEF TextMoves, Is
    <3>2. PICK z \in Parsers : /\ Is(z, More(q, b)) /\ z.failed = q.failed /\ z.inCall = q.inCall
                               /\ z.thinking = q.thinking
      BY MoreIs DEF Is
    <3>3. DrainTurn(o, z, FALSE) = TextTurn(z, FALSE)
      BY <1>6, <3>1, <3>2, TurnIs
    <3> QED
      BY <1>2, <2>1, <3>1, <3>2, <3>3 DEF TurnMoves, Is
  <2> QED
    BY <2>3, <2>4
<1> QED
  BY <1>1, <1>3, <1>4, <1>5, <1>6

----------------------------------------------------------------------------
\* The loop at rest.

\* What the loop makes of a parser with more text behind; and the parsers of
\* which it makes what it makes of p.
Done(o, p, b) == Drain(o, More(p, b), FALSE)

SameDone(o, p, b) ==
  {x \in Parsers : IF x.failed THEN Done(o, p, b).failed ELSE Done(o, x, b) = Done(o, p, b)}

\* A parser at rest, or that failed, stays as it is.
LEMMA RestDrains ==
  ASSUME NEW o, NEW p \in Parsers, NEW fin \in BOOLEAN, Rests(o, p, fin)
  PROVE  Drain(o, p, fin) = p
<1>1. \E n \in Nat : n = 0
  OBVIOUS
<1>2. PICK n \in Nat : n = 0
  BY <1>1
<1>3. PICK a : Turns(a, n, o, p, fin)
  BY TurnsExist
<1>4. a[n] = p
  BY <1>2, <1>3 DEF Turns
<1>5. Rests(o, a[n], fin)
  BY <1>4
<1> QED
  BY <1>3, <1>4, <1>5, DrainAtRest

\* The loop leaves a parser that failed alone.
LEMMA FailedRests ==
  ASSUME NEW o, NEW p \in Parsers, NEW fin \in BOOLEAN, p.failed
  PROVE  Drain(o, p, fin) = p
  BY RestDrains, TurnType DEF Rests

\* A turn leaves it so.
LEMMA SameDoneStays ==
  ASSUME NEW o, NEW p \in Parsers, NEW b \in AnyText, NEW x \in SameDone(o, p, b)
  PROVE  DrainTurn(o, x, FALSE) \in SameDone(o, p, b)
<1>0. PICK no \in BOOLEAN : no = FALSE
  OBVIOUS
<1>1. x \in Parsers /\ x.failed \in BOOLEAN
  BY PartsOf DEF SameDone
<1>2. CASE x.failed
  <2>1. DrainTurn(o, x, no) = x
    BY <1>1, <1>2, TurnIs
  <2> QED
    BY <1>0, <2>1
<1>3. CASE ~x.failed
  <2>1. PICK q \in Parsers : Is(q, DrainTurn(o, x, no))
    BY <1>1, TurnType DEF Is
  <2>2. q.failed \in BOOLEAN
    BY PartsOf
  <2>3. PICK y \in Parsers : Is(y, More(x, b))
    BY <1>1, MoreIs DEF Is
  <2>4. PICK z \in Parsers : Is(z, More(q, b))
    BY MoreIs DEF Is
  <2>5. Drain(o, y, no) = Done(o, p, b)
    BY <1>0, <1>3, <2>3 DEF SameDone, Done, Is
  <2>6. Drain(o, DrainTurn(o, y, no), no) = Drain(o, y, no)
    BY DrainOfTurn
  <2>7. Drain(o, DrainTurn(o, z, no), no) = Drain(o, z, no)
    BY DrainOfTurn
  <2>8. \/ q.failed /\ DrainTurn(o, y, no).failed
        \/ q = x
        \/ DrainTurn(o, y, no) = z
        \/ DrainTurn(o, y, no) = DrainTurn(o, z, no)
    <3>1. TurnMoves(o, x, b)
      BY <1>1, TurnMore
    <3> QED
      BY <1>0, <2>1, <2>3, <2>4, <3>1 DEF TurnMoves, Is
  <2>9. CASE q.failed /\ DrainTurn(o, y, no).failed
    <3>1. DrainTurn(o, y, no) \in Parsers
      BY TurnType
    <3>2. Drain(o, DrainTurn(o, y, no), no).failed
      BY <2>9, <3>1, FailedRests
    <3> QED
      BY <1>0, <2>1, <2>5, <2>6, <2>9, <3>2 DEF SameDone, Is
  <2>10. CASE q = x
    BY <1>0, <2>1, <2>10 DEF Is
  <2>11. CASE ~q.failed /\ (DrainTurn(o, y, no) = z \/ DrainTurn(o, y, no) = DrainTurn(o, z, no))
    <3>1. Drain(o, z, no) = Done(o, p, b)
      BY <2>5, <2>6, <2>7, <2>11
    <3>2. Done(o, q, b) = Done(o, p, b)
      BY <1>0, <2>4, <3>1 DEF Done, Is
    <3> QED
      BY <1>0, <2>1, <2>11, <3>2 DEF SameDone, Is
  <2>12. CASE q.failed /\ (DrainTurn(o, y, no) = z \/ DrainTurn(o, y, no) = DrainTurn(o, z, no))
    <3>1. z.failed
      BY <2>4, <2>12, MoreIs DEF Is
    <3>2. DrainTurn(o, z, no) = z
      BY <3>1, TurnIs
    <3>3. Drain(o, z, no) = z
      BY <3>1, FailedRests
    <3>4. Done(o, p, b).failed
      BY <2>5, <2>6, <2>7, <2>12, <3>1, <3>2, <3>3
    <3> QED
      BY <1>0, <2>1, <2>12, <3>4 DEF SameDone, Is
  <2> QED
    BY <2>2, <2>8, <2>9, <2>10, <2>11, <2>12
<1> QED
  BY <1>1, <1>2, <1>3

\* Text that comes behind what the loop left is text that came before it.
LEMMA DrainMore ==
  ASSUME NEW o, NEW p \in Parsers, NEW b \in AnyText
  PROVE  LET d == Drain(o, p, FALSE)
         IN  /\ d \in Parsers
             /\ d.failed => Done(o, p, b).failed
             /\ ~d.failed => Done(o, d, b) = Done(o, p, b)
<1>0. PICK no \in BOOLEAN : no = FALSE
  OBVIOUS
<1>1. p \in SameDone(o, p, b)
  <2>1. CASE p.failed
    <3>1. PICK y \in Parsers : Is(y, More(p, b)) /\ y.failed
      BY <2>1, MoreIs DEF Is
    <3>2. Drain(o, y, no) = y
      BY <3>1, FailedRests
    <3> QED
      BY <1>0, <2>1, <3>1, <3>2 DEF SameDone, Done, Is
  <2>2. CASE ~p.failed
    BY <2>2 DEF SameDone
  <2> QED
    BY <2>1, <2>2
<1>2. \A x \in SameDone(o, p, b) : DrainTurn(o, x, no) \in SameDone(o, p, b)
  BY <1>0, SameDoneStays
<1>3. Drain(o, p, no) \in SameDone(o, p, b)
  BY <1>1, <1>2, DrainKeeps
<1> QED
  BY <1>0, <1>3 DEF SameDone

----------------------------------------------------------------------------
\* Events that went through the splitter before, and events that wait.

\* Parsers alike but for what they gave out, which lead, from the stages sr and
\* sd, to the same stage.
Alike(x, y) ==
  /\ x \in Parsers /\ y \in Parsers
  /\ x.pending = y.pending /\ x.thinking = y.thinking /\ x.inCall = y.inCall
  /\ x.calls = y.calls /\ x.failed = y.failed

Twins(sr, x, sd, y) ==
  /\ Ready(sr) /\ Ready(sd) /\ Alike(x, y)
  /\ x.failed \/ Route(sr, x.events) = Route(sd, y.events)

\* What is done to both leaves them so.
LEMMA TwinsEmit ==
  ASSUME NEW sr, NEW x, NEW sd, NEW y, Twins(sr, x, sd, y), NEW n \in 0..Len(x.pending)
  PROVE  Twins(sr, EmitFirst(x, n), sd, EmitFirst(y, n))
<1>1. x \in Parsers /\ y \in Parsers /\ x.pending = y.pending /\ Ready(sr) /\ Ready(sd)
  BY DEF Twins, Alike
<1>2. PICK t \in AnyText : Is(t, Take(x.pending, n))
  BY <1>1, PartsOf, CutParts DEF Is
<1>3. PICK e \in Seq(Events), d \in Seq(Events) : Is(e, x.events) /\ Is(d, y.events)
  BY <1>1, PartsOf DEF Is
<1>4. PICK z \in Parsers :
        /\ Is(z, EmitFirst(x, n)) /\ z.pending = Drop(x.pending, n)
        /\ z.events = EmitText(e, t)
        /\ z.thinking = x.thinking /\ z.inCall = x.inCall
        /\ z.calls = x.calls /\ z.failed = x.failed
  BY <1>1, <1>2, <1>3, EmitFirstIs DEF Is
<1>5. PICK w \in Parsers :
        /\ Is(w, EmitFirst(y, n)) /\ w.pending = Drop(x.pending, n)
        /\ w.events = EmitText(d, t)
        /\ w.thinking = y.thinking /\ w.inCall = y.inCall
        /\ w.calls = y.calls /\ w.failed = y.failed
  BY <1>1, <1>2, <1>3, EmitFirstIs DEF Is
<1>6. Alike(z, w)
  BY <1>4, <1>5 DEF Twins, Alike
<1>7. ~z.failed => Route(sr, z.events) = Route(sd, w.events)
  <2>1. SUFFICES ASSUME ~z.failed PROVE Route(sr, z.events) = Route(sd, w.events)
    OBVIOUS
  <2>2. Route(sr, e) = Route(sd, d)
    BY <1>3, <1>4, <2>1 DEF Twins, Is
  <2>3. Route(sr, EmitText(e, t)) = SplitText(Route(sr, e), t)
    BY <1>1, RouteEmit
  <2>4. Route(sd, EmitText(d, t)) = SplitText(Route(sd, d), t)
    BY <1>1, RouteEmit
  <2> QED
    BY <1>4, <1>5, <2>2, <2>3, <2>4
<1>8. Twins(sr, z, sd, w)
  BY <1>1, <1>6, <1>7 DEF Twins
<1> QED
  BY <1>4, <1>5, <1>8 DEF Is

\* Twins stay twins when both enter or leave reasoning,
LEMMA TwinsThink ==
  ASSUME NEW sr, NEW x, NEW sd, NEW y, Twins(sr, x, sd, y), NEW c \in BOOLEAN
  PROVE  Twins(sr, Thinks(x, c), sd, Thinks(y, c))
<1>1. x \in Parsers /\ y \in Parsers
  BY DEF Twins, Alike
<1>2. PICK z \in Parsers :
        /\ Is(z, Thinks(x, c)) /\ z.pending = x.pending /\ z.events = x.events /\ z.thinking = c
        /\ z.inCall = x.inCall /\ z.calls = x.calls /\ z.failed = x.failed
  BY <1>1, ThinksIs DEF Is
<1>3. PICK w \in Parsers :
        /\ Is(w, Thinks(y, c)) /\ w.pending = y.pending /\ w.events = y.events /\ w.thinking = c
        /\ w.inCall = y.inCall /\ w.calls = y.calls /\ w.failed = y.failed
  BY <1>1, ThinksIs DEF Is
<1>4. Twins(sr, z, sd, w)
  BY <1>2, <1>3 DEF Twins, Alike
<1> QED
  BY <1>2, <1>3, <1>4 DEF Is

\* when both enter a call,
LEMMA TwinsEnter ==
  ASSUME NEW sr, NEW x, NEW sd, NEW y, Twins(sr, x, sd, y), NEW t \in AnyText
  PROVE  Twins(sr, Enters(x, t), sd, Enters(y, t))
<1>1. x \in Parsers /\ y \in Parsers
  BY DEF Twins, Alike
<1>2. PICK z \in Parsers :
        /\ Is(z, Enters(x, t)) /\ z.pending = t /\ z.events = x.events
        /\ z.thinking = x.thinking /\ z.inCall = TRUE
        /\ z.calls = x.calls /\ z.failed = x.failed
  BY <1>1, EntersIs DEF Is
<1>3. PICK w \in Parsers :
        /\ Is(w, Enters(y, t)) /\ w.pending = t /\ w.events = y.events
        /\ w.thinking = y.thinking /\ w.inCall = TRUE
        /\ w.calls = y.calls /\ w.failed = y.failed
  BY <1>1, EntersIs DEF Is
<1>4. Twins(sr, z, sd, w)
  BY <1>2, <1>3 DEF Twins, Alike
<1> QED
  BY <1>2, <1>3, <1>4 DEF Is

\* and when both fail.
LEMMA TwinsFail ==
  ASSUME NEW sr, NEW x, NEW sd, NEW y, Twins(sr, x, sd, y)
  PROVE  Twins(sr, Fail(x), sd, Fail(y))
<1>1. x \in Parsers /\ y \in Parsers
  BY DEF Twins, Alike
<1>2. PICK z \in Parsers :
        /\ Is(z, Fail(x)) /\ z.pending = x.pending /\ z.thinking = x.thinking
        /\ z.inCall = x.inCall /\ z.calls = x.calls /\ z.failed = TRUE
  BY <1>1, FailIs DEF Is
<1>3. PICK w \in Parsers :
        /\ Is(w, Fail(y)) /\ w.pending = y.pending /\ w.thinking = y.thinking
        /\ w.inCall = y.inCall /\ w.calls = y.calls /\ w.failed = TRUE
  BY <1>1, FailIs DEF Is
<1>4. Twins(sr, z, sd, w)
  BY <1>2, <1>3 DEF Twins, Alike
<1> QED
  BY <1>2, <1>3, <1>4 DEF Is

\* A call given out.
LEMMA TwinsEnd ==
  ASSUME NEW sr, NEW x, NEW sd, NEW y, Twins(sr, x, sd, y), NEW t \in AnyText,
         NEW c \in Events
  PROVE  Twins(sr, Ends(x, t, Append(x.events, c)), sd, Ends(y, t, Append(y.events, c)))
<1>1. x \in Parsers /\ y \in Parsers /\ Ready(sr) /\ Ready(sd)
  BY DEF Twins, Alike
<1>2. PICK e \in Seq(Events), d \in Seq(Events) : Is(e, x.events) /\ Is(d, y.events)
  BY <1>1, PartsOf DEF Is
<1>3. PICK ec \in Seq(Events), dc \in Seq(Events) : Is(ec, Append(e, c)) /\ Is(dc, Append(d, c))
  BY AppendEvent DEF Is
<1>4. PICK z \in Parsers :
        /\ Is(z, Ends(x, t, ec)) /\ z.pending = t /\ z.events = ec
        /\ z.thinking = x.thinking /\ z.inCall = FALSE
        /\ Is(z.calls, OneMore(x.calls)) /\ z.failed = x.failed
  <2>1. /\ Ends(x, t, ec) \in Parsers
        /\ Ends(x, t, ec).pending = t /\ Ends(x, t, ec).events = ec
    BY <1>1, EndsIs
  <2>2. /\ Ends(x, t, ec).thinking = x.thinking /\ Ends(x, t, ec).inCall = FALSE
        /\ Ends(x, t, ec).failed = x.failed
    BY <1>1, EndsKeeps
  <2>3. Is(Ends(x, t, ec).calls, OneMore(x.calls))
    BY <1>1, EndsCounts
  <2> QED
    BY <2>1, <2>2, <2>3 DEF Is
<1>5. PICK w \in Parsers :
        /\ Is(w, Ends(y, t, dc)) /\ w.pending = t /\ w.events = dc
        /\ w.thinking = y.thinking /\ w.inCall = FALSE
        /\ Is(w.calls, OneMore(y.calls)) /\ w.failed = y.failed
  <2>1. /\ Ends(y, t, dc) \in Parsers
        /\ Ends(y, t, dc).pending = t /\ Ends(y, t, dc).events = dc
    BY <1>1, EndsIs
  <2>2. /\ Ends(y, t, dc).thinking = y.thinking /\ Ends(y, t, dc).inCall = FALSE
        /\ Ends(y, t, dc).failed = y.failed
    BY <1>1, EndsKeeps
  <2>3. Is(Ends(y, t, dc).calls, OneMore(y.calls))
    BY <1>1, EndsCounts
  <2> QED
    BY <2>1, <2>2, <2>3 DEF Is
<1>6. Alike(z, w)
  BY <1>4, <1>5 DEF Twins, Alike, Is
<1>7. ~z.failed => Route(sr, z.events) = Route(sd, w.events)
  <2>1. SUFFICES ASSUME ~z.failed PROVE Route(sr, z.events) = Route(sd, w.events)
    OBVIOUS
  <2>2. Route(sr, e) = Route(sd, d)
    BY <1>2, <1>4, <2>1 DEF Twins, Is
  <2>3. Route(sr, Append(e, c)) = RouteEvent(Route(sr, e), c)
    BY <1>1, RouteAppend
  <2>4. Route(sd, Append(d, c)) = RouteEvent(Route(sd, d), c)
    BY <1>1, RouteAppend
  <2> QED
    BY <1>3, <1>4, <1>5, <2>2, <2>3, <2>4 DEF Is
<1>8. Twins(sr, z, sd, w)
  BY <1>1, <1>6, <1>7 DEF Twins
<1> QED
  BY <1>2, <1>3, <1>4, <1>5, <1>8 DEF Is

\* Twins stay twins over a turn inside a call,
LEMMA TwinsCall ==
  ASSUME NEW o, NEW sr, NEW x, NEW sd, NEW y, Twins(sr, x, sd, y), NEW fin \in BOOLEAN
  PROVE  Twins(sr, CallTurn(o, x, fin), sd, CallTurn(o, y, fin))
<1>1. x \in Parsers /\ y \in Parsers /\ x.pending = y.pending /\ x.calls = y.calls
  BY DEF Twins, Alike
<1>2. PICK t \in AnyText : Is(t, x.pending) /\ Is(t, y.pending)
  BY <1>1, PartsOf DEF Is
<1>3. PICK body, d : Is(body, Take(t, CallEnd(t) - 1)) /\ Is(d, Drop(t, CallEnd(t) + Len(Close) - 1))
  BY DEF Is
<1>4. Refuses(o, x, body) <=> Refuses(o, y, body)
  BY <1>1 DEF Refuses
<1>5. CASE CallEnd(t) > 0 /\ ~Refuses(o, x, body)
  <2>1. body \in AnyText /\ d \in AnyText
    BY <1>3, <1>5, EndCuts DEF Is
  <2>2. PICK c \in Events : Is(c, CallEvent(body))
    BY <2>1, TextEventIs DEF Is
  <2>3. CallTurn(o, x, fin) = Ends(x, d, Append(x.events, c))
    <3>1. CallEnd(x.pending) > 0 /\ ~Refuses(o, x, Take(x.pending, CallEnd(x.pending) - 1))
      BY <1>2, <1>3, <1>5 DEF Is
    <3>2. CallTurn(o, x, fin) = Ends(x, Drop(x.pending, CallEnd(x.pending) + Len(Close) - 1),
                    Append(x.events, CallEvent(Take(x.pending, CallEnd(x.pending) - 1))))
      BY <1>1, <3>1, CallTurnIs
    <3> QED
      BY <1>2, <1>3, <2>2, <3>2 DEF Is
  <2>4. CallTurn(o, y, fin) = Ends(y, d, Append(y.events, c))
    <3>1. CallEnd(y.pending) > 0 /\ ~Refuses(o, y, Take(y.pending, CallEnd(y.pending) - 1))
      BY <1>2, <1>3, <1>4, <1>5 DEF Is
    <3>2. CallTurn(o, y, fin) = Ends(y, Drop(y.pending, CallEnd(y.pending) + Len(Close) - 1),
                    Append(y.events, CallEvent(Take(y.pending, CallEnd(y.pending) - 1))))
      BY <1>1, <3>1, CallTurnIs
    <3> QED
      BY <1>2, <1>3, <2>2, <3>2 DEF Is
  <2>5. Twins(sr, Ends(x, d, Append(x.events, c)), sd, Ends(y, d, Append(y.events, c)))
    BY <2>1, TwinsEnd
  <2> QED
    BY <2>3, <2>4, <2>5
<1>6. CASE CallEnd(t) > 0 /\ Refuses(o, x, body)
  <2>1. CallEnd(x.pending) > 0 /\ Refuses(o, x, Take(x.pending, CallEnd(x.pending) - 1))
    BY <1>2, <1>3, <1>6 DEF Is
  <2>2. CallEnd(y.pending) > 0 /\ Refuses(o, y, Take(y.pending, CallEnd(y.pending) - 1))
    BY <1>2, <1>3, <1>4, <1>6 DEF Is
  <2>3. CallTurn(o, x, fin) = Fail(x) /\ CallTurn(o, y, fin) = Fail(y)
    BY <1>1, <2>1, <2>2, CallTurnIs
  <2>4. Twins(sr, Fail(x), sd, Fail(y))
    BY TwinsFail
  <2> QED
    BY <2>3, <2>4
<1>7. CASE ~(CallEnd(t) > 0)
  <2>1. ~(CallEnd(x.pending) > 0) /\ ~(CallEnd(y.pending) > 0)
    BY <1>2, <1>7 DEF Is
  <2>2. CASE fin
    <3>1. CallTurn(o, x, fin) = Fail(x) /\ CallTurn(o, y, fin) = Fail(y)
      BY <1>1, <2>1, <2>2, CallTurnIs
    <3>2. Twins(sr, Fail(x), sd, Fail(y))
      BY TwinsFail
    <3> QED
      BY <3>1, <3>2
  <2>3. CASE ~fin
    <3>1. CallTurn(o, x, fin) = x /\ CallTurn(o, y, fin) = y
      BY <1>1, <2>1, <2>3, CallTurnIs
    <3> QED
      BY <3>1
  <2> QED
    BY <2>2, <2>3
<1> QED
  BY <1>5, <1>6, <1>7

\* inside reasoning,
LEMMA TwinsReason ==
  ASSUME NEW sr, NEW x, NEW sd, NEW y, Twins(sr, x, sd, y), NEW fin \in BOOLEAN
  PROVE  Twins(sr, ThinkTurn(x, fin), sd, ThinkTurn(y, fin))
<1>1. x \in Parsers /\ y \in Parsers /\ x.pending = y.pending
  BY DEF Twins, Alike
<1>2. PICK t \in AnyText : Is(t, x.pending) /\ Is(t, y.pending)
  BY <1>1, PartsOf DEF Is
<1>3. PICK leave, n, keep :
        /\ Is(leave, Find(t, {ThinkEnd})) /\ Is(n, Find(t, {ThinkEnd}) + Len(ThinkEnd) - 1)
        /\ Is(keep, IF fin THEN Len(t) ELSE Len(t) - Held(t, {ThinkEnd}))
  BY DEF Is
<1>4. /\ leave > 0 => n \in 0..Len(t) /\ ThinkTurn(x, fin) = Thinks(EmitFirst(x, n), FALSE)
      /\ ~(leave > 0) => keep \in 0..Len(t) /\ ThinkTurn(x, fin) = EmitFirst(x, keep)
  <2>1. LET hit == Find(x.pending, {ThinkEnd})
            k   == hit + Len(ThinkEnd) - 1
            m   == IF fin THEN Len(x.pending) ELSE Len(x.pending) - Held(x.pending, {ThinkEnd})
        IN  /\ hit > 0 => k \in 0..Len(x.pending) /\ ThinkTurn(x, fin) = Thinks(EmitFirst(x, k), FALSE)
            /\ ~(hit > 0) => m \in 0..Len(x.pending) /\ ThinkTurn(x, fin) = EmitFirst(x, m)
    BY <1>1, ThinkTurnIs
  <2> QED
    BY <1>2, <1>3, <2>1 DEF Is
<1>5. /\ leave > 0 => ThinkTurn(y, fin) = Thinks(EmitFirst(y, n), FALSE)
      /\ ~(leave > 0) => ThinkTurn(y, fin) = EmitFirst(y, keep)
  <2>1. LET hit == Find(y.pending, {ThinkEnd})
            k   == hit + Len(ThinkEnd) - 1
            m   == IF fin THEN Len(y.pending) ELSE Len(y.pending) - Held(y.pending, {ThinkEnd})
        IN  /\ hit > 0 => k \in 0..Len(y.pending) /\ ThinkTurn(y, fin) = Thinks(EmitFirst(y, k), FALSE)
            /\ ~(hit > 0) => m \in 0..Len(y.pending) /\ ThinkTurn(y, fin) = EmitFirst(y, m)
    BY <1>1, ThinkTurnIs
  <2> QED
    BY <1>2, <1>3, <2>1 DEF Is
<1>6. PICK no \in BOOLEAN : no = FALSE
  OBVIOUS
<1>7. CASE leave > 0
  <2>1. n \in 0..Len(x.pending)
    BY <1>2, <1>4, <1>7 DEF Is
  <2>2. Twins(sr, EmitFirst(x, n), sd, EmitFirst(y, n))
    BY <2>1, TwinsEmit
  <2>3. Twins(sr, Thinks(EmitFirst(x, n), no), sd, Thinks(EmitFirst(y, n), no))
    BY <2>2, TwinsThink
  <2> QED
    BY <1>4, <1>5, <1>6, <1>7, <2>3
<1>8. CASE ~(leave > 0)
  <2>1. keep \in 0..Len(x.pending)
    BY <1>2, <1>4, <1>8 DEF Is
  <2>2. Twins(sr, EmitFirst(x, keep), sd, EmitFirst(y, keep))
    BY <2>1, TwinsEmit
  <2> QED
    BY <1>4, <1>5, <1>8, <2>2
<1> QED
  BY <1>7, <1>8

\* outside both,
LEMMA TwinsText ==
  ASSUME NEW sr, NEW x, NEW sd, NEW y, Twins(sr, x, sd, y)
  PROVE  Twins(sr, TextTurn(x, FALSE), sd, TextTurn(y, FALSE))
<1>1. x \in Parsers /\ y \in Parsers /\ x.pending = y.pending
  BY DEF Twins, Alike
<1>2. PICK t \in AnyText : Is(t, x.pending) /\ Is(t, y.pending)
  BY <1>1, PartsOf DEF Is
<1>3. PICK at \in Nat : Is(at, Find(t, Starts))
  BY StartsAre, TextCuts DEF Is
<1>4. PICK keep \in 0..Len(t) : Is(keep, Len(t) - Held(t, Starts))
  BY StartsAre, TextCuts DEF Is
<1>6. PICK no \in BOOLEAN, yes \in BOOLEAN : no = FALSE /\ yes = TRUE
  OBVIOUS
<1>7. CASE at > 0 /\ Stands(t, Open, at)
  <2>1. PICK n, k : Is(n, at - 1) /\ Is(k, at + Len(Open) - 1)
    BY DEF Is
  <2>2. n \in 0..Len(t) /\ k \in 0..Len(t) /\ TextTurn(x, no) = Enters(EmitFirst(x, n), Drop(t, k))
    BY <1>1, <1>2, <1>3, <1>7, <2>1, TextTurnEnters DEF Is
  <2>3. TextTurn(y, no) = Enters(EmitFirst(y, n), Drop(t, k))
    BY <1>1, <1>2, <1>3, <1>7, <2>1, TextTurnEnters DEF Is
  <2>4. n \in 0..Len(x.pending) /\ Drop(t, k) \in AnyText
    BY <1>2, <2>2, CutParts DEF Is
  <2>5. Twins(sr, EmitFirst(x, n), sd, EmitFirst(y, n))
    BY <2>4, TwinsEmit
  <2>6. Twins(sr, Enters(EmitFirst(x, n), Drop(t, k)), sd, Enters(EmitFirst(y, n), Drop(t, k)))
    BY <2>4, <2>5, TwinsEnter
  <2> QED
    BY <1>6, <2>2, <2>3, <2>6
<1>8. CASE at > 0 /\ ~Stands(t, Open, at)
  <2>1. PICK n : Is(n, at + Len(Think) - 1)
    BY DEF Is
  <2>2. n \in 0..Len(t) /\ TextTurn(x, no) = Thinks(EmitFirst(x, n), TRUE)
    BY <1>1, <1>2, <1>3, <1>8, <2>1, TextTurnThinks DEF Is
  <2>3. TextTurn(y, no) = Thinks(EmitFirst(y, n), TRUE)
    BY <1>1, <1>2, <1>3, <1>8, <2>1, TextTurnThinks DEF Is
  <2>4. n \in 0..Len(x.pending)
    BY <1>2, <2>2 DEF Is
  <2>5. Twins(sr, EmitFirst(x, n), sd, EmitFirst(y, n))
    BY <2>4, TwinsEmit
  <2>6. Twins(sr, Thinks(EmitFirst(x, n), yes), sd, Thinks(EmitFirst(y, n), yes))
    BY <2>5, TwinsThink
  <2> QED
    BY <1>6, <2>2, <2>3, <2>6
<1>9. CASE ~(at > 0)
  <2>1. TextTurn(x, FALSE) = EmitFirst(x, keep) /\ TextTurn(y, FALSE) = EmitFirst(y, keep)
    BY <1>1, <1>2, <1>3, <1>4, <1>9, TextTurnEmits
  <2>2. keep \in 0..Len(x.pending)
    BY <1>2 DEF Is
  <2>3. Twins(sr, EmitFirst(x, keep), sd, EmitFirst(y, keep))
    BY <2>2, TwinsEmit
  <2> QED
    BY <2>1, <2>3
<1> QED
  BY <1>7, <1>8, <1>9

\* A turn of both leaves them so; and so does the loop.
LEMMA TwinsTurn ==
  ASSUME NEW o, NEW sr, NEW x, NEW sd, NEW y, Twins(sr, x, sd, y)
  PROVE  Twins(sr, DrainTurn(o, x, FALSE), sd, DrainTurn(o, y, FALSE))
<1>0. PICK no \in BOOLEAN : no = FALSE
  OBVIOUS
<1>1. /\ x \in Parsers /\ y \in Parsers /\ x.thinking = y.thinking /\ x.inCall = y.inCall
      /\ x.failed = y.failed
      /\ x.failed \in BOOLEAN /\ x.inCall \in BOOLEAN /\ x.thinking \in BOOLEAN
  BY PartsOf DEF Twins, Alike
<1>2. CASE x.failed
  <2>1. DrainTurn(o, x, no) = x /\ DrainTurn(o, y, no) = y
    BY <1>1, <1>2, TurnIs
  <2> QED
    BY <1>0, <2>1
<1>3. CASE ~x.failed /\ x.inCall
  <2>1. DrainTurn(o, x, no) = CallTurn(o, x, no) /\ DrainTurn(o, y, no) = CallTurn(o, y, no)
    BY <1>1, <1>3, TurnIs
  <2>2. Twins(sr, CallTurn(o, x, no), sd, CallTurn(o, y, no))
    BY TwinsCall
  <2> QED
    BY <1>0, <2>1, <2>2
<1>4. CASE ~x.failed /\ ~x.inCall /\ x.thinking
  <2>1. DrainTurn(o, x, no) = ThinkTurn(x, no) /\ DrainTurn(o, y, no) = ThinkTurn(y, no)
    BY <1>1, <1>4, TurnIs
  <2>2. Twins(sr, ThinkTurn(x, no), sd, ThinkTurn(y, no))
    BY TwinsReason
  <2> QED
    BY <1>0, <2>1, <2>2
<1>5. CASE ~x.failed /\ ~x.inCall /\ ~x.thinking
  <2>1. DrainTurn(o, x, no) = TextTurn(x, no) /\ DrainTurn(o, y, no) = TextTurn(y, no)
    BY <1>1, <1>5, TurnIs
  <2>2. Twins(sr, TextTurn(x, FALSE), sd, TextTurn(y, FALSE))
    BY TwinsText
  <2> QED
    BY <1>0, <2>1, <2>2
<1> QED
  BY <1>1, <1>2, <1>3, <1>4, <1>5

\* and over the whole loop.
LEMMA TwinsDrain ==
  ASSUME NEW o, NEW sr, NEW x, NEW sd, NEW y, Twins(sr, x, sd, y)
  PROVE  Twins(sr, Drain(o, x, FALSE), sd, Drain(o, y, FALSE))
<1>0. PICK no \in BOOLEAN : no = FALSE
  OBVIOUS
<1>1. x \in Parsers /\ y \in Parsers /\ x.pending = y.pending
  BY DEF Twins, Alike
<1>22. PICK n \in Nat : \E a : /\ n = Len(x.pending) + 1 /\ Turns(a, n, o, x, no)
                               /\ Drain(o, x, no) = a[n]
  BY <1>1, DrainIs
<1>2. PICK a : /\ n = Len(x.pending) + 1 /\ Turns(a, n, o, x, no)
               /\ Drain(o, x, no) = a[n]
  BY <1>22
<1>23. PICK m \in Nat : \E b : /\ m = Len(y.pending) + 1 /\ Turns(b, m, o, y, no)
                               /\ Drain(o, y, no) = b[m]
  BY <1>1, DrainIs
<1>3. PICK b : /\ m = Len(y.pending) + 1 /\ Turns(b, m, o, y, no)
               /\ Drain(o, y, no) = b[m]
  BY <1>23
<1>4. n = m
  BY <1>1, <1>2, <1>3
<1> DEFINE T == {i \in Nat : i <= n => Twins(sr, a[i], sd, b[i])}
<1>5. 0 \in T
  BY <1>2, <1>3 DEF Turns
<1>6. ASSUME NEW i \in T PROVE i + 1 \in T
  <2>1. CASE i + 1 <= n
    <3>1. i + 1 \in 1..n /\ i <= n /\ (i + 1) - 1 = i
      BY <2>1
    <3>2. Twins(sr, a[i], sd, b[i])
      BY <3>1
    <3>3. Twins(sr, DrainTurn(o, a[i], FALSE), sd, DrainTurn(o, b[i], FALSE))
      BY <3>2, TwinsTurn
    <3>4. a[i + 1] = DrainTurn(o, a[(i + 1) - 1], no) /\ b[i + 1] = DrainTurn(o, b[(i + 1) - 1], no)
      BY <1>2, <1>3, <1>4, <3>1 DEF Turns
    <3>5. Twins(sr, a[i + 1], sd, b[i + 1])
      BY <1>0, <3>1, <3>3, <3>4
    <3> QED
      BY <3>5
  <2>2. CASE ~(i + 1 <= n)
    BY <2>2
  <2> QED
    BY <2>1, <2>2
<1>7. T = Nat
  <2>1. T \in SUBSET Nat
    OBVIOUS
  <2> HIDE DEF T
  <2> QED
    BY <1>5, <1>6, <2>1, Induction
<1>8. Twins(sr, a[n], sd, b[n])
  BY <1>7
<1> QED
  BY <1>0, <1>2, <1>3, <1>4, <1>8

----------------------------------------------------------------------------
\* All the text at once.

\* What the parser of a new answer makes of the text v, and where the splitter
\* then stands.
Read(o, v) == ParserPush(o, NewParser(o), v)
ReadStage(o, v) == Route(NewStage(o), Read(o, v).events)

\* Text read with tools goes through the loop.
LEMMA PushIsDone ==
  ASSUME NEW o, o.tools, NEW p \in Parsers, NEW x \in AnyText
  PROVE  ParserPush(o, p, x) = Done(o, Quiet(p), x)
<1>1. PICK t \in AnyText : Is(t, p.pending \o x)
  BY PartsOf, JoinTexts DEF Is
<1>2. PICK e \in Seq(Events) : e = <<>>
  <2>1. <<>> \in Seq(Events)
    BY EmptySeq
  <2> QED
    BY <2>1
<1>3. PICK q \in Parsers :
        /\ Is(q, Reading(p, t, e)) /\ q.pending = t /\ q.events = e /\ q.thinking = p.thinking
        /\ q.inCall = p.inCall /\ q.calls = p.calls /\ q.failed = p.failed
  BY ReadingIs DEF Is
<1>4. PICK s \in Parsers :
        /\ Is(s, Quiet(p)) /\ s.pending = p.pending /\ s.events = <<>> /\ s.thinking = p.thinking
        /\ s.inCall = p.inCall /\ s.calls = p.calls /\ s.failed = p.failed
  BY QuietIs DEF Is
<1>5. PICK y \in Parsers :
        /\ Is(y, More(s, x)) /\ y.pending = s.pending \o x /\ y.events = s.events
        /\ y.thinking = s.thinking
        /\ y.inCall = s.inCall /\ y.calls = s.calls /\ y.failed = s.failed
  BY MoreIs DEF Is
<1>6. q = y
  <2>1. q.pending = y.pending
    BY <1>1, <1>3, <1>4, <1>5 DEF Is
  <2>2. q.events = y.events /\ q.thinking = y.thinking /\ q.inCall = y.inCall
        /\ q.calls = y.calls /\ q.failed = y.failed
    BY <1>2, <1>3, <1>4, <1>5
  <2> QED
    BY <2>1, <2>2, SameParser
<1>7. ParserPush(o, p, x) = Drain(o, Reading(p, p.pending \o x, <<>>), FALSE)
  BY DEF ParserPush, Reading
<1> QED
  BY <1>1, <1>2, <1>3, <1>4, <1>5, <1>6, <1>7 DEF Done, Is

\* Text behind text.
LEMMA MoreTwice ==
  ASSUME NEW p \in Parsers, NEW v \in AnyText, NEW b \in AnyText, NEW u \in AnyText,
         Is(u, v \o b)
  PROVE  More(More(p, v), b) = More(p, u)
<1>1. PICK x \in Parsers :
        /\ Is(x, More(p, v)) /\ x.pending = p.pending \o v /\ x.events = p.events
        /\ x.thinking = p.thinking
        /\ x.inCall = p.inCall /\ x.calls = p.calls /\ x.failed = p.failed
  BY MoreIs DEF Is
<1>2. PICK y \in Parsers :
        /\ Is(y, More(x, b)) /\ y.pending = x.pending \o b /\ y.events = x.events
        /\ y.thinking = x.thinking
        /\ y.inCall = x.inCall /\ y.calls = x.calls /\ y.failed = x.failed
  BY MoreIs DEF Is
<1>3. PICK z \in Parsers :
        /\ Is(z, More(p, u)) /\ z.pending = p.pending \o u /\ z.events = p.events
        /\ z.thinking = p.thinking
        /\ z.inCall = p.inCall /\ z.calls = p.calls /\ z.failed = p.failed
  BY MoreIs DEF Is
<1>4. y = z
  <2>1. (p.pending \o v) \o b = p.pending \o (v \o b)
    <3>1. PICK t \in AnyText : Is(t, p.pending)
      BY PartsOf DEF Is
    <3>2. (t \o v) \o b = t \o (v \o b)
      BY JoinInAnyOrder
    <3> QED
      BY <3>1, <3>2 DEF Is
  <2>2. y.pending = z.pending
    BY <1>1, <1>2, <1>3, <2>1 DEF Is
  <2>3. y.events = z.events /\ y.thinking = z.thinking /\ y.inCall = z.inCall
        /\ y.calls = z.calls /\ y.failed = z.failed
    BY <1>1, <1>2, <1>3
  <2> QED
    BY <2>2, <2>3, SameParser
<1> QED
  BY <1>1, <1>2, <1>3, <1>4 DEF Is

\* Reading goes on from what the text before left.
Goes(o, v, u, r, q) ==
  /\ r.failed => Read(o, u).failed
  /\ ~r.failed =>
       /\ q \in Parsers /\ Read(o, u) \in Parsers
       /\ q.failed = Read(o, u).failed
       /\ Quiet(q) = Quiet(Read(o, u))
       /\ ~q.failed => Route(ReadStage(o, v), q.events) = ReadStage(o, u)

\* With tools, text read in two pieces is read as one.
LEMMA ReadWithTools ==
  ASSUME NEW o \in Options, o.tools, NEW v \in AnyText, NEW b \in AnyText, NEW u \in AnyText,
         Is(u, v \o b)
  PROVE  /\ Read(o, v) \in Parsers
         /\ Goes(o, v, u, Read(o, v), ParserPush(o, Quiet(Read(o, v)), b))
<1>0. PICK no \in BOOLEAN : no = FALSE
  OBVIOUS
<1>1. PICK p \in Parsers : Is(p, NewParser(o)) /\ p.events = <<>> /\ Quiet(p) = p
  BY NewParserIs, GivingIs DEF Is
<1>2. PICK x \in Parsers : Is(x, More(p, v))
  BY MoreIs DEF Is
<1>3. PICK r \in Parsers : Is(r, Drain(o, x, no)) /\ Is(r, Read(o, v)) /\ r.failed \in BOOLEAN
  <2>1. Read(o, v) = Drain(o, x, no)
    BY <1>0, <1>1, <1>2, PushIsDone, ZenonT(30) DEF Read, Done, Is
  <2>2. Drain(o, x, no) \in Parsers
    BY DrainRests
  <2> QED
    BY <2>1, <2>2, PartsOf DEF Is
<1>4. PICK w \in Parsers : Is(w, Read(o, u)) /\ Is(w, Done(o, x, b))
  <2>1. Read(o, u) = Done(o, p, u)
    BY <1>1, PushIsDone DEF Read, Is
  <2>2. More(More(p, v), b) = More(p, u)
    BY MoreTwice
  <2>3. PICK y \in Parsers : Is(y, More(x, b))
    BY MoreIs DEF Is
  <2>4. Drain(o, y, no) \in Parsers
    BY DrainRests
  <2> QED
    BY <1>0, <1>2, <2>1, <2>2, <2>3, <2>4 DEF Done, Is
<1>5. /\ r.failed => w.failed
      /\ ~r.failed => Done(o, r, b) = w
  <2>1. LET d == Drain(o, x, FALSE)
        IN  /\ d.failed => Done(o, x, b).failed
            /\ ~d.failed => Done(o, d, b) = Done(o, x, b)
    BY DrainMore
  <2>2. r = Drain(o, x, FALSE)
    BY <1>0, <1>3 DEF Is
  <2> QED
    BY <1>4, <2>1, <2>2 DEF Is
<1>6. PICK s \in Parsers :
        /\ Is(s, Quiet(r)) /\ s.pending = r.pending /\ s.events = <<>> /\ s.thinking = r.thinking
        /\ s.inCall = r.inCall /\ s.calls = r.calls /\ s.failed = r.failed /\ Quiet(s) = s
  BY QuietIs, GivingIs DEF Is
<1>7. PICK q \in Parsers : Is(q, ParserPush(o, s, b)) /\ Is(q, Done(o, s, b))
  <2>1. ParserPush(o, s, b) = Done(o, s, b)
    BY <1>6, PushIsDone
  <2>2. PICK y \in Parsers : Is(y, More(s, b))
    BY MoreIs DEF Is
  <2>3. Drain(o, y, no) \in Parsers
    BY DrainRests
  <2> QED
    BY <1>0, <2>1, <2>2, <2>3 DEF Done, Is
<1>8. ASSUME ~r.failed
      PROVE  /\ q.failed = w.failed /\ Quiet(q) = Quiet(w)
             /\ ~q.failed => Route(ReadStage(o, v), q.events) = Route(NewStage(o), w.events)
  <2>1. Ready(NewStage(o)) /\ Ready(ReadStage(o, v)) /\ ReadStage(o, v) = Route(NewStage(o), r.events)
    <3>1. Ready(NewStage(o))
      BY NewStageReady
    <3>2. ReadStage(o, v) = Route(NewStage(o), r.events)
      BY <1>3 DEF ReadStage, Is
    <3>3. r.events \in Seq(Events)
      BY PartsOf
    <3> QED
      BY <3>1, <3>2, <3>3, RouteReady
  <2>2. Route(ReadStage(o, v), <<>>) = ReadStage(o, v)
    BY <2>1, RouteNothing
  <2>3. PICK y \in Parsers :
        /\ Is(y, More(r, b)) /\ y.pending = r.pending \o b /\ y.events = r.events
        /\ y.thinking = r.thinking
        /\ y.inCall = r.inCall /\ y.calls = r.calls /\ y.failed = r.failed
    BY MoreIs DEF Is
  <2>4. PICK z \in Parsers :
        /\ Is(z, More(s, b)) /\ z.pending = s.pending \o b /\ z.events = s.events
        /\ z.thinking = s.thinking
        /\ z.inCall = s.inCall /\ z.calls = s.calls /\ z.failed = s.failed
    BY MoreIs DEF Is
  <2>5. Twins(NewStage(o), y, ReadStage(o, v), z)
    BY <1>6, <2>1, <2>2, <2>3, <2>4 DEF Twins, Alike
  <2>6. Twins(NewStage(o), Drain(o, y, FALSE), ReadStage(o, v), Drain(o, z, FALSE))
    BY <2>5, TwinsDrain
  <2>7. Drain(o, y, FALSE) = w /\ Drain(o, z, FALSE) = q
    BY <1>5, <1>7, <1>8, <2>3, <2>4 DEF Done, Is
  <2>8. Twins(NewStage(o), w, ReadStage(o, v), q)
    BY <2>6, <2>7
  <2>9. q.failed = w.failed /\ (~q.failed => Route(ReadStage(o, v), q.events) = Route(NewStage(o), w.events))
    BY <2>8 DEF Twins, Alike
  <2>10. Quiet(q) = Quiet(w)
    <3>1. PICK i \in Parsers :
            /\ Is(i, Quiet(q)) /\ i.pending = q.pending /\ i.events = <<>>
            /\ i.thinking = q.thinking
            /\ i.inCall = q.inCall /\ i.calls = q.calls /\ i.failed = q.failed
      BY QuietIs DEF Is
    <3>2. PICK j \in Parsers :
            /\ Is(j, Quiet(w)) /\ j.pending = w.pending /\ j.events = <<>>
            /\ j.thinking = w.thinking
            /\ j.inCall = w.inCall /\ j.calls = w.calls /\ j.failed = w.failed
      BY QuietIs DEF Is
    <3>3. /\ i.pending = j.pending /\ i.events = j.events /\ i.thinking = j.thinking
          /\ i.inCall = j.inCall /\ i.calls = j.calls /\ i.failed = j.failed
      BY <2>8, <3>1, <3>2 DEF Twins, Alike
    <3>4. i = j
      BY <3>3, SameParser
    <3> QED
      BY <3>1, <3>2, <3>4 DEF Is
  <2> QED
    BY <2>9, <2>10
<1>9. Route(NewStage(o), w.events) = ReadStage(o, u)
  BY <1>4 DEF ReadStage, Is
<1>10. Goes(o, v, u, r, q)
  BY <1>4, <1>5, <1>8, <1>9 DEF Goes, Is
<1> QED
  BY <1>3, <1>6, <1>7, <1>10 DEF Is

\* Without tools the parser lets the text through.
LEMMA PlainRead ==
  ASSUME NEW o \in Options, ~o.tools, NEW x \in AnyText
  PROVE  /\ Read(o, x) \in Parsers /\ Read(o, x).failed = FALSE
         /\ Quiet(Read(o, x)) = NewParser(o)
         /\ ReadStage(o, x) = SplitText(NewStage(o), x)
<1>1. PICK p \in Parsers : Is(p, NewParser(o)) /\ p.events = <<>> /\ p.failed = FALSE
  BY NewParserIs DEF Is
<1>2. TextEvent(x) \in Events
  BY TextEventIs
<1>3. PICK e \in Seq(Events) : Is(e, <<TextEvent(x)>>)
  <2>1. <<TextEvent(x)>> \in Seq(Events)
    BY <1>2
  <2> QED
    BY <2>1 DEF Is
<1>4. Read(o, x) = Giving(p, e)
  BY <1>1, <1>3 DEF Read, ParserPush, Giving, Is
<1>5. Giving(p, e) \in Parsers
  BY DEF Giving, Parsers
<1>6. Giving(p, e).events = e /\ Quiet(Giving(p, e)) = p /\ Giving(p, e).failed = FALSE
  BY <1>1, GivingIs
<1>7. Route(NewStage(o), <<TextEvent(x)>>) = SplitText(NewStage(o), x)
  BY NewStageReady, RouteText
<1> QED
  BY <1>1, <1>3, <1>4, <1>5, <1>6, <1>7 DEF ReadStage, Is

\* Without tools too.
LEMMA ReadWithout ==
  ASSUME NEW o \in Options, ~o.tools, NEW v \in AnyText, NEW b \in AnyText, NEW u \in AnyText,
         Is(u, v \o b)
  PROVE  Goes(o, v, u, Read(o, v), ParserPush(o, Quiet(Read(o, v)), b))
<1>1. Quiet(Read(o, v)) = NewParser(o) /\ Read(o, v).failed = FALSE
  BY PlainRead
<1>2. ParserPush(o, Quiet(Read(o, v)), b) = Read(o, b)
  BY <1>1 DEF Read
<1>3. /\ Read(o, b) \in Parsers /\ Read(o, b).failed = FALSE /\ Quiet(Read(o, b)) = NewParser(o)
  BY PlainRead
<1>4. /\ Read(o, u) \in Parsers /\ Read(o, u).failed = FALSE /\ Quiet(Read(o, u)) = NewParser(o)
  BY PlainRead
<1>5. Route(ReadStage(o, v), Read(o, b).events) = ReadStage(o, u)
  <2>1. Read(o, b).events = <<TextEvent(b)>>
    BY NewParserIs, GivingIs DEF Read, ParserPush, Giving
  <2>2. ReadStage(o, v) = SplitText(NewStage(o), v) /\ ReadStage(o, u) = SplitText(NewStage(o), u)
    BY PlainRead
  <2>3. Ready(NewStage(o)) /\ Ready(SplitText(NewStage(o), v))
    BY NewStageReady, SplitReady
  <2>4. Route(SplitText(NewStage(o), v), <<TextEvent(b)>>) = SplitText(SplitText(NewStage(o), v), b)
    BY <2>3, RouteText
  <2>5. SplitText(SplitText(NewStage(o), v), b) = SplitText(NewStage(o), v \o b)
    BY <2>3, SplitTwice
  <2> QED
    BY <2>1, <2>2, <2>4, <2>5 DEF Is
<1> QED
  BY <1>1, <1>2, <1>3, <1>4, <1>5 DEF Goes

\* With and without.
LEMMA ReadMore ==
  ASSUME NEW o \in Options, NEW v \in AnyText, NEW b \in AnyText, NEW u \in AnyText,
         Is(u, v \o b)
  PROVE  /\ Goes(o, v, u, Read(o, v), ParserPush(o, Quiet(Read(o, v)), b))
         /\ Read(o, v) \in Parsers /\ Ready(ReadStage(o, v))
<1>1. Goes(o, v, u, Read(o, v), ParserPush(o, Quiet(Read(o, v)), b)) /\ Read(o, v) \in Parsers
  BY PlainRead, ReadWithTools, ReadWithout, StopsOf
<1>2. Ready(ReadStage(o, v))
  <2>1. Read(o, v).events \in Seq(Events)
    BY <1>1, PartsOf
  <2> QED
    BY <2>1, NewStageReady, RouteReady DEF ReadStage
<1> QED
  BY <1>1, <1>2

\* The splitter is ready for more.
LEMMA ReadIsReady ==
  ASSUME NEW o \in Options, NEW v \in AnyText
  PROVE  Ready(ReadStage(o, v))
<1>1. PICK b \in AnyText : b = <<>>
  BY JoinNothing
<1>2. PICK u \in AnyText : Is(u, v \o b)
  BY JoinTexts DEF Is
<1> QED
  BY <1>2, ReadMore

\* A new answer has read nothing.
LEMMA ReadNothing ==
  ASSUME NEW o \in Options
  PROVE  /\ Read(o, <<>>).failed = FALSE /\ Quiet(Read(o, <<>>)) = NewParser(o)
         /\ ReadStage(o, <<>>) = NewStage(o)
<1>0. PICK no \in BOOLEAN : no = FALSE
  OBVIOUS
<1>1. PICK p \in Parsers :
        /\ Is(p, NewParser(o)) /\ p.events = <<>> /\ p.failed = FALSE /\ p.pending = <<>>
        /\ p.inCall = FALSE /\ p.thinking \in BOOLEAN /\ Quiet(p) = p
  BY NewParserIs, GivingIs, PartsOf DEF Is
<1>2. PICK z \in AnyText : z = <<>>
  BY JoinNothing
<1>3. CASE ~o.tools
  <2>1. SplitText(NewStage(o), <<>>) = NewStage(o)
    BY NewStageReady, SplitNothing
  <2>2. /\ Read(o, z).failed = FALSE /\ Quiet(Read(o, z)) = NewParser(o)
        /\ ReadStage(o, z) = SplitText(NewStage(o), z)
    BY <1>3, PlainRead
  <2> QED
    BY <1>2, <2>1, <2>2
<1>4. CASE o.tools
  <2>1. More(p, z) = p
    <3>1. PICK y \in Parsers :
        /\ Is(y, More(p, z)) /\ y.pending = p.pending \o z /\ y.events = p.events
        /\ y.thinking = p.thinking
        /\ y.inCall = p.inCall /\ y.calls = p.calls /\ y.failed = p.failed
      BY MoreIs DEF Is
    <3>2. p.pending \o z = p.pending
      BY <1>2, PartsOf, JoinNothing
    <3>3. y = p
      BY <3>1, <3>2, SameParser
    <3> QED
      BY <3>1, <3>3 DEF Is
  <2>2. Rests(o, p, no)
    <3>1. Find(z, {ThinkEnd}) = 0 /\ Held(z, {ThinkEnd}) = 0 /\ Len(z) = 0
      <4>1. Len(z) = 0
        BY <1>2
      <4>2. /\ Find(z, {ThinkEnd}) \in 0..Len(z) /\ Held(z, {ThinkEnd}) \in 0..Len(z)
        BY MarkersAre, TextCuts
      <4> QED
        BY <4>1, <4>2
    <3>2. Is(0, Find(z, Starts)) /\ Is(0, Len(z) - Held(z, Starts)) /\ Is(z, p.pending)
      <4>2. /\ Find(z, Starts) \in 0..Len(z) /\ Held(z, Starts) \in 0..Len(z)
        BY StartsAre, TextCuts
      <4> QED
        BY <1>1, <1>2, <3>1, <4>2 DEF Is
    <3>3. EmitFirst(p, 0) = p
      BY EmitNone
    <3>4. CASE p.thinking
      <4>1. DrainTurn(o, p, no) = ThinkTurn(p, no)
        BY <1>1, <3>4, TurnIs
      <4>2. ~(Find(p.pending, {ThinkEnd}) > 0)
        BY <1>1, <1>2, <3>1
      <4>3. ThinkTurn(p, no) = EmitFirst(p, IF no THEN Len(p.pending) ELSE Len(p.pending) - Held(p.pending, {ThinkEnd}))
        BY <4>2, ThinkTurnIs
      <4> QED
        BY <1>0, <1>1, <1>2, <3>1, <3>3, <4>1, <4>3 DEF Rests
    <3>5. CASE ~p.thinking
      <4>1. DrainTurn(o, p, no) = TextTurn(p, no)
        BY <1>1, <3>5, TurnIs
      <4>2. PICK n \in 0..Len(z), at \in Nat : n = 0 /\ at = 0
        BY <3>1
      <4>3. /\ Is(at, Find(z, Starts)) /\ ~(at > 0)
            /\ Is(n, Len(z) - Held(z, Starts)) /\ Is(z, p.pending)
        BY <3>2, <4>2 DEF Is
      <4>4. TextTurn(p, FALSE) = EmitFirst(p, n)
        BY <4>3, TextTurnEmits
      <4> QED
        BY <1>0, <3>3, <4>1, <4>2, <4>4 DEF Rests
    <3> QED
      BY <1>1, <3>4, <3>5
  <2>3. Drain(o, p, no) = p
    BY <2>2, RestDrains
  <2>4. ParserPush(o, p, z) = Done(o, p, z)
    BY <1>1, <1>4, PushIsDone
  <2>5. Read(o, <<>>) = p
    BY <1>0, <1>1, <1>2, <2>1, <2>3, <2>4 DEF Read, Done, Is
  <2>6. Route(NewStage(o), <<>>) = NewStage(o)
    BY NewStageReady, RouteNothing
  <2> QED
    BY <1>1, <2>5, <2>6 DEF ReadStage, Is
<1> QED
  BY <1>3, <1>4

\* A parser that failed stays so.
LEMMA FailedPush ==
  ASSUME NEW o \in Options, NEW p \in Parsers, p.failed, NEW x \in AnyText
  PROVE  Quiet(ParserPush(o, p, x)).failed
<1>0. PICK no \in BOOLEAN : no = FALSE
  OBVIOUS
<1>1. CASE o.tools
  <2>1. PICK s \in Parsers : Is(s, Quiet(p)) /\ s.failed
    BY QuietIs DEF Is
  <2>2. PICK y \in Parsers : Is(y, More(s, x)) /\ y.failed
    BY <2>1, MoreIs DEF Is
  <2>3. Drain(o, y, no) = y
    BY <2>2, FailedRests
  <2>4. ParserPush(o, p, x) = y
    BY <1>0, <1>1, <2>1, <2>2, <2>3, PushIsDone DEF Done, Is
  <2> QED
    BY <2>2, <2>4, QuietIs
<1>2. CASE ~o.tools
  <2>1. ParserPush(o, p, x) = Giving(p, <<TextEvent(x)>>)
    BY <1>2 DEF ParserPush, Giving
  <2>2. Quiet(Giving(p, <<TextEvent(x)>>)) = Quiet(p) /\ Quiet(p).failed = p.failed
    BY GivingIs
  <2> QED
    BY <2>1, <2>2
<1> QED
  BY <1>1, <1>2

----------------------------------------------------------------------------
\* The state is what all the text at once would have made it.

\* The parts of the state, once the text v was let through; what the end of the
\* answer makes of the parser; and the reply it leaves.
ReadsAs(o, v, p, sp, r) ==
  /\ ~Read(o, v).failed
  /\ p = Quiet(Read(o, v))
  /\ Stage(sp, r) = ReadStage(o, v)

ReadEnd(o, v) == ParserFinish(o, Quiet(Read(o, v)))

Answer(o, v) ==
  LET to == Route(ReadStage(o, v), ReadEnd(o, v).events)
  IN  SplitFlush([splitter |-> to.splitter, reply |-> to.reply]).reply

Answered(o, v) == ~Read(o, v).failed /\ ~Quiet(ReadEnd(o, v)).failed

\* More text.
LEMMA PushReads ==
  ASSUME NEW o \in Options, NEW s, NEW v, NEW rd, NEW x \in AnyText,
         StopHolds(o, s, v, rd), ~s.stopped, NEW p, NEW sp, NEW r, ReadsAs(o, v, p, sp, r)
  PROVE  LET st == DoPush(o, Whole(s, p, sp, r, v), x)
         IN  /\ st = Whole(st.stop, st.parser, st.splitter, st.reply, st.visible)
             /\ StopHolds(o, st.stop, st.visible, rd \o x)
             /\ st.parser \in Parsers
             /\ st.parser.failed <=> Read(o, st.visible).failed
             /\ ~st.parser.failed =>
                  ReadsAs(o, st.visible, st.parser, st.splitter, st.reply)
             /\ \E b \in AnyText : st.visible = v \o b
<1> DEFINE f == StopPush(s, x)
           q == ParserPush(o, p, f.out)
           sr == Sorted(sp, r, q)
           qq == Quiet(q)
           fs == f.stop
           a == sr.splitter
           c == sr.reply
           st == DoPush(o, Whole(s, p, sp, r, v), x)
<1>1. f.out \in AnyText /\ StopHolds(o, fs, v \o f.out, rd \o x) /\ v \in AnyText
  <2>1. o.stops \in AnyMarkers
    BY StopsOf
  <2>2. f.out \in AnyText /\ StopHolds(o, f.stop, v \o f.out, rd \o x)
    BY <2>1, StopPushKeeps
  <2> QED
    BY <2>2 DEF StopHolds
<1>2. PICK b \in AnyText : Is(b, f.out)
  BY <1>1 DEF Is
<1>3. PICK w \in AnyText : Is(w, v \o b)
  BY <1>1, JoinTexts DEF Is
<1>4. st = Whole(fs, qq, a, c, w)
  BY <1>2, <1>3, PushIs DEF Is
<1> HIDE DEF f, fs
<1>5. Goes(o, v, w, Read(o, v), q)
  <2>1. Goes(o, v, w, Read(o, v), ParserPush(o, Quiet(Read(o, v)), b))
    BY <1>1, <1>3, ReadMore
  <2> QED
    BY <1>2, <2>1 DEF ReadsAs, Is
<1>6. q \in Parsers /\ q.failed = Read(o, w).failed /\ qq = Quiet(Read(o, w))
      /\ (~q.failed => Route(ReadStage(o, v), q.events) = ReadStage(o, w))
  BY <1>5 DEF Goes, ReadsAs
<1>7. qq \in Parsers /\ qq.failed = q.failed
  BY <1>6, QuietIs
<1>8. sr = Route(ReadStage(o, v), q.events)
  BY DEF Sorted, Stage, ReadsAs
<1> HIDE DEF q, sr, qq
<1>9. ~qq.failed => Stage(a, c) = ReadStage(o, w)
  <2>1. Ready(ReadStage(o, w))
    BY ReadIsReady
  <2> QED
    BY <1>6, <1>7, <1>8, <2>1, StageParts
<1> HIDE DEF a, c, st
<1>10. ~qq.failed => ReadsAs(o, w, qq, a, c)
  BY <1>6, <1>7, <1>9 DEF ReadsAs
<1>11. StopHolds(o, fs, w, rd \o x)
  BY <1>1, <1>2, <1>3 DEF Is
<1>12. st.stop = fs /\ st.parser = qq /\ st.splitter = a /\ st.reply = c /\ st.visible = w
  BY <1>4, PartsAre
<1>13. \E e \in AnyText : w = v \o e
  BY <1>3 DEF Is
<1>14. /\ st = Whole(st.stop, st.parser, st.splitter, st.reply, st.visible)
       /\ StopHolds(o, st.stop, st.visible, rd \o x)
       /\ st.parser \in Parsers
       /\ st.parser.failed <=> Read(o, st.visible).failed
       /\ ~st.parser.failed => ReadsAs(o, st.visible, st.parser, st.splitter, st.reply)
       /\ \E e \in AnyText : st.visible = v \o e
  BY <1>4, <1>6, <1>7, <1>10, <1>11, <1>12, <1>13
<1> QED
  BY <1>14 DEF st

\* The end of the answer.
LEMMA FinishReads ==
  ASSUME NEW o \in Options, NEW s, s.pending \in AnyText, NEW v \in AnyText,
         NEW p, NEW sp, NEW r, ReadsAs(o, v, p, sp, r)
  PROVE  LET st == DoFinish(o, Whole(s, p, sp, r, v))
         IN  /\ st.visible = v \o s.pending
             /\ st.parser.failed <=> ~Answered(o, st.visible)
             /\ ~st.parser.failed => st.reply = Answer(o, st.visible)
<1> DEFINE q  == ParserPush(o, p, s.pending)
           q1 == Quiet(q)
           sr == Sorted(sp, r, q)
           q2 == ParserFinish(o, q1)
           q3 == Quiet(q2)
           to == Sorted(sr.splitter, sr.reply, q2)
           fl == SplitFlush([splitter |-> to.splitter, reply |-> to.reply])
           e  == Emptied(s)
           w  == v \o s.pending
           a == fl.splitter
           c == fl.reply
           a1 == sr.splitter
           c1 == sr.reply
           a2 == to.splitter
           c2 == to.reply
           st == DoFinish(o, Whole(s, p, sp, r, v))
<1>1. st = IF p.failed THEN Whole(s, p, sp, r, v)
           ELSE IF q1.failed THEN Whole(e, q1, a1, c1, w)
           ELSE IF q3.failed THEN Whole(e, q3, a2, c2, w)
           ELSE Whole(e, q3, a, c, w)
  BY FinishIs
<1>2. PICK b \in AnyText, u \in AnyText : Is(b, s.pending) /\ Is(u, v \o b) /\ Is(u, w)
  <2>1. PICK b \in AnyText : Is(b, s.pending)
    BY DEF Is
  <2>2. PICK u \in AnyText : Is(u, v \o b)
    BY JoinTexts DEF Is
  <2> QED
    BY <2>1, <2>2 DEF Is
<1>3. Goes(o, v, u, Read(o, v), q)
  <2>1. Goes(o, v, u, Read(o, v), ParserPush(o, Quiet(Read(o, v)), b))
    BY <1>2, ReadMore
  <2> QED
    BY <1>2, <2>1 DEF ReadsAs, Is
<1>14. ~p.failed
  <2>1. Read(o, v) \in Parsers
    BY <1>2, ReadMore
  <2> QED
    BY <2>1, QuietIs DEF ReadsAs
<1>4. q \in Parsers /\ q.failed = Read(o, u).failed /\ q1 = Quiet(Read(o, u))
      /\ (~q.failed => Route(ReadStage(o, v), q.events) = ReadStage(o, u))
  BY <1>3 DEF Goes, ReadsAs
<1>5. q1 \in Parsers /\ q1.failed = q.failed
  BY <1>4, QuietIs
<1>6. sr = Route(ReadStage(o, v), q.events)
  BY DEF Sorted, Stage, ReadsAs
<1>7. q2 = ReadEnd(o, u)
  <2> HIDE DEF q1
  <2> QED
    BY <1>4 DEF ReadEnd
<1> HIDE DEF q, sr, q1, q2
<1>8. ~q1.failed => to = Route(ReadStage(o, u), ReadEnd(o, u).events)
  <2>1. Ready(ReadStage(o, u))
    BY ReadIsReady
  <2>2. ~q1.failed => Stage(sr.splitter, sr.reply) = ReadStage(o, u)
    BY <1>4, <1>5, <1>6, <2>1, StageParts
  <2> QED
    BY <1>7, <2>2 DEF Sorted, Stage
<1> HIDE DEF to
<1>9. ~q1.failed => c = Answer(o, u)
  BY <1>8 DEF Answer
<1>10. q3 = Quiet(ReadEnd(o, u))
  BY <1>7
<1> HIDE DEF fl, e, w, a, c, a1, c1, a2, c2, q3, st
<1>11. w = u
  BY <1>2 DEF Is
<1>12. CASE q1.failed
  <2>1. st = Whole(e, q1, a1, c1, w)
    BY <1>1, <1>12, <1>14
  <2>2. st.parser = q1 /\ st.visible = w
    BY <2>1, PartsAre
  <2>3. ~Answered(o, w)
    BY <1>4, <1>5, <1>11, <1>12 DEF Answered
  <2> QED
    BY <1>12, <2>2, <2>3 DEF st, w
<1>13. CASE ~q1.failed
  <2>1. q3.failed <=> ~Answered(o, w)
    BY <1>4, <1>5, <1>10, <1>11, <1>13 DEF Answered
  <2>2. CASE q3.failed
    <3>1. st = Whole(e, q3, a2, c2, w)
      BY <1>1, <1>13, <1>14, <2>2
    <3>2. st.parser = q3 /\ st.visible = w
      BY <3>1, PartsAre
    <3> QED
      BY <2>1, <2>2, <3>2 DEF st, w
  <2>3. CASE ~q3.failed
    <3>1. st = Whole(e, q3, a, c, w)
      BY <1>1, <1>13, <1>14, <2>3
    <3>2. st.parser = q3 /\ st.visible = w /\ st.reply = c
      BY <3>1, PartsAre
    <3>3. st.reply = Answer(o, w)
      BY <1>9, <1>11, <1>13, <3>2
    <3> QED
      BY <2>1, <2>3, <3>2, <3>3 DEF st, w
  <2> QED
    BY <2>2, <2>3
<1> QED
  BY <1>12, <1>13

\* The inductive invariant behind ChunkingIrrelevant.
ReadInv ==
  /\ status = "open" => ReadsAs(options, visible, parser, splitter, reply)
  /\ status = "finished" => Answered(options, visible) /\ reply = Answer(options, visible)
                            /\ parser.failed = FALSE

\* A new answer has read no text.
LEMMA ReadInvInit == OutputInit => ReadInv
<1> SUFFICES ASSUME OutputInit PROVE ReadInv
  OBVIOUS
<1>1. options \in Options /\ status = "open" /\ visible = <<>> /\ parser = NewParser(options)
      /\ splitter = NewSplitter(options) /\ reply = NewReply
  BY DEF OutputInit
<1>2. Stage(splitter, reply) = NewStage(options)
  BY <1>1, NewStageReady
<1>3. ReadsAs(options, visible, parser, splitter, reply)
  BY <1>1, <1>2, ReadNothing DEF ReadsAs
<1> QED
  BY <1>1, <1>3 DEF ReadInv

\* The state is its parts.
LEMMA StateIs == State = Whole(stop, parser, splitter, reply, visible)
  BY DEF State, Whole

\* A chunk keeps the state what all the text at once would have made it.
LEMMA ReadInvPush ==
  ASSUME StopInv, ReadInv, NEW chunk \in Chunks(options), Push(chunk)
  PROVE  ReadInv'
<1>1. options \in Options /\ chunk \in AnyText /\ options' = options
  BY StopsOf DEF StopInv, Push
<1>2. StopHolds(options, stop, visible, raw) /\ ~stop.stopped /\ status = "open"
  BY DEF StopInv, Push
<1>3. ReadsAs(options, visible, parser, splitter, reply)
  BY <1>2 DEF ReadInv
<1> DEFINE st == DoPush(options, State, chunk)
<1>4. /\ st.parser \in Parsers
      /\ ~st.parser.failed => ReadsAs(options, st.visible, st.parser, st.splitter, st.reply)
  <2> DEFINE su == DoPush(options, Whole(stop, parser, splitter, reply, visible), chunk)
  <2>1. /\ su.parser \in Parsers
        /\ ~su.parser.failed => ReadsAs(options, su.visible, su.parser, su.splitter, su.reply)
    BY <1>1, <1>2, <1>3, PushReads
  <2>2. st = su
    BY StateIs
  <2> QED
    BY <2>1, <2>2
<1> HIDE DEF st
<1>5. /\ parser' = st.parser /\ splitter' = st.splitter /\ reply' = st.reply /\ visible' = st.visible
      /\ status' = IF st.parser.failed THEN "failed" ELSE "open"
  BY DEF Push, Becomes, st
<1>6. CASE st.parser.failed
  BY <1>5, <1>6 DEF ReadInv
<1>7. CASE ~st.parser.failed
  <2>1. status' = "open"
    BY <1>5, <1>7
  <2>2. ReadsAs(options, visible, parser, splitter, reply)'
    BY <1>1, <1>4, <1>5, <1>7 DEF ReadsAs, Read, ReadStage
  <2> QED
    BY <2>1, <2>2 DEF ReadInv
<1> QED
  BY <1>6, <1>7

\* The end of an answer whose parser failed.
LEMMA FailedFinish ==
  ASSUME NEW o, NEW s, NEW p, p.failed, NEW sp, NEW r, NEW v
  PROVE  DoFinish(o, Whole(s, p, sp, r, v)) = Whole(s, p, sp, r, v)
<1>1. Whole(s, p, sp, r, v).parser = p
  BY PartsAre
<1> QED
  BY <1>1 DEF DoFinish

\* The filter after more text.
LEMMA PushHolds ==
  ASSUME NEW o \in Options, NEW s, NEW v, NEW rd, NEW x \in AnyText,
         StopHolds(o, s, v, rd), ~s.stopped, NEW p, NEW sp, NEW r
  PROVE  LET st == DoPush(o, Whole(s, p, sp, r, v), x)
         IN  /\ st = Whole(st.stop, st.parser, st.splitter, st.reply, st.visible)
             /\ StopHolds(o, st.stop, st.visible, rd \o x)
<1> DEFINE f == StopPush(s, x)
           q == ParserPush(o, p, f.out)
           sr == Sorted(sp, r, q)
           qq == Quiet(q)
           fs == f.stop
           a == sr.splitter
           c == sr.reply
           w == v \o f.out
           st == DoPush(o, Whole(s, p, sp, r, v), x)
<1>1. StopHolds(o, fs, w, rd \o x)
  <2>1. o.stops \in AnyMarkers
    BY StopsOf
  <2> QED
    BY <2>1, StopPushKeeps
<1>2. st = Whole(fs, qq, a, c, w)
  BY PushIs
<1> HIDE DEF fs, qq, a, c, w, st
<1>3. st.stop = fs /\ st.parser = qq /\ st.splitter = a /\ st.reply = c /\ st.visible = w
  BY <1>2, PartsAre
<1>4. /\ st = Whole(st.stop, st.parser, st.splitter, st.reply, st.visible)
      /\ StopHolds(o, st.stop, st.visible, rd \o x)
  BY <1>1, <1>2, <1>3
<1> QED
  BY <1>4 DEF st

\* So does the end of the answer.
LEMMA ReadInvFinish ==
  ASSUME StopInv, ReadInv, NEW tail \in Chunks(options), Finish(tail)
  PROVE  ReadInv'
<1>1. options \in Options /\ tail \in AnyText /\ options' = options
  BY StopsOf DEF StopInv, Finish
<1>2. StopHolds(options, stop, visible, raw) /\ status = "open"
  BY DEF StopInv, Finish
<1>3. ReadsAs(options, visible, parser, splitter, reply)
  BY <1>2 DEF ReadInv
<1>4. PICK s, p, sp, r, v :
        /\ DoPush(options, State, tail) = Whole(s, p, sp, r, v)
        /\ ~p.failed => ReadsAs(options, v, p, sp, r)
        /\ p.failed => p \in Parsers
        /\ s.pending \in AnyText /\ v \in AnyText
  <2>1. CASE stop.stopped
    <3>1. DoPush(options, State, tail) = Whole(stop, parser, splitter, reply, visible)
      BY <2>1, StateIs, PushIs
    <3>2. stop.pending \in AnyText /\ visible \in AnyText
      BY <1>2 DEF StopHolds
    <3>3. parser \in Parsers
      <4>1. Read(options, visible) \in Parsers
        <5>1. PICK b \in AnyText : b = <<>>
          BY JoinNothing
        <5>2. PICK u \in AnyText : Is(u, visible \o b)
          BY <3>2, JoinTexts DEF Is
        <5> QED
          BY <1>1, <3>2, <5>2, ReadMore
      <4> QED
        BY <1>3, <4>1, QuietIs DEF ReadsAs
    <3> QED
      BY <1>3, <3>1, <3>2, <3>3
  <2>2. CASE ~stop.stopped
    <3> DEFINE su == DoPush(options, Whole(stop, parser, splitter, reply, visible), tail)
    <3>1. /\ su = Whole(su.stop, su.parser, su.splitter, su.reply, su.visible)
          /\ StopHolds(options, su.stop, su.visible, raw \o tail)
          /\ su.parser \in Parsers
          /\ ~su.parser.failed => ReadsAs(options, su.visible, su.parser, su.splitter, su.reply)
      <4>1. /\ su.parser \in Parsers
            /\ ~su.parser.failed => ReadsAs(options, su.visible, su.parser, su.splitter, su.reply)
        BY <1>1, <1>2, <1>3, <2>2, PushReads
      <4>2. /\ su = Whole(su.stop, su.parser, su.splitter, su.reply, su.visible)
            /\ StopHolds(options, su.stop, su.visible, raw \o tail)
        BY <1>1, <1>2, <2>2, PushHolds
      <4> QED
        BY <4>1, <4>2
    <3>2. DoPush(options, State, tail) = su
      BY StateIs
    <3> HIDE DEF su
    <3>3. su.stop.pending \in AnyText /\ su.visible \in AnyText
      BY <3>1 DEF StopHolds
    <3> QED
      BY <3>1, <3>2, <3>3
  <2> QED
    BY <2>1, <2>2
<1> DEFINE st == DoFinish(options, DoPush(options, State, tail))
<1>5. CASE p.failed
  <2>1. DoFinish(options, Whole(s, p, sp, r, v)).parser.failed
    BY <1>5, FailedFinish, PartsAre
  <2>2. st.parser.failed
    BY <1>4, <2>1
  <2>3. status' = "failed"
    BY <2>2 DEF Finish, Becomes
  <2> QED
    BY <2>3 DEF ReadInv
<1>6. CASE ~p.failed
  <2>1. LET su == DoFinish(options, Whole(s, p, sp, r, v))
        IN  /\ su.parser.failed <=> ~Answered(options, su.visible)
            /\ ~su.parser.failed => su.reply = Answer(options, su.visible)
    BY <1>1, <1>4, <1>6, FinishReads
  <2>2. /\ st.parser.failed <=> ~Answered(options, st.visible)
        /\ ~st.parser.failed => st.reply = Answer(options, st.visible)
    BY <1>4, <2>1
  <2> HIDE DEF st
  <2>3. /\ parser' = st.parser /\ reply' = st.reply /\ visible' = st.visible
        /\ status' = IF st.parser.failed THEN "failed" ELSE "finished"
    BY DEF Finish, Becomes, st
  <2>4. CASE st.parser.failed
    BY <2>3, <2>4 DEF ReadInv
  <2>5. CASE ~st.parser.failed
    <3>1. status' = "finished" /\ parser'.failed = FALSE
      BY <2>2, <2>3, <2>5
    <3>2. Answered(options, st.visible) /\ reply' = Answer(options, st.visible)
      BY <2>2, <2>3, <2>5
    <3>3. Answered(options, visible)' /\ (reply = Answer(options, visible))'
      BY <1>1, <2>3, <3>2
           DEF Answered, Answer, Read, ReadStage, ReadEnd
    <3> QED
      BY <3>1, <3>3 DEF ReadInv
  <2> QED
    BY <2>4, <2>5
<1> QED
  BY <1>5, <1>6

\* Every step keeps the invariant of the reader.
LEMMA ReadInvNext == StopInv /\ ReadInv /\ [OutputNext]_outputVars => ReadInv'
<1> SUFFICES ASSUME StopInv, ReadInv, [OutputNext]_outputVars PROVE ReadInv'
  OBVIOUS
<1>1. CASE OutputNext
  <2>1. PICK chunk \in Chunks(options) : Push(chunk) \/ Finish(chunk)
    BY <1>1 DEF OutputNext, Following
  <2> QED
    BY <2>1, ReadInvPush, ReadInvFinish
<1>2. CASE UNCHANGED outputVars
  <2>1. /\ options' = options /\ visible' = visible /\ parser' = parser
        /\ splitter' = splitter /\ reply' = reply /\ status' = status
    BY <1>2 DEF outputVars
  <2> QED
    BY <2>1 DEF ReadInv, ReadsAs, Answered, Answer, Read, ReadStage, ReadEnd
<1> QED
  BY <1>1, <1>2

\* The text r pushed at once, before the end: the filter and the parser did what
\* pushing it in pieces does.
LEMMA AtOnce ==
  ASSUME NEW o \in Options, NEW r \in AnyText
  PROVE  LET st == DoPush(o, Fresh(o), r)
         IN  /\ st = Whole(st.stop, st.parser, st.splitter, st.reply, st.visible)
             /\ StopHolds(o, st.stop, st.visible, r)
             /\ ~Read(o, st.visible).failed =>
                  ReadsAs(o, st.visible, st.parser, st.splitter, st.reply)
<1> DEFINE s == NewStop(o)
           p == NewParser(o)
           sp == NewSplitter(o)
           w == Whole(s, p, sp, NewReply, <<>>)
           st == DoPush(o, Fresh(o), r)
<1>1. Fresh(o) = w
  BY DEF Fresh, Whole
<1>2. StopHolds(o, s, <<>>, <<>>) /\ ~s.stopped
  BY NewStopHolds DEF NewStop
<1>3. ReadsAs(o, <<>>, p, sp, NewReply)
  BY NewStageReady, ReadNothing DEF ReadsAs
<1>4. <<>> \o r = r
  BY JoinNothing
<1> HIDE DEF s, p, sp
<1> DEFINE su == DoPush(o, w, r)
<1>5. /\ su = Whole(su.stop, su.parser, su.splitter, su.reply, su.visible)
      /\ StopHolds(o, su.stop, su.visible, <<>> \o r)
  BY <1>2, PushHolds
<1>6. /\ su.parser.failed <=> Read(o, su.visible).failed
      /\ ~su.parser.failed => ReadsAs(o, su.visible, su.parser, su.splitter, su.reply)
  BY <1>2, <1>3, PushReads
<1>7. st = su
  BY <1>1
<1> HIDE DEF su
<1> QED
  BY <1>4, <1>5, <1>6, <1>7

\* The first place of a marker, or none.
LEMMA FirstOf ==
  ASSUME NEW t \in AnyText, NEW M \in AnyMarkers, NEW f, Is(f, Find(t, M))
  PROVE  /\ f \in Nat
         /\ f = 0 => \A i \in 1..Len(t) : \A m \in M : ~Stands(t, m, i)
         /\ f # 0 => /\ f \in 1..Len(t) /\ \E m \in M : Stands(t, m, f)
                    /\ \A i \in 1..(f - 1) : \A m \in M : ~Stands(t, m, i)
<1>1. M \in SUBSET Seq(Alphabet) /\ t \in Seq(Alphabet) /\ Len(t) \in Nat
  BY DEF AnyMarkers, MarkerTexts, AnyText
<1>2. /\ f \in 0..Len(t)
      /\ f = 0 => \A i \in 1..Len(t) : \A m \in M : ~Stands(t, m, i)
      /\ f # 0 => /\ \E m \in M : Stands(t, m, f)
                 /\ \A i \in 1..(f - 1) : \A m \in M : ~Stands(t, m, i)
  BY <1>1, FindIs DEF Is
<1>3. f \in Nat /\ (f # 0 => f \in 1..Len(t))
  BY <1>1, <1>2
<1> QED
  BY <1>2, <1>3

\* A text that begins later in u than another and ends no later lies in it.
LEMMA StandsWithin ==
  ASSUME NEW u \in AnyText, NEW m \in AnyText, NEW n \in AnyText, NEW j \in Nat, NEW i \in Nat,
         0 < j, j < i, Stands(u, m, j), Stands(u, n, i), i + Len(n) <= j + Len(m)
  PROVE  Stands(m, n, i - j + 1)
<1> DEFINE q == i - j + 1
<1>1. Len(n) \in Nat /\ Len(m) \in Nat /\ q \in Nat \ {0} /\ q + Len(n) <= Len(m) + 1
  BY DEF AnyText
<1>0. /\ u \in Seq(Alphabet) /\ m \in Seq(Alphabet) /\ n \in Seq(Alphabet)
      /\ i \in Nat \ {0} /\ j \in Nat \ {0}
  BY DEF AnyText
<1>2. \A k \in 1..Len(m) : u[j + k - 1] = m[k]
  <2>1. Stands(u, m, j) <=> /\ j + Len(m) <= Len(u) + 1
                            /\ \A k \in 1..Len(m) : u[j + k - 1] = m[k]
    BY <1>0, StandsIs
  <2> QED
    BY <2>1
<1>3. \A k \in 1..Len(n) : u[i + k - 1] = n[k]
  <2>1. Stands(u, n, i) <=> /\ i + Len(n) <= Len(u) + 1
                            /\ \A k \in 1..Len(n) : u[i + k - 1] = n[k]
    BY <1>0, StandsIs
  <2> QED
    BY <2>1
<1>4. \A k \in 1..Len(n) : m[q + k - 1] = n[k]
  <2> SUFFICES ASSUME NEW k \in 1..Len(n) PROVE m[q + k - 1] = n[k]
    OBVIOUS
  <2>1. q + k - 1 \in 1..Len(m) /\ j + (q + k - 1) - 1 = i + k - 1
    BY <1>1
  <2> QED
    BY <1>2, <1>3, <2>1
<1> HIDE DEF q
<1>5. Stands(m, n, q)
  <2>1. Stands(m, n, q) <=> /\ q + Len(n) <= Len(m) + 1
                            /\ \A k \in 1..Len(n) : m[q + k - 1] = n[k]
    BY <1>0, <1>1, StandsIs
  <2> QED
    BY <1>1, <1>4, <2>1
<1> QED
  BY <1>5 DEF q

\* A stop that was met is met at the same place whatever comes behind it, if none
\* is nested in another.
LEMMA MetForGood ==
  ASSUME NEW M \in AnyMarkers, Unnested(M), NEW t \in AnyText, NEW b \in AnyText, NEW u \in AnyText,
         Is(u, t \o b), Find(t, M) > 0
  PROVE  Find(u, M) = Find(t, M)
<1>1. PICK f : Is(f, Find(t, M))
  BY DEF Is
<1>2. PICK g : Is(g, Find(u, M))
  BY DEF Is
<1>3. f \in 1..Len(t) /\ \A i \in 1..(f - 1) : \A m \in M : ~Stands(t, m, i)
  BY <1>1, FirstOf DEF Is
<1>4. PICK n \in M : Stands(t, n, f)
  BY <1>1, <1>3, FirstOf DEF Is
<1>5. \A m \in M : m \in AnyText /\ Len(m) \in Nat /\ Len(m) > 0
  <2>1. \A m \in M : m \in Seq(Alphabet) /\ m # <<>>
    BY DEF AnyMarkers, MarkerTexts
  <2> QED
    BY <2>1, EmptySeq DEF AnyText
<1>6. Len(t) \in Nat /\ Len(u) = Len(t) + Len(b) /\ Len(b) \in Nat /\ f \in Nat /\ f > 0
  BY <1>3, ConcatProperties DEF AnyText, Is
<1>7. Stands(u, n, f)
  BY <1>4, <1>5, <1>6, StandsMore DEF Is
<1>8. f + Len(n) <= Len(t) + 1
  <2>1. (f + Len(n) - 1) \in 0..Len(t)
    BY <1>4, <1>5, <1>6, StandsInside
  <2> QED
    BY <1>5, <1>6, <2>1
<1>9. f \in 1..Len(u)
  BY <1>3, <1>6
<1>10. g # 0
  BY <1>2, <1>7, <1>9, FirstOf
<1>11. g \in 1..Len(u) /\ \A i \in 1..(g - 1) : \A m \in M : ~Stands(u, m, i)
  BY <1>2, <1>10, FirstOf
<1>12. PICK m \in M : Stands(u, m, g)
  BY <1>2, <1>10, FirstOf
<1>13. g \in Nat /\ g > 0 /\ g <= f
  BY <1>6, <1>7, <1>11
<1>14. ~(g < f)
  <2> SUFFICES ASSUME g < f PROVE FALSE
    OBVIOUS
  <2>1. ~Stands(t, m, g)
    BY <1>3, <1>13
  <2>2. g + Len(m) > Len(t) + 1
    <3> SUFFICES ASSUME g + Len(m) <= Len(t) + 1 PROVE FALSE
      BY <1>5, <1>6, <1>13
    <3>1. Stands(t \o b, m, g) <=> Stands(t, m, g)
      <4>1. t \in Seq(Alphabet) /\ b \in Seq(Alphabet) /\ m \in Seq(Alphabet) /\ g \in Nat \ {0}
        BY <1>5, <1>13 DEF AnyText
      <4> QED
        BY <4>1, StandsInConcat
    <3> QED
      BY <1>12, <2>1, <3>1 DEF Is
  <2>3. Stands(m, n, f - g + 1)
    <3>1. f + Len(n) <= g + Len(m)
      BY <1>5, <1>6, <1>8, <1>13, <2>2
    <3> QED
      BY <1>5, <1>6, <1>7, <1>12, <1>13, <3>1, StandsWithin
  <2>4. f - g + 1 \in 2..Len(m) /\ (f - g + 1) + Len(n) - 1 # Len(m)
    BY <1>5, <1>6, <1>8, <1>13, <2>2
  <2> QED
    BY <2>3, <2>4 DEF Unnested
<1>15. g = f
  BY <1>6, <1>13, <1>14
<1> QED
  BY <1>1, <1>2, <1>15 DEF Is

\* What a filter let through of the text r that ended it, it lets through of any
\* text that begins with r.
LEMMA ReadForGood ==
  ASSUME NEW o \in Options, NEW s, NEW v, NEW r \in AnyText, AllRead(o, s, v, r),
         s.stopped, Unnested(o.stops), NEW b \in AnyText, NEW u \in AnyText, Is(u, r \o b)
  PROVE  AllRead(o, s, v, u)
<1>1. PICK f : Is(f, Find(r, o.stops))
  BY DEF Is
<1>2. f > 0 /\ v = Take(r, f - 1) /\ s.stopped = TRUE
  BY <1>1 DEF AllRead, Is
<1>3. o.stops \in AnyMarkers
  BY StopsOf
<1>4. Find(u, o.stops) = f
  BY <1>1, <1>2, <1>3, MetForGood DEF Is
<1>5. (f - 1) \in 0..Len(r)
  <2>1. f \in 1..Len(r)
    BY <1>1, <1>2, <1>3, FirstOf
  <2> QED
    BY <2>1 DEF AnyText
<1>6. Take(u, f - 1) = Take(r, f - 1)
  BY <1>5, CutOfJoined DEF AnyText, Is
<1> QED
  BY <1>2, <1>4, <1>6 DEF AllRead

\* Pushed at once, a text gives the answer that was made of what is visible of it.
LEMMA AtOnceReads ==
  ASSUME ReadInv, status = "finished", options \in Options, NEW u \in AnyText,
         AllRead(options, stop, visible, u)
  PROVE  LET whole == DoFinish(options, DoPush(options, Fresh(options), u))
         IN  ~whole.parser.failed /\ reply = whole.reply /\ visible = whole.visible
<1> DEFINE st == DoPush(options, Fresh(options), u)
           whole == DoFinish(options, st)
<1>1. options \in Options /\ u \in AnyText /\ AllRead(options, stop, visible, u)
  OBVIOUS
<1>2. Answered(options, visible) /\ reply = Answer(options, visible)
  BY DEF ReadInv
<1>3. PICK s, p, sp, r, v :
        /\ st = Whole(s, p, sp, r, v)
        /\ StopHolds(options, s, v, u)
        /\ ~Read(options, v).failed => ReadsAs(options, v, p, sp, r)
  BY <1>1, AtOnce
<1> HIDE DEF st
<1>4. s.pending \in AnyText /\ v \in AnyText /\ AllRead(options, Emptied(s), v \o s.pending, u)
  BY <1>1, <1>3, EmptiedRead DEF StopHolds
<1>5. v \o s.pending = visible
  BY <1>1, <1>4 DEF AllRead
<1>6. ~Read(options, v).failed
  <2>1. PICK b \in AnyText, w \in AnyText : Is(b, s.pending) /\ Is(w, v \o b) /\ Is(w, visible)
    BY <1>4, <1>5, JoinTexts DEF Is
  <2>2. Goes(options, v, w, Read(options, v), ParserPush(options, Quiet(Read(options, v)), b))
    BY <1>1, <1>4, <2>1, ReadMore
  <2>3. ~Read(options, w).failed
    BY <1>2, <2>1 DEF Answered, Is
  <2> QED
    BY <2>2, <2>3 DEF Goes
<1> DEFINE su == DoFinish(options, Whole(s, p, sp, r, v))
<1>7. /\ su.visible = v \o s.pending
      /\ su.parser.failed <=> ~Answered(options, su.visible)
      /\ ~su.parser.failed => su.reply = Answer(options, su.visible)
  BY <1>1, <1>3, <1>4, <1>6, FinishReads
<1>8. whole = su
  BY <1>3
<1> HIDE DEF su
<1>9. ~whole.parser.failed /\ reply = whole.reply /\ visible = whole.visible
  BY <1>2, <1>5, <1>7, <1>8
<1> QED
  BY <1>9 DEF st

\* What the client gets does not depend on where the engine cut the text.

\* The invariant says that the cuts do not matter.
LEMMA ReadInvMeans == StopInv /\ ReadInv => ChunkingIrrelevant
<1> SUFFICES ASSUME StopInv, ReadInv, status = "finished", NEW more \in Unread
             PROVE  LET whole == DoFinish(options, DoPush(options, Fresh(options), raw \o more))
                    IN  ~whole.parser.failed /\ reply = whole.reply /\ visible = whole.visible
  BY DEF ChunkingIrrelevant
<1>1. options \in Options /\ raw \in AnyText /\ AllRead(options, stop, visible, raw)
  BY DEF StopInv
<1>2. PICK u : Is(u, raw \o more)
  BY DEF Is
<1>3. u \in AnyText /\ AllRead(options, stop, visible, u)
  <2>1. CASE more = <<>>
    BY <1>1, <1>2, <2>1, JoinNothing DEF Is
  <2>2. CASE more # <<>>
    <3>1. stop.stopped /\ Unnested(options.stops) /\ more \in Chunks(options)
      BY <2>2 DEF Unread
    <3>2. more \in AnyText
      BY <1>1, <3>1, StopsOf
    <3>3. u \in AnyText
      BY <1>1, <1>2, <3>2, JoinTexts DEF Is
    <3> QED
      BY <1>1, <1>2, <3>1, <3>2, <3>3, ReadForGood
  <2> QED
    BY <2>1, <2>2
<1> DEFINE whole == DoFinish(options, DoPush(options, Fresh(options), u))
<1>4. ~whole.parser.failed /\ reply = whole.reply /\ visible = whole.visible
  BY <1>1, <1>3, AtOnceReads
<1> HIDE DEF whole
<1>5. DoFinish(options, DoPush(options, Fresh(options), raw \o more)) = whole
  BY <1>2 DEF Is, whole
<1> QED
  BY <1>4, <1>5

\* For every request, every text and every way the engine cuts it, a finished
\* answer is that of the text read, pushed at once; and if no stop sequence is
\* nested in another, that of every text it might have gone on to read.
THEOREM ChunkingHolds == OutputSpec => []ChunkingIrrelevant
<1>1. StopInv /\ ReadInv /\ [OutputNext]_outputVars => (StopInv /\ ReadInv)'
  BY StopInvNext, ReadInvNext
<1>2. OutputInit => StopInv /\ ReadInv
  BY StopInvInit, ReadInvInit
<1>3. OutputSpec => [](StopInv /\ ReadInv)
  BY <1>1, <1>2, PTL DEF OutputSpec
<1> QED
  BY <1>3, ReadInvMeans, PTL

----------------------------------------------------------------------------
\* The end of a call is outside its data.

\* The modes an XML body leads through.
Modes == {"tags", "value", "ended"}

XmlRun(f, t) ==
  /\ f \in [0..Len(t) -> Modes]
  /\ f[0] = "tags"
  /\ \A i \in 1..Len(t) : f[i] = XmlStep(f[i - 1], t[i])

\* A symbol leads from mode to mode.
LEMMA XmlStepType == \A m \in Modes : \A x : XmlStep(m, x) \in Modes
<1> SUFFICES ASSUME NEW m \in Modes, NEW x PROVE XmlStep(m, x) \in Modes
  OBVIOUS
<1> QED
  BY DEF XmlStep, Modes

\* The mode a body leaves is the last of the modes it leads through.
LEMMA XmlModeIs ==
  ASSUME NEW t \in AnyText
  PROVE  \E f : XmlRun(f, t) /\ XmlMode(t) = f[Len(t)]
<1> DEFINE n == Len(t)
           step == [x \in (1..n) \X Modes |-> XmlStep(x[2], t[x[1]])]
<1>1. n \in Nat /\ "tags" \in Modes
  BY DEF AnyText, Modes
<1>0. n = Len(t)
  OBVIOUS
<1> HIDE DEF n
<1>2. step \in [(1..n) \X Modes -> Modes]
  <2>1. \A x \in (1..n) \X Modes : x[2] \in Modes
    OBVIOUS
  <2> QED
    BY <2>1, XmlStepType
<1>3. \E f : Recursion(f, n, Modes, "tags", step)
  <2> HIDE DEF step
  <2> QED
    BY <1>1, <1>2, RecursionExists
<1>4. PICK f : Recursion(f, n, Modes, "tags", step)
  BY <1>3
<1>5. /\ f \in [0..n -> Modes] /\ f[0] = "tags"
      /\ \A i \in 1..n : f[i] = step[<<i, f[i - 1]>>]
  BY <1>4 DEF Recursion
<1>6. \A i \in 1..n : f[i] = XmlStep(f[i - 1], t[i])
  <2>1. \A i \in 1..n : i - 1 \in 0..n
    BY <1>1
  <2>2. \A i \in 1..n : <<i, f[i - 1]>> \in (1..n) \X Modes
    BY <1>5, <2>1
  <2> QED
    BY <1>5, <2>2
<1>7. \A i \in 0..n : i = 0 \/ i \in 1..n
  BY <1>1
<1> DEFINE C == CHOOSE g : g = [i \in 0..n |-> IF i = 0 THEN "tags" ELSE XmlStep(g[i - 1], t[i])]
<1>8. f = [i \in 0..n |-> IF i = 0 THEN "tags" ELSE XmlStep(f[i - 1], t[i])]
  BY <1>5, <1>6, <1>7
<1>9. C = [i \in 0..n |-> IF i = 0 THEN "tags" ELSE XmlStep(C[i - 1], t[i])]
  BY <1>8
<1>10. XmlMode(t) = C[n]
  BY DEF XmlMode, n
<1> HIDE DEF C, step
<1>11. C[0] = "tags" /\ \A i \in 1..n : C[i] = XmlStep(C[i - 1], t[i])
  BY <1>1, <1>7, <1>9
<1>12. \A i \in 0..n : C[i] = f[i]
  <2> DEFINE T == {i \in Nat : i <= n => C[i] = f[i]}
  <2>1. 0 \in T
    BY <1>5, <1>11
  <2>2. ASSUME NEW i \in T PROVE i + 1 \in T
    <3> SUFFICES ASSUME i + 1 <= n PROVE C[i + 1] = f[i + 1]
      OBVIOUS
    <3>1. i + 1 \in 1..n /\ (i + 1) - 1 = i /\ C[i] = f[i]
      BY <1>1
    <3> QED
      BY <1>6, <1>11, <3>1
  <2>3. T = Nat
    <3>1. T \in SUBSET Nat
      OBVIOUS
    <3> HIDE DEF T
    <3> QED
      BY <2>1, <2>2, <3>1, Induction
  <2> QED
    BY <1>1, <2>3
<1>13. XmlMode(t) = f[n]
  BY <1>1, <1>10, <1>12
<1>14. XmlRun(f, t)
  BY <1>0, <1>5, <1>6 DEF XmlRun
<1> QED
  BY <1>0, <1>13, <1>14

\* The function's tag leaves an XML body between tags: what is behind it leads
\* on as the body does.
LEMMA XmlTail ==
  ASSUME NEW c \in AnyText, Begins(c, Function)
  PROVE  XmlMode(Tail(c)) = XmlMode(c)
<1>1. c # <<>> /\ c[1] = Function /\ Len(c) \in Nat \ {0} /\ c \in Seq(Alphabet)
  BY EmptySeq DEF Begins, AnyText
<1>2. Tail(c) \in Seq(Alphabet) /\ Len(Tail(c)) = Len(c) - 1
      /\ \A i \in 1..Len(Tail(c)) : Tail(c)[i] = c[i + 1]
  BY <1>1, HeadTailProperties
<1>3. PICK d \in AnyText : Is(d, Tail(c)) /\ Len(d) = Len(c) - 1
                           /\ \A i \in 1..Len(d) : d[i] = c[i + 1]
  BY <1>2 DEF Is, AnyText
<1>4. PICK f : XmlRun(f, c) /\ XmlMode(c) = f[Len(c)]
  BY XmlModeIs
<1>5. PICK g : XmlRun(g, d) /\ XmlMode(d) = g[Len(d)]
  BY XmlModeIs
<1>6. f[1] = "tags"
  <2>1. 1 \in 1..Len(c) /\ 1 - 1 = 0
    BY <1>1
  <2>2. f[1] = XmlStep(f[0], c[1]) /\ f[0] = "tags"
    BY <1>4, <2>1 DEF XmlRun
  <2>3. XmlStep("tags", Function) = "tags"
    BY TagsAssumption DEF XmlStep
  <2> QED
    BY <1>1, <2>2, <2>3
<1> DEFINE T == {i \in Nat : i <= Len(d) => g[i] = f[i + 1]}
<1>7. 0 \in T
  <2>1. g[0] = "tags"
    BY <1>5 DEF XmlRun
  <2> QED
    BY <1>6, <2>1
<1>8. ASSUME NEW i \in T PROVE i + 1 \in T
  <2> SUFFICES ASSUME i + 1 <= Len(d) PROVE g[i + 1] = f[(i + 1) + 1]
    OBVIOUS
  <2>1. /\ i + 1 \in 1..Len(d) /\ (i + 1) - 1 = i /\ g[i] = f[i + 1]
        /\ (i + 1) + 1 \in 1..Len(c) /\ ((i + 1) + 1) - 1 = i + 1
    BY <1>1, <1>3
  <2>2. g[i + 1] = XmlStep(g[i], d[i + 1])
    BY <1>5, <2>1 DEF XmlRun
  <2>3. f[(i + 1) + 1] = XmlStep(f[i + 1], c[(i + 1) + 1])
    BY <1>4, <2>1 DEF XmlRun
  <2>4. d[i + 1] = c[(i + 1) + 1]
    BY <1>3, <2>1
  <2> QED
    BY <2>1, <2>2, <2>3, <2>4
<1>9. T = Nat
  <2>1. T \in SUBSET Nat
    OBVIOUS
  <2> HIDE DEF T
  <2> QED
    BY <1>7, <1>8, <2>1, Induction
<1>10. Len(d) \in Nat /\ Len(d) + 1 = Len(c)
  BY <1>1, <1>3
<1>11. g[Len(d)] = f[Len(c)]
  BY <1>9, <1>10
<1> QED
  BY <1>3, <1>4, <1>5, <1>11 DEF Is

\* What is before an end is not inside data.
LEMMA EndIsOutside ==
  ASSUME NEW t \in AnyText, NEW n \in 0..Len(t), Take(t, n) \in BeforeEnd(t)
  PROVE  ~InData(Take(t, n))
<1>1. PICK c \in AnyText : Is(c, Take(t, n)) /\ Len(c) = n /\ c \in BeforeEnd(t)
                           /\ (\A i \in 1..n : c[i] = t[i])
  BY TakeIs DEF Is, AnyText
<1>2. ASSUME NEW x, Begins(c, x) PROVE Begins(t, x)
  <2>1. Len(c) \in Nat \ {0} /\ Len(t) \in Nat
    BY <1>2, EmptySeq DEF Begins, AnyText
  <2>2. 1 \in 1..n /\ Len(t) # 0
    BY <1>1, <2>1
  <2>3. c[1] = t[1] /\ t # <<>>
    BY <1>1, <2>2
  <2> QED
    BY <1>2, <2>3 DEF Begins
<1>3. Function # Brace
  BY TagsAssumption
<1>4. CASE Begins(c, Function)
  <2>1. XmlMode(c) = "ended"
    BY <1>1, <1>2, <1>4 DEF BeforeEnd
  <2>2. XmlMode(Tail(c)) = "ended"
    BY <1>4, <2>1, XmlTail
  <2>3. ~Begins(c, Brace)
    BY <1>3, <1>4 DEF Begins
  <2> QED
    BY <1>1, <2>2, <2>3 DEF InData, Is
<1>5. CASE Begins(c, Brace)
  <2>1. Begins(t, Brace) /\ ~Begins(t, Function) /\ ~Begins(c, Function)
    BY <1>2, <1>3, <1>5 DEF Begins
  <2>2. JsonMode(c) = "plain"
    BY <1>1, <2>1 DEF BeforeEnd
  <2> QED
    BY <1>1, <2>1, <2>2 DEF InData, Is
<1>6. CASE ~Begins(c, Function) /\ ~Begins(c, Brace)
  BY <1>1, <1>6 DEF InData, Is
<1> QED
  BY <1>4, <1>5, <1>6

----------------------------------------------------------------------------
\* Whatever holds of the loop, its turns keep.

\* What a turn may do to the parser x.
Emits(x, q)  == \E n \in 0..Len(x.pending) : q = EmitFirst(x, n)
Switches(x, q) == \E n \in 0..Len(x.pending) : \E b \in BOOLEAN : q = Thinks(EmitFirst(x, n), b)
Opens(x, q)  ==
  \E n \in 0..Len(x.pending) : \E t \in AnyText : q = Enters(EmitFirst(x, n), t)
Gives(o, x, q) ==
  \E body \in AnyText : \E d \in AnyText :
    /\ ~Refuses(o, x, body) /\ ~InData(body)
    /\ q = Ends(x, d, Append(x.events, CallEvent(body)))

\* A turn gives text out, enters or leaves reasoning, enters a call, gives a
\* call out, fails, or does nothing.
TurnDoes(o, x, q) ==
  q = x \/ q = Fail(x) \/ Emits(x, q) \/ Switches(x, q) \/ Opens(x, q) \/ Gives(o, x, q)

\* The turn inside a call.
LEMMA CallTurnDoes ==
  ASSUME NEW o, NEW x \in Parsers, NEW fin \in BOOLEAN
  PROVE  TurnDoes(o, x, CallTurn(o, x, fin))
<1>1. PICK t \in AnyText : Is(t, x.pending)
  BY PartsOf DEF Is
<1>2. PICK end, body, d : /\ Is(end, CallEnd(t)) /\ Is(body, Take(t, end - 1))
                          /\ Is(d, Drop(t, end + Len(Close) - 1))
  BY DEF Is
<1>3. /\ end > 0 /\ Refuses(o, x, body) => CallTurn(o, x, fin) = Fail(x)
      /\ end > 0 /\ ~Refuses(o, x, body) =>
           CallTurn(o, x, fin) = Ends(x, d, Append(x.events, CallEvent(body)))
      /\ ~(end > 0) => CallTurn(o, x, fin) = Fail(x) \/ CallTurn(o, x, fin) = x
  <2>1. LET e == CallEnd(x.pending)
            b == Take(x.pending, e - 1)
        IN  /\ e > 0 /\ Refuses(o, x, b) => CallTurn(o, x, fin) = Fail(x)
            /\ e > 0 /\ ~Refuses(o, x, b) =>
                 CallTurn(o, x, fin) = Ends(x, Drop(x.pending, e + Len(Close) - 1),
                                            Append(x.events, CallEvent(b)))
            /\ ~(e > 0) => CallTurn(o, x, fin) = Fail(x) \/ CallTurn(o, x, fin) = x
    BY CallTurnIs
  <2> QED
    BY <1>1, <1>2, <2>1 DEF Is
<1>4. CASE end > 0 /\ ~Refuses(o, x, body)
  <2>1. body \in AnyText /\ d \in AnyText
    BY <1>2, <1>4, EndCuts DEF Is
  <2>2. ~InData(body)
    <3>1. CallEnd(t) - 1 \in 0..Len(t)
      BY <1>2, <1>4, EndCuts DEF Is
    <3>2. Take(t, CallEnd(t) - 1) \in BeforeEnd(t)
      BY <1>2, <1>4, JoinNothing, CallEndStays DEF Is
    <3>3. PICK n \in 0..Len(t) : Is(n, CallEnd(t) - 1) /\ Take(t, n) \in BeforeEnd(t)
      BY <3>1, <3>2 DEF Is
    <3>4. ~InData(Take(t, n))
      BY <3>3, EndIsOutside
    <3> QED
      BY <1>2, <3>3, <3>4 DEF Is
  <2>3. Gives(o, x, CallTurn(o, x, fin))
    BY <1>3, <1>4, <2>1, <2>2 DEF Gives
  <2> QED
    BY <2>3 DEF TurnDoes
<1>5. CASE ~(end > 0 /\ ~Refuses(o, x, body))
  BY <1>3, <1>5 DEF TurnDoes
<1> QED
  BY <1>4, <1>5

\* The turn inside reasoning.
LEMMA ThinkTurnDoes ==
  ASSUME NEW o, NEW x \in Parsers, NEW fin \in BOOLEAN
  PROVE  TurnDoes(o, x, ThinkTurn(x, fin))
<1>1. PICK leave, n, keep :
        /\ Is(leave, Find(x.pending, {ThinkEnd}))
        /\ Is(n, Find(x.pending, {ThinkEnd}) + Len(ThinkEnd) - 1)
        /\ Is(keep, IF fin THEN Len(x.pending)
                    ELSE Len(x.pending) - Held(x.pending, {ThinkEnd}))
  BY DEF Is
<1>2. /\ leave > 0 => n \in 0..Len(x.pending) /\ ThinkTurn(x, fin) = Thinks(EmitFirst(x, n), FALSE)
      /\ ~(leave > 0) => keep \in 0..Len(x.pending) /\ ThinkTurn(x, fin) = EmitFirst(x, keep)
  BY <1>1, ThinkTurnIs DEF Is
<1>3. CASE leave > 0
  <2>1. Switches(x, ThinkTurn(x, fin))
    BY <1>2, <1>3 DEF Switches
  <2> QED
    BY <2>1 DEF TurnDoes
<1>4. CASE ~(leave > 0)
  <2>1. Emits(x, ThinkTurn(x, fin))
    BY <1>2, <1>4 DEF Emits
  <2> QED
    BY <2>1 DEF TurnDoes
<1> QED
  BY <1>3, <1>4

\* The turn outside both.
LEMMA TextTurnDoes ==
  ASSUME NEW o, NEW x \in Parsers, NEW fin \in BOOLEAN
  PROVE  TurnDoes(o, x, TextTurn(x, fin))
<1>0. PICK t \in AnyText : Is(t, x.pending)
  BY PartsOf DEF Is
<1>1. PICK at, keep, k, n, m :
        /\ Is(at, Find(t, {Open, Think})) /\ Is(keep, Len(t) - Held(t, {Open, Think}))
        /\ Is(k, at + Len(Open) - 1) /\ Is(n, at + Len(Think) - 1) /\ Is(m, at - 1)
  BY DEF Is
<1>2. /\ at \in Nat /\ keep \in 0..Len(t) /\ Len(t) \in 0..Len(t)
      /\ at > 0 /\ Stands(t, Open, at) =>
           /\ k \in 0..Len(t) /\ m \in 0..Len(t)
           /\ TextTurn(x, fin) = Enters(EmitFirst(x, m), Drop(t, k))
      /\ at > 0 /\ ~Stands(t, Open, at) =>
           /\ n \in 0..Len(t)
           /\ TextTurn(x, fin) = Thinks(EmitFirst(x, n), TRUE)
      /\ ~(at > 0) /\ ~fin => TextTurn(x, fin) = EmitFirst(x, keep)
      /\ ~(at > 0) /\ fin => \/ TextTurn(x, fin) = Fail(x)
                             \/ TextTurn(x, fin) = EmitFirst(x, Len(t))
  <2>1. LET a  == Find(x.pending, {Open, Think})
            kp == Len(x.pending) - Held(x.pending, {Open, Think})
            k2 == a + Len(Open) - 1
            n2 == a + Len(Think) - 1
        IN  /\ a \in Nat /\ kp \in 0..Len(x.pending) /\ Len(x.pending) \in 0..Len(x.pending)
            /\ a > 0 /\ Stands(x.pending, Open, a) =>
                 /\ k2 \in 0..Len(x.pending) /\ a - 1 \in 0..Len(x.pending)
                 /\ TextTurn(x, fin) = Enters(EmitFirst(x, a - 1), Drop(x.pending, k2))
            /\ a > 0 /\ ~Stands(x.pending, Open, a) =>
                 /\ n2 \in 0..Len(x.pending)
                 /\ TextTurn(x, fin) = Thinks(EmitFirst(x, n2), TRUE)
            /\ ~(a > 0) /\ ~fin => TextTurn(x, fin) = EmitFirst(x, kp)
            /\ ~(a > 0) /\ fin => \/ TextTurn(x, fin) = Fail(x)
                                  \/ TextTurn(x, fin) = EmitFirst(x, Len(x.pending))
    BY TextTurnIs
  <2> QED
    BY <1>0, <1>1, <2>1 DEF Is
<1>3. CASE at > 0 /\ Stands(t, Open, at)
  <2>1. Drop(t, k) \in AnyText
    BY <1>2, <1>3, CutParts
  <2>2. Opens(x, TextTurn(x, fin))
    BY <1>0, <1>2, <1>3, <2>1 DEF Opens, Is
  <2> QED
    BY <2>2 DEF TurnDoes
<1>4. CASE at > 0 /\ ~Stands(t, Open, at)
  <2>1. Switches(x, TextTurn(x, fin))
    BY <1>0, <1>2, <1>4 DEF Switches, Is
  <2> QED
    BY <2>1 DEF TurnDoes
<1>5. CASE ~(at > 0)
  <2>1. TextTurn(x, fin) = Fail(x) \/ Emits(x, TextTurn(x, fin))
    BY <1>0, <1>2, <1>5 DEF Emits, Is
  <2> QED
    BY <2>1 DEF TurnDoes
<1> QED
  BY <1>2, <1>3, <1>4, <1>5

\* A turn, whatever the parser is inside of.
LEMMA TurnDoesThat ==
  ASSUME NEW o, NEW x \in Parsers, NEW fin \in BOOLEAN
  PROVE  TurnDoes(o, x, DrainTurn(o, x, fin))
<1>1. x.failed \in BOOLEAN /\ x.inCall \in BOOLEAN /\ x.thinking \in BOOLEAN
  BY PartsOf
<1>2. CASE x.failed
  <2>1. DrainTurn(o, x, fin) = x
    BY <1>2, TurnIs
  <2> QED
    BY <2>1 DEF TurnDoes
<1>3. CASE ~x.failed /\ x.inCall
  <2>1. DrainTurn(o, x, fin) = CallTurn(o, x, fin)
    BY <1>3, TurnIs
  <2> QED
    BY <2>1, CallTurnDoes
<1>4. CASE ~x.failed /\ ~x.inCall /\ x.thinking
  <2>1. DrainTurn(o, x, fin) = ThinkTurn(x, fin)
    BY <1>4, TurnIs
  <2> QED
    BY <2>1, ThinkTurnDoes
<1>5. CASE ~x.failed /\ ~x.inCall /\ ~x.thinking
  <2>1. DrainTurn(o, x, fin) = TextTurn(x, fin)
    BY <1>5, TurnIs
  <2> QED
    BY <2>1, TextTurnDoes
<1> QED
  BY <1>1, <1>2, <1>3, <1>4, <1>5

\* What each of these keeps, a turn keeps, and the loop.
Kept(o, Q) ==
  \A x \in Q :
    /\ Fail(x) \in Q
    /\ \A q \in Parsers : Emits(x, q) => q \in Q
    /\ \A b \in BOOLEAN : Thinks(x, b) \in Q
    /\ \A t \in AnyText : Enters(x, t) \in Q
    /\ \A q \in Parsers : Gives(o, x, q) => q \in Q

\* A turn keeps it,
LEMMA TurnStays ==
  ASSUME NEW o, NEW Q \in SUBSET Parsers, NEW x \in Q, NEW fin \in BOOLEAN, Kept(o, Q)
  PROVE  DrainTurn(o, x, fin) \in Q
<1>1. PICK q \in Parsers : Is(q, DrainTurn(o, x, fin))
  BY TurnType DEF Is
<1>2. TurnDoes(o, x, q)
  BY <1>1, TurnDoesThat DEF Is
<1>3. ASSUME NEW n \in 0..Len(x.pending) PROVE EmitFirst(x, n) \in Q
  <2>1. PICK e \in Parsers : Is(e, EmitFirst(x, n))
    BY EmitFirstIs DEF Is
  <2>2. Emits(x, e)
    BY <2>1 DEF Emits, Is
  <2> QED
    BY <2>1, <2>2 DEF Kept, Is
<1>4. CASE q = x \/ q = Fail(x) \/ Emits(x, q) \/ Gives(o, x, q)
  <2>1. q \in Q
    BY <1>4 DEF Kept
  <2> QED
    BY <1>1, <2>1 DEF Is
<1>5. CASE Switches(x, q)
  <2>1. PICK n \in 0..Len(x.pending), b \in BOOLEAN : q = Thinks(EmitFirst(x, n), b)
    BY <1>5 DEF Switches
  <2>2. PICK e \in Q : Is(e, EmitFirst(x, n))
    BY <1>3 DEF Is
  <2>3. Thinks(e, b) \in Q
    BY DEF Kept
  <2> QED
    BY <1>1, <2>1, <2>2, <2>3 DEF Is
<1>6. CASE Opens(x, q)
  <2>1. PICK n \in 0..Len(x.pending), t \in AnyText : q = Enters(EmitFirst(x, n), t)
    BY <1>6 DEF Opens
  <2>2. PICK e \in Q : Is(e, EmitFirst(x, n))
    BY <1>3 DEF Is
  <2>3. Enters(e, t) \in Q
    BY DEF Kept
  <2> QED
    BY <1>1, <2>1, <2>2, <2>3 DEF Is
<1> QED
  BY <1>2, <1>4, <1>5, <1>6 DEF TurnDoes

\* and so does the loop.
LEMMA DrainStays ==
  ASSUME NEW o, NEW Q \in SUBSET Parsers, NEW p \in Q, NEW fin \in BOOLEAN, Kept(o, Q)
  PROVE  Drain(o, p, fin) \in Q
<1>1. \A x \in Q : DrainTurn(o, x, fin) \in Q
  BY TurnStays
<1> QED
  BY <1>1, DrainKeeps

----------------------------------------------------------------------------
\* The calls given out are frames, and counted.

\* Bodies of frames; calls that were recorded of them, as many as the request
\* allows.
Bodies == {b \in AnyText : ValidBody(b) /\ ~InData(b)}
Frames(o, ca) == ca \in Seq(Bodies) /\ (o.parallel \/ Len(ca) <= 1)

\* The calls of a stage.
CallsOf(sr) == sr.reply.calls

\* Parsers that failed, or that counted the calls they gave out from sr.
Counted(o, sr) ==
  {x \in Parsers :
     ~x.failed => /\ Frames(o, CallsOf(Route(sr, x.events)))
                  /\ Is(Len(CallsOf(Route(sr, x.events))), x.calls)}

\* Text records no call.
LEMMA SplitCalls ==
  ASSUME NEW sr \in Stages, NEW x \in AnyText
  PROVE  CallsOf(SplitText(sr, x)) = CallsOf(sr)
<1>1. PICK th \in BOOLEAN : \E pe, co, re \in AnyText : \E ca \in Seq(AnyText) :
        sr = Staged(th, pe, co, re, ca)
  BY StageIs
<1>2. PICK pe \in AnyText, co \in AnyText, re \in AnyText : \E ca \in Seq(AnyText) :
        sr = Staged(th, pe, co, re, ca)
  BY <1>1
<1>3. PICK ca \in Seq(AnyText) : sr = Staged(th, pe, co, re, ca)
  BY <1>2
<1> DEFINE all == pe \o x
<1>4. SplitText(sr, x) = Split(th, all, co, re, ca)
  BY <1>3, SplitTextIs
<1>5. \E a, b, c, d : Split(th, all, co, re, ca) = Staged(a, b, c, d, ca)
  <2> HIDE DEF all
  <2> QED
    BY DEF Split
<1>6. PICK a, b, c, d : SplitText(sr, x) = Staged(a, b, c, d, ca)
  BY <1>4, <1>5
<1> QED
  BY <1>3, <1>6, StagedParts DEF CallsOf

\* Flushing the splitter keeps the calls.
LEMMA FlushStages ==
  ASSUME NEW sr \in Stages
  PROVE  \E a, c, d : SplitFlush(sr) = Staged(a, <<>>, c, d, CallsOf(sr))
<1>1. PICK th \in BOOLEAN : \E pe, co, re \in AnyText : \E ca \in Seq(AnyText) :
        sr = Staged(th, pe, co, re, ca)
  BY StageIs
<1>2. PICK pe \in AnyText, co \in AnyText, re \in AnyText : \E ca \in Seq(AnyText) :
        sr = Staged(th, pe, co, re, ca)
  BY <1>1
<1>3. PICK ca \in Seq(AnyText) : sr = Staged(th, pe, co, re, ca)
  BY <1>2
<1>4. SplitFlush(sr) = IF th THEN Staged(TRUE, <<>>, co, re \o pe, ca)
                       ELSE Staged(FALSE, <<>>, co \o pe, re, ca)
  BY <1>3, FlushIs, ZenonT(30)
<1>5. CallsOf(sr) = ca
  BY <1>3, StagedParts DEF CallsOf
<1> QED
  BY <1>4, <1>5

\* A call is recorded behind those there are.
LEMMA CallRoutes ==
  ASSUME NEW sr, Ready(sr), NEW e \in Seq(Events), NEW b \in AnyText
  PROVE  CallsOf(Route(sr, Append(e, CallEvent(b)))) = Grown(CallsOf(Route(sr, e)), b)
<1>1. PICK y \in Events : Is(y, CallEvent(b)) /\ y.text = b /\ y.call
  BY TextEventIs DEF Is
<1>2. Route(sr, Append(e, y)) = RouteEvent(Route(sr, e), y)
  BY RouteAppend
<1>3. PICK fl \in Stages : Is(fl, Route(sr, e))
  BY RouteReady DEF Ready, Is
<1>4. PICK a, c, d : SplitFlush(fl) = Staged(a, <<>>, c, d, CallsOf(fl))
  BY FlushStages
<1>5. RouteEvent(fl, y) = Called(SplitFlush(fl), b)
  BY <1>1 DEF RouteEvent, Called
<1>6. Called(Staged(a, <<>>, c, d, CallsOf(fl)), b)
         = Staged(a, <<>>, c, d, Grown(CallsOf(fl), b))
  BY CalledIs
<1>7. CallsOf(Staged(a, <<>>, c, d, Grown(CallsOf(fl), b))) = Grown(CallsOf(fl), b)
  BY StagedParts DEF CallsOf
<1> QED
  BY <1>1, <1>2, <1>3, <1>4, <1>5, <1>6, <1>7 DEF Is

\* A frame more is recorded and counted.
LEMMA GrownFrames ==
  ASSUME NEW o \in Options, NEW ca, Frames(o, ca), NEW b \in Bodies, o.parallel \/ Len(ca) = 0
  PROVE  Frames(o, Grown(ca, b)) /\ Is(Len(Grown(ca, b)), OneMore(Len(ca)))
<1>1. ca \in Seq(Bodies) /\ Len(ca) \in Nat
  BY DEF Frames
<1>2. Grown(ca, b) \in Seq(Bodies) /\ Len(Grown(ca, b)) = Len(ca) + 1
  BY <1>1, AppendProperties DEF Grown
<1>3. o.parallel \in BOOLEAN
  BY StopsOf
<1>4. o.parallel \/ Len(Grown(ca, b)) <= 1
  BY <1>1, <1>2, <1>3
<1> QED
  BY <1>2, <1>4 DEF Frames, Is, OneMore

\* What a turn may do keeps the count.
LEMMA CountedKept ==
  ASSUME NEW o \in Options, NEW sr, Ready(sr)
  PROVE  Kept(o, Counted(o, sr))
<1> DEFINE Q == Counted(o, sr)
<1> SUFFICES ASSUME NEW x \in Q
             PROVE  /\ Fail(x) \in Q
                    /\ \A q \in Parsers : Emits(x, q) => q \in Q
                    /\ \A b \in BOOLEAN : Thinks(x, b) \in Q
                    /\ \A t \in AnyText : Enters(x, t) \in Q
                    /\ \A q \in Parsers : Gives(o, x, q) => q \in Q
  BY DEF Kept
<1>0. /\ x \in Parsers /\ x.events \in Seq(Events) /\ x.failed \in BOOLEAN /\ x.calls \in Nat
      /\ ~x.failed => /\ Frames(o, CallsOf(Route(sr, x.events)))
                      /\ Is(Len(CallsOf(Route(sr, x.events))), x.calls)
  BY PartsOf DEF Counted
<1>1. Fail(x) \in Q
  BY <1>0, FailIs DEF Counted
<1>2. ASSUME NEW q \in Parsers, Emits(x, q) PROVE q \in Q
  <2>1. PICK n \in 0..Len(x.pending) : q = EmitFirst(x, n)
    BY <1>2 DEF Emits
  <2>2. PICK t \in AnyText : Is(t, Take(x.pending, n))
    BY <1>0, PartsOf, CutParts DEF Is
  <2>3. q.events = EmitText(x.events, t) /\ q.calls = x.calls /\ q.failed = x.failed
    BY <1>0, <2>1, <2>2, EmitFirstIs DEF Is
  <2>4. PICK st \in Stages : Is(st, Route(sr, x.events))
    BY <1>0, RouteReady DEF Ready, Is
  <2>5. Route(sr, q.events) = SplitText(st, t)
    BY <1>0, <2>3, <2>4, RouteEmit DEF Is
  <2>6. CallsOf(Route(sr, q.events)) = CallsOf(Route(sr, x.events))
    BY <2>4, <2>5, SplitCalls DEF Is
  <2> QED
    BY <1>0, <2>3, <2>6 DEF Counted
<1>3. ASSUME NEW b \in BOOLEAN PROVE Thinks(x, b) \in Q
  BY <1>0, ThinksIs DEF Counted
<1>4. ASSUME NEW t \in AnyText PROVE Enters(x, t) \in Q
  BY <1>0, EntersIs DEF Counted
<1>5. ASSUME NEW q \in Parsers, Gives(o, x, q) PROVE q \in Q
  <2>1. PICK body \in AnyText, d \in AnyText :
          /\ ~Refuses(o, x, body) /\ ~InData(body)
          /\ q = Ends(x, d, Append(x.events, CallEvent(body)))
    BY <1>5 DEF Gives
  <2>2. PICK e \in Seq(Events) : Is(e, Append(x.events, CallEvent(body)))
    BY <1>0, TextEventIs, AppendEvent DEF Is
  <2>3. q.events = e /\ q.failed = x.failed /\ Is(q.calls, OneMore(x.calls))
    <3>1. q = Ends(x, d, e)
      BY <2>1, <2>2 DEF Is
    <3>2. Ends(x, d, e).events = e
      BY <1>0, EndsIs
    <3>3. Ends(x, d, e).failed = x.failed
      BY <1>0, EndsKeeps
    <3>4. Is(Ends(x, d, e).calls, OneMore(x.calls))
      BY <1>0, EndsCounts
    <3> QED
      BY <3>1, <3>2, <3>3, <3>4
  <2>4. CallsOf(Route(sr, e)) = Grown(CallsOf(Route(sr, x.events)), body)
    BY <1>0, <2>2, CallRoutes DEF Is
  <2>5. SUFFICES ASSUME ~x.failed
                 PROVE  /\ Frames(o, CallsOf(Route(sr, e)))
                        /\ Is(Len(CallsOf(Route(sr, e))), q.calls)
    BY <2>3 DEF Counted
  <2>6. body \in Bodies /\ (o.parallel \/ x.calls = 0)
    BY <2>1 DEF Bodies, Refuses
  <2>7. PICK ca : /\ Is(ca, CallsOf(Route(sr, x.events))) /\ Frames(o, ca)
                  /\ Is(Len(ca), x.calls)
    BY <1>0, <2>5 DEF Is
  <2>8. Frames(o, Grown(ca, body)) /\ Is(Len(Grown(ca, body)), OneMore(Len(ca)))
    <3>1. o.parallel \/ Len(ca) = 0
      BY <2>6, <2>7 DEF Is
    <3> QED
      BY <2>6, <2>7, <3>1, GrownFrames
  <2> QED
    BY <2>3, <2>4, <2>7, <2>8 DEF Is
<1> QED
  BY <1>1, <1>2, <1>3, <1>4, <1>5

\* Reading text is the loop, from the new parser with the text to read.
LEMMA ReadIs ==
  ASSUME NEW o \in Options, o.tools, NEW v \in AnyText
  PROVE  \E x \in Parsers :
           /\ Read(o, v) = Drain(o, x, FALSE)
           /\ x.events = <<>> /\ x.pending = v /\ x.thinking = o.thinking
           /\ x.inCall = FALSE /\ x.calls = 0 /\ x.failed = FALSE
<1>1. PICK p \in Parsers :
        /\ Is(p, NewParser(o)) /\ p.events = <<>> /\ Quiet(p) = p
        /\ p.pending = <<>> /\ p.thinking = o.thinking
        /\ p.inCall = FALSE /\ p.calls = 0 /\ p.failed = FALSE
  BY NewParserIs, GivingIs DEF Is
<1>2. PICK x \in Parsers :
        /\ Is(x, More(p, v)) /\ x.pending = p.pending \o v /\ x.events = p.events
        /\ x.thinking = p.thinking
        /\ x.inCall = p.inCall /\ x.calls = p.calls /\ x.failed = p.failed
  BY MoreIs DEF Is
<1>3. ParserPush(o, p, v) = Done(o, Quiet(p), v)
  BY PushIsDone
<1>4. Read(o, v) = Drain(o, x, FALSE)
  BY <1>1, <1>2, <1>3 DEF Read, Done, Is
<1>5. x.pending = v
  BY <1>1, <1>2, JoinNothing
<1> QED
  BY <1>1, <1>2, <1>4, <1>5

\* The end is the loop again; without a call that is required it fails.
LEMMA EndIs ==
  ASSUME NEW o \in Options, o.tools, NEW v \in AnyText
  PROVE  \E x \in Parsers, q \in Parsers :
           /\ Is(x, Quiet(Read(o, v))) /\ x.events = <<>> /\ Is(q, Drain(o, x, TRUE))
           /\ o.required /\ q.calls = 0 => ReadEnd(o, v) = Fail(q)
           /\ ~(o.required /\ q.calls = 0) => ReadEnd(o, v) = q
<1>0. PICK yes \in BOOLEAN : yes = TRUE
  OBVIOUS
<1>1. Read(o, v) \in Parsers
  BY ReadMore, JoinNothing, JoinTexts DEF Is
<1>2. PICK x \in Parsers : Is(x, Quiet(Read(o, v))) /\ x.events = <<>> /\ Quiet(x) = x
  <2>1. PICK x \in Parsers : Is(x, Quiet(Read(o, v))) /\ x.events = <<>>
    BY <1>1, QuietIs DEF Is
  <2>2. Quiet(x) = x
    BY <2>1, GivingIs
  <2> QED
    BY <2>1, <2>2
<1>3. PICK q \in Parsers : Is(q, Drain(o, x, TRUE))
  BY <1>0, DrainRests DEF Is
<1>4. ReadEnd(o, v) = ParserFinish(o, x)
  BY <1>2 DEF ReadEnd, Is
<1>5. ParserFinish(o, x) = IF o.required /\ q.calls = 0 THEN Fail(q) ELSE q
  <2>1. [x EXCEPT !.events = <<>>] = x
    BY <1>2 DEF Quiet
  <2>2. Drain(o, [x EXCEPT !.events = <<>>], TRUE) = q
    BY <1>3, <2>1 DEF Is
  <2> QED
    BY <2>2 DEF ParserFinish
<1> QED
  BY <1>2, <1>3, <1>4, <1>5

\* A parser that gave out nothing counted the calls there are.
LEMMA CountedStart ==
  ASSUME NEW o, NEW sr, Ready(sr), Frames(o, CallsOf(sr)), NEW x \in Parsers,
         x.events = <<>>, ~x.failed => Is(Len(CallsOf(sr)), x.calls)
  PROVE  x \in Counted(o, sr)
<1>1. Route(sr, x.events) = sr
  BY RouteNothing
<1> QED
  BY <1>1 DEF Counted

\* The calls read are frames, and counted.
LEMMA ReadCounts ==
  ASSUME NEW o \in Options, o.tools, NEW v \in AnyText
  PROVE  Read(o, v) \in Counted(o, NewStage(o))
<1>0. PICK no \in BOOLEAN : no = FALSE
  OBVIOUS
<1>1. PICK x \in Parsers :
           /\ Read(o, v) = Drain(o, x, FALSE)
           /\ x.events = <<>> /\ x.calls = 0
  BY ReadIs
<1>2. PICK sr : Is(sr, NewStage(o)) /\ Ready(sr) /\ CallsOf(sr) = <<>>
  <2>1. NewStage(o).reply.calls = <<>>
    BY StagedParts DEF NewStage
  <2> QED
    BY <2>1, NewStageReady DEF Is, CallsOf
<1>3. Frames(o, CallsOf(sr)) /\ Len(CallsOf(sr)) = 0
  BY <1>2, EmptySeq DEF Frames
<1>4. x \in Counted(o, sr)
  BY <1>1, <1>2, <1>3, CountedStart DEF Is
<1>5. Drain(o, x, no) \in Counted(o, sr)
  <2>1. Counted(o, sr) \in SUBSET Parsers
    BY DEF Counted
  <2>2. Kept(o, Counted(o, sr))
    BY <1>2, CountedKept
  <2> HIDE DEF Counted
  <2> QED
    BY <1>4, <2>1, <2>2, DrainStays
<1> QED
  BY <1>0, <1>1, <1>2, <1>5 DEF Is

\* So are the calls of the whole answer; and there are some, when one is
\* required.
LEMMA EndCounts ==
  ASSUME NEW o \in Options, o.tools, NEW v \in AnyText, ~Read(o, v).failed
  PROVE  /\ ReadEnd(o, v) \in Counted(o, ReadStage(o, v))
         /\ ~ReadEnd(o, v).failed /\ o.required => ReadEnd(o, v).calls # 0
<1>0. PICK yes \in BOOLEAN : yes = TRUE
  OBVIOUS
<1>1. PICK x \in Parsers, q \in Parsers :
           /\ Is(x, Quiet(Read(o, v))) /\ x.events = <<>> /\ Is(q, Drain(o, x, TRUE))
           /\ o.required /\ q.calls = 0 => ReadEnd(o, v) = Fail(q)
           /\ ~(o.required /\ q.calls = 0) => ReadEnd(o, v) = q
  BY EndIs
<1>2. PICK sr : Is(sr, ReadStage(o, v)) /\ Ready(sr)
  BY ReadIsReady DEF Is
<1>3. Frames(o, CallsOf(sr)) /\ Is(Len(CallsOf(sr)), x.calls)
  <2>1. PICK r \in Parsers : Is(r, Read(o, v)) /\ r \in Counted(o, NewStage(o))
    BY ReadCounts DEF Counted, Is
  <2>2. x.calls = r.calls /\ ~r.failed
    BY <1>1, <2>1, QuietIs DEF Is
  <2>3. sr = Route(NewStage(o), r.events)
    BY <1>2, <2>1 DEF ReadStage, Is
  <2> QED
    BY <2>1, <2>2, <2>3 DEF Counted, Is
<1>4. x \in Counted(o, sr)
  BY <1>1, <1>2, <1>3, CountedStart
<1>5. Drain(o, x, yes) \in Counted(o, sr) /\ Fail(q) \in Counted(o, sr)
  <2>1. Counted(o, sr) \in SUBSET Parsers
    BY DEF Counted
  <2>2. Kept(o, Counted(o, sr))
    BY <1>2, CountedKept
  <2>3. Fail(q) \in Counted(o, sr)
    BY FailIs DEF Counted
  <2> HIDE DEF Counted
  <2> QED
    BY <1>4, <2>1, <2>2, <2>3, DrainStays
<1>6. q \in Counted(o, sr)
  BY <1>0, <1>1, <1>5 DEF Is
<1>7. ReadEnd(o, v) \in Counted(o, sr)
  BY <1>1, <1>5, <1>6
<1>8. ASSUME ~ReadEnd(o, v).failed, o.required PROVE ReadEnd(o, v).calls # 0
  <2>1. Fail(q).failed
    BY FailIs
  <2> QED
    BY <1>1, <1>8, <2>1
<1> QED
  BY <1>2, <1>7, <1>8 DEF Is

\* The calls in a reply are frames while it is open; and what its parser counted
\* at the end.
LEMMA ReadFrames ==
  ASSUME NEW o \in Options, o.tools, NEW v \in AnyText, ~Read(o, v).failed
  PROVE  /\ Frames(o, CallsOf(ReadStage(o, v)))
         /\ Is(Len(CallsOf(ReadStage(o, v))), Read(o, v).calls)
  BY ReadCounts DEF Counted, ReadStage

\* The same of the whole answer.
LEMMA AnswerFrames ==
  ASSUME NEW o \in Options, o.tools, NEW v \in AnyText, Answered(o, v)
  PROVE  /\ Frames(o, Answer(o, v).calls)
         /\ Is(Len(Answer(o, v).calls), ReadEnd(o, v).calls)
         /\ o.required => ReadEnd(o, v).calls # 0
<1>1. ~Read(o, v).failed
  BY DEF Answered
<1>2. ReadEnd(o, v) \in Counted(o, ReadStage(o, v))
      /\ (~ReadEnd(o, v).failed /\ o.required => ReadEnd(o, v).calls # 0)
  BY <1>1, EndCounts
<1>3. PICK q \in Parsers : Is(q, ReadEnd(o, v)) /\ ~q.failed
  <2>1. PICK q \in Parsers : Is(q, ReadEnd(o, v))
    BY <1>2 DEF Counted, Is
  <2>2. Quiet(q).failed = q.failed
    BY QuietIs
  <2> QED
    BY <2>1, <2>2 DEF Answered, Is
<1>4. PICK to \in Stages : Is(to, Route(ReadStage(o, v), q.events))
  <2>1. Ready(ReadStage(o, v)) /\ q.events \in Seq(Events)
    BY ReadIsReady, PartsOf
  <2>2. Ready(Route(ReadStage(o, v), q.events))
    BY <2>1, RouteReady
  <2> QED
    BY <2>2 DEF Ready, Is
<1>5. Frames(o, CallsOf(to)) /\ Is(Len(CallsOf(to)), q.calls)
  BY <1>2, <1>3, <1>4 DEF Counted, Is
<1>6. Answer(o, v).calls = CallsOf(to)
  <2>1. [splitter |-> to.splitter, reply |-> to.reply] = to
    BY DEF Stages
  <2>2. Answer(o, v) = SplitFlush(to).reply
    BY <1>3, <1>4, <2>1 DEF Answer, Is
  <2> QED
    BY <2>2, FlushSays DEF CallsOf
<1> QED
  BY <1>2, <1>3, <1>5, <1>6 DEF Is

----------------------------------------------------------------------------
\* What a text without reasoning markers shows, until a call begins.

\* The text v has this marker nowhere up to its symbol n, but for its first c.
Lacks(v, marker, c, n) == \A i \in 1..n : c < i => ~Stands(v, marker, i)

\* How much of v is reasoning.
Mused(o, v) == IF o.thinking THEN Find(v, {ThinkEnd}) + Len(ThinkEnd) - 1 ELSE 0

\* The parser x has given out the first n symbols of v, from the stage sr.
Upto(o, v, sr, x, n) ==
  /\ n \in 0..Len(v)
  /\ Route(sr, x.events) = SplitText(NewStage(o), Take(v, n))
  /\ ~x.inCall => Is(x.pending, Drop(v, n))

\* It is in the reasoning; or behind it, where no call began.
Muses(o, v, x, n) == o.thinking /\ ~x.inCall /\ x.thinking /\ Lacks(v, ThinkEnd, 0, n)
Speaks(o, v, x, n) ==
  /\ ~x.thinking
  /\ o.thinking => Find(v, {ThinkEnd}) > 0
  /\ Mused(o, v) <= n /\ Lacks(v, Open, Mused(o, v), n)

\* Parsers that failed, that met a call, or that are in one of the two.
Clean(o, v, sr) ==
  {x \in Parsers :
     ~x.failed /\ x.calls = 0 =>
       \E n : Upto(o, v, sr, x, n) /\ (Muses(o, v, x, n) \/ Speaks(o, v, x, n))}

\* Symbols given out are the next symbols of the text.
LEMMA UptoMore ==
  ASSUME NEW o \in Options, NEW v \in AnyText, NEW sr, Ready(sr), NEW x \in Parsers,
         NEW n, Upto(o, v, sr, x, n), ~x.inCall, NEW k \in 0..Len(x.pending)
  PROVE  /\ n \in 0..Len(v) /\ Len(v) \in Nat /\ Len(x.pending) = Len(v) - n
         /\ n + k \in 0..Len(v)
         /\ Route(sr, EmitFirst(x, k).events) = SplitText(NewStage(o), Take(v, n + k))
         /\ EmitFirst(x, k).pending = Drop(v, n + k)
<1>1. n \in 0..Len(v) /\ Len(v) \in Nat /\ Is(x.pending, Drop(v, n))
  BY DEF Upto, AnyText
<1>2. Len(x.pending) = Len(v) - n
  BY <1>1, CutParts DEF Is
<1>3. k \in 0..(Len(v) - n)
  BY <1>2
<1>4. /\ n + k \in 0..Len(v)
      /\ Take(v, n) \o Take(Drop(v, n), k) = Take(v, n + k)
      /\ Drop(Drop(v, n), k) = Drop(v, n + k)
  BY <1>1, <1>3, CutTwice
<1>5. PICK a \in AnyText, b \in AnyText : Is(a, Take(v, n)) /\ Is(b, Take(x.pending, k))
  <2>1. Take(v, n) \in AnyText
    BY <1>1, CutParts
  <2>2. Take(x.pending, k) \in AnyText
    BY PartsOf, CutParts
  <2> QED
    BY <2>1, <2>2 DEF Is
<1>6. EmitFirst(x, k).events = EmitText(x.events, b) /\ EmitFirst(x, k).pending = Drop(x.pending, k)
  BY <1>5, EmitFirstIs DEF Is
<1>7. Route(sr, EmitText(x.events, b)) = SplitText(Route(sr, x.events), b)
  BY PartsOf, RouteEmit
<1>8. Route(sr, x.events) = SplitText(NewStage(o), a)
  BY <1>5 DEF Upto, Is
<1>9. SplitText(SplitText(NewStage(o), a), b) = SplitText(NewStage(o), a \o b)
  BY NewStageReady, SplitTwice
<1>10. a \o b = Take(v, n + k)
  BY <1>1, <1>4, <1>5 DEF Is
<1> QED
  BY <1>1, <1>2, <1>4, <1>6, <1>7, <1>8, <1>9, <1>10 DEF Is

\* A parser that failed or met a call is one that did.
Spent == {x \in Parsers : x.failed \/ x.calls # 0}

\* What a turn may do leaves it so.
LEMMA SpentKept == \A o : Kept(o, Spent)
<1> SUFFICES ASSUME NEW o, NEW x \in Spent
             PROVE  /\ Fail(x) \in Spent
                    /\ \A q \in Parsers : Emits(x, q) => q \in Spent
                    /\ \A b \in BOOLEAN : Thinks(x, b) \in Spent
                    /\ \A t \in AnyText : Enters(x, t) \in Spent
                    /\ \A q \in Parsers : Gives(o, x, q) => q \in Spent
  BY DEF Kept
<1>0. x \in Parsers /\ (x.failed \/ x.calls # 0) /\ x.calls \in Nat
  BY PartsOf DEF Spent
<1>1. Fail(x) \in Spent
  BY <1>0, FailIs DEF Spent
<1>2. ASSUME NEW q \in Parsers, Emits(x, q) PROVE q \in Spent
  <2>1. PICK n \in 0..Len(x.pending) : q = EmitFirst(x, n)
    BY <1>2 DEF Emits
  <2> QED
    BY <1>0, <2>1, EmitFirstIs DEF Spent
<1>3. ASSUME NEW b \in BOOLEAN PROVE Thinks(x, b) \in Spent
  BY <1>0, ThinksIs DEF Spent
<1>4. ASSUME NEW t \in AnyText PROVE Enters(x, t) \in Spent
  BY <1>0, EntersIs DEF Spent
<1>5. ASSUME NEW q \in Parsers, Gives(o, x, q) PROVE q \in Spent
  <2>1. PICK body \in AnyText, d \in AnyText : q = Ends(x, d, Append(x.events, CallEvent(body)))
    BY <1>5 DEF Gives
  <2>2. PICK e \in Seq(Events) : Is(e, Append(x.events, CallEvent(body)))
    BY <1>0, PartsOf, TextEventIs, AppendEvent DEF Is
  <2>3. q = Ends(x, d, e)
    BY <2>1, <2>2 DEF Is
  <2>4. Is(Ends(x, d, e).calls, OneMore(x.calls))
    BY <1>0, EndsCounts
  <2>5. q.calls # 0
    BY <1>0, <2>3, <2>4 DEF Is, OneMore
  <2> QED
    BY <2>5 DEF Spent
<1> QED
  BY <1>1, <1>2, <1>3, <1>4, <1>5

\* A marker in what is left of a text is one in the text.
LEMMA StandsBehind ==
  ASSUME NEW v \in AnyText, NEW n \in 0..Len(v), NEW m \in AnyText, NEW i \in Nat \ {0}
  PROVE  Stands(Drop(v, n), m, i) <=> Stands(v, m, n + i)
  BY StandsInDrop DEF AnyText

\* What is not in the first part nor in the next is not in both.
LEMMA LacksMore ==
  ASSUME NEW v \in AnyText, NEW n \in 0..Len(v), NEW m \in AnyText, NEW c \in Nat,
         Lacks(v, m, c, n), NEW k \in Nat,
         \A i \in 1..k : ~Stands(Drop(v, n), m, i)
  PROVE  Lacks(v, m, c, n + k)
<1> SUFFICES ASSUME NEW i \in 1..(n + k), c < i PROVE ~Stands(v, m, i)
  BY DEF Lacks
<1>1. n \in Nat /\ Len(v) \in Nat
  BY DEF AnyText
<1>2. CASE i <= n
  <2>1. i \in 1..n
    BY <1>1, <1>2
  <2> QED
    BY <2>1 DEF Lacks
<1>3. CASE ~(i <= n)
  <2>1. PICK j \in 1..k : j = i - n
    BY <1>1, <1>3
  <2>2. j \in Nat \ {0} /\ n + j = i
    BY <1>1, <2>1
  <2>3. Stands(Drop(v, n), m, j) <=> Stands(v, m, n + j)
    BY <2>2, StandsBehind
  <2> QED
    BY <2>2, <2>3
<1> QED
  BY <1>2, <1>3

\* The turn inside a call.
LEMMA CleanCall ==
  ASSUME NEW o \in Options, NEW v \in AnyText, NEW sr, NEW x \in Clean(o, v, sr),
         NEW fin \in BOOLEAN, ~x.failed, x.calls = 0, NEW q \in Parsers,
         Is(q, CallTurn(o, x, fin))
  PROVE  q \in Clean(o, v, sr)
<1>0. x \in Parsers
  BY DEF Clean
<1>1. PICK end : Is(end, CallEnd(x.pending))
  BY DEF Is
<1>2. PICK body \in AnyText, d \in AnyText :
        end > 0 => /\ Is(body, Take(x.pending, end - 1))
                   /\ Is(d, Drop(x.pending, end + Len(Close) - 1))
  <2>1. PICK t \in AnyText : Is(t, x.pending)
    BY <1>0, PartsOf DEF Is
  <2>2. CallEnd(t) > 0 => /\ Take(t, CallEnd(t) - 1) \in AnyText
                          /\ Drop(t, CallEnd(t) + Len(Close) - 1) \in AnyText
    BY EndCuts
  <2> QED
    BY <1>1, <2>1, <2>2, JoinNothing DEF Is
<1>3. \/ q = Fail(x) \/ q = x
      \/ end > 0 /\ q = Ends(x, d, Append(x.events, CallEvent(body)))
  <2>1. LET e == CallEnd(x.pending)
            b == Take(x.pending, e - 1)
        IN  /\ e > 0 /\ Refuses(o, x, b) => CallTurn(o, x, fin) = Fail(x)
            /\ e > 0 /\ ~Refuses(o, x, b) =>
                 CallTurn(o, x, fin) = Ends(x, Drop(x.pending, e + Len(Close) - 1),
                                            Append(x.events, CallEvent(b)))
            /\ ~(e > 0) => CallTurn(o, x, fin) = Fail(x) \/ CallTurn(o, x, fin) = x
    BY <1>0, CallTurnIs
  <2> QED
    BY <1>1, <1>2, <2>1 DEF Is
<1>4. CASE q = Fail(x)
  BY <1>0, <1>4, FailIs DEF Clean
<1>5. CASE q = Ends(x, d, Append(x.events, CallEvent(body)))
  <2>1. PICK e \in Seq(Events) : Is(e, Append(x.events, CallEvent(body)))
    BY <1>0, PartsOf, TextEventIs, AppendEvent DEF Is
  <2>2. q = Ends(x, d, e)
    BY <1>5, <2>1 DEF Is
  <2>3. Is(Ends(x, d, e).calls, OneMore(x.calls))
    BY <1>0, EndsCounts
  <2>4. q.calls # 0
    BY <2>2, <2>3 DEF Is, OneMore
  <2> QED
    BY <2>4 DEF Clean
<1> QED
  BY <1>3, <1>4, <1>5

\* The turn inside reasoning.
LEMMA CleanThink ==
  ASSUME NEW o \in Options, NEW v \in AnyText, NEW sr, Ready(sr), NEW x \in Parsers,
         NEW n, Upto(o, v, sr, x, n), Muses(o, v, x, n),
         NEW fin \in BOOLEAN, NEW q \in Parsers, Is(q, ThinkTurn(x, fin))
  PROVE  q \in Clean(o, v, sr)
<1>1. PICK t \in AnyText : Is(t, x.pending) /\ Is(t, Drop(v, n))
  BY PartsOf DEF Is, Upto, Muses
<1>2. PICK leave, k, keep :
        /\ Is(leave, Find(t, {ThinkEnd})) /\ Is(k, leave + Len(ThinkEnd) - 1)
        /\ Is(keep, IF fin THEN Len(t) ELSE Len(t) - Held(t, {ThinkEnd}))
  BY DEF Is
<1>3. /\ leave \in Nat
      /\ leave > 0 => k \in 0..Len(t) /\ q = Thinks(EmitFirst(x, k), FALSE)
      /\ ~(leave > 0) => keep \in 0..Len(t) /\ q = EmitFirst(x, keep)
  <2>1. LET tt   == x.pending
            l    == Find(tt, {ThinkEnd})
            kk   == l + Len(ThinkEnd) - 1
            kp   == IF fin THEN Len(tt) ELSE Len(tt) - Held(tt, {ThinkEnd})
        IN  /\ l \in Nat
            /\ l > 0 => kk \in 0..Len(tt) /\ ThinkTurn(x, fin) = Thinks(EmitFirst(x, kk), FALSE)
            /\ ~(l > 0) => kp \in 0..Len(tt) /\ ThinkTurn(x, fin) = EmitFirst(x, kp)
    BY ThinkTurnIs
  <2> QED
    BY <1>1, <1>2, <2>1 DEF Is
<1>4. n \in 0..Len(v) /\ n \in Nat /\ Len(v) \in Nat
  BY DEF Upto, AnyText
<1>5. ThinkEnd \in AnyText /\ Len(ThinkEnd) \in Nat \ {0} /\ {ThinkEnd} \in SUBSET Seq(Alphabet)
  BY MarkersAre, ThinkEndIs
<1>6. /\ leave = 0 => \A i \in 1..Len(t) : ~Stands(t, ThinkEnd, i)
      /\ leave # 0 => /\ leave \in 1..Len(t) /\ Stands(t, ThinkEnd, leave)
                      /\ \A i \in 1..(leave - 1) : ~Stands(t, ThinkEnd, i)
  <2>1. PICK M \in AnyMarkers : M = {ThinkEnd}
    BY MarkersAre
  <2>2. /\ leave = 0 => \A i \in 1..Len(t) : \A m \in M : ~Stands(t, m, i)
        /\ leave # 0 => /\ leave \in 1..Len(t) /\ \E m \in M : Stands(t, m, leave)
                       /\ \A i \in 1..(leave - 1) : \A m \in M : ~Stands(t, m, i)
    BY <1>2, <2>1, FirstOf DEF Is
  <2> QED
    BY <2>1, <2>2
<1>7. \A j \in 0..Len(t) :
        /\ n + j \in 0..Len(v)
        /\ EmitFirst(x, j) \in Parsers /\ EmitFirst(x, j).thinking = x.thinking
        /\ EmitFirst(x, j).inCall = x.inCall
        /\ Upto(o, v, sr, EmitFirst(x, j), n + j)
  <2> TAKE j \in 0..Len(t)
  <2>1. j \in 0..Len(x.pending) /\ ~x.inCall
    BY <1>1 DEF Is, Muses
  <2> QED
    BY <2>1, UptoMore, EmitFirstIs DEF Upto, Is
<1>8. CASE leave > 0
  <2>1. PICK e \in Parsers : Is(e, EmitFirst(x, k)) /\ ~e.inCall /\ Upto(o, v, sr, e, n + k)
                             /\ n + k \in 0..Len(v)
    BY <1>3, <1>7, <1>8 DEF Is, Muses
  <2>2. q = Thinks(e, FALSE)
    BY <1>3, <1>8, <2>1 DEF Is
  <2>3. ~q.thinking /\ ~q.inCall /\ q.events = e.events /\ q.pending = e.pending
    BY <2>1, <2>2, ThinksIs
  <2>4. Upto(o, v, sr, q, n + k)
    BY <2>1, <2>3 DEF Upto
  <2>5. Find(v, {ThinkEnd}) = n + leave
    <3>1. Lacks(v, ThinkEnd, 0, n + (leave - 1))
      <4>1. leave - 1 \in Nat /\ 0 \in Nat
        BY <1>3, <1>8
      <4>2. \A i \in 1..(leave - 1) : ~Stands(Drop(v, n), ThinkEnd, i)
        BY <1>1, <1>6, <1>8 DEF Is
      <4> QED
        BY <1>4, <1>5, <4>1, <4>2, LacksMore DEF Muses
    <3>2. Stands(v, ThinkEnd, n + leave)
      BY <1>1, <1>3, <1>4, <1>5, <1>6, <1>8, StandsBehind DEF Is
    <3>3. n + leave \in 1..Len(v)
      <4>1. leave \in 0..Len(t)
        BY <1>6, <1>8
      <4> QED
        BY <1>3, <1>4, <1>7, <1>8, <4>1
    <3>4. \A j \in 1..((n + leave) - 1) : ~Stands(v, ThinkEnd, j)
      BY <1>3, <1>4, <1>8, <3>1 DEF Lacks
    <3> QED
      BY <1>5, <3>2, <3>3, <3>4, FoundAt DEF AnyText
  <2>6. o.thinking /\ Mused(o, v) = n + k
    BY <1>2, <1>3, <1>4, <1>5, <2>5 DEF Mused, Muses, Is
  <2>7. Speaks(o, v, q, n + k)
    <3>1. Find(v, {ThinkEnd}) > 0
      BY <1>3, <1>4, <1>8, <2>5
    <3>2. PICK c \in Nat : c = n + k
      BY <2>1, <1>4
    <3>3. c <= c /\ Lacks(v, Open, c, c)
      BY <3>2 DEF Lacks
    <3> QED
      BY <2>3, <2>6, <3>1, <3>2, <3>3 DEF Speaks
  <2> QED
    BY <2>4, <2>7 DEF Clean
<1>9. CASE ~(leave > 0)
  <2>1. leave = 0 /\ keep \in 0..Len(t) /\ q = EmitFirst(x, keep)
    BY <1>3, <1>9
  <2>2. Upto(o, v, sr, q, n + keep) /\ q.thinking = x.thinking /\ q.inCall = x.inCall
    BY <1>7, <2>1
  <2>3. Lacks(v, ThinkEnd, 0, n + keep)
    <3>1. keep \in Nat /\ \A i \in 1..keep : i \in 1..Len(t)
      BY <2>1
    <3>2. \A i \in 1..keep : ~Stands(Drop(v, n), ThinkEnd, i)
      BY <1>1, <1>6, <2>1, <3>1 DEF Is
    <3> QED
      BY <1>4, <1>5, <3>1, <3>2, LacksMore DEF Muses
  <2>4. Muses(o, v, q, n + keep)
    BY <2>2, <2>3 DEF Muses
  <2> QED
    BY <2>2, <2>4 DEF Clean
<1> QED
  BY <1>8, <1>9

\* The turn outside reasoning and calls, in a text without opening think markers.
LEMMA CleanText ==
  ASSUME NEW o \in Options, NEW v \in AnyText, Lacks(v, Think, 0, Len(v)),
         NEW sr, Ready(sr), NEW x \in Parsers,
         NEW n, Upto(o, v, sr, x, n), Speaks(o, v, x, n), ~x.inCall,
         NEW fin \in BOOLEAN, NEW q \in Parsers, Is(q, TextTurn(x, fin))
  PROVE  q \in Clean(o, v, sr)
<1>1. PICK t \in AnyText : Is(t, x.pending) /\ Is(t, Drop(v, n))
  BY PartsOf DEF Is, Upto
<1>2. PICK at, keep, k, d, c :
        /\ Is(at, Find(t, Starts)) /\ Is(keep, Len(t) - Held(t, Starts))
        /\ Is(k, at + Len(Open) - 1) /\ Is(d, Drop(t, k)) /\ Is(c, Mused(o, v))
  BY DEF Is
<1>3. /\ at > 0 /\ Stands(t, Open, at) =>
           at - 1 \in 0..Len(t) /\ d \in AnyText /\ q = Enters(EmitFirst(x, at - 1), d)
      /\ ~(at > 0) => \/ q = Fail(x)
                      \/ \E j \in 0..Len(t) : q = EmitFirst(x, j)
  <2>1. LET a  == Find(x.pending, {Open, Think})
            kp == Len(x.pending) - Held(x.pending, {Open, Think})
            k2 == a + Len(Open) - 1
        IN  /\ a \in Nat /\ kp \in 0..Len(x.pending) /\ Len(x.pending) \in 0..Len(x.pending)
            /\ a > 0 /\ Stands(x.pending, Open, a) =>
                 /\ k2 \in 0..Len(x.pending) /\ a - 1 \in 0..Len(x.pending)
                 /\ TextTurn(x, fin) = Enters(EmitFirst(x, a - 1), Drop(x.pending, k2))
            /\ ~(a > 0) /\ ~fin => TextTurn(x, fin) = EmitFirst(x, kp)
            /\ ~(a > 0) /\ fin => \/ TextTurn(x, fin) = Fail(x)
                                  \/ TextTurn(x, fin) = EmitFirst(x, Len(x.pending))
    BY TextTurnIs
  <2>2. /\ keep \in 0..Len(t) /\ Len(t) \in 0..Len(t)
        /\ at > 0 /\ Stands(t, Open, at) =>
             /\ k \in 0..Len(t) /\ at - 1 \in 0..Len(t)
             /\ q = Enters(EmitFirst(x, at - 1), Drop(t, k))
        /\ ~(at > 0) => \/ q = EmitFirst(x, keep) \/ q = Fail(x)
                        \/ q = EmitFirst(x, Len(t))
    BY <1>1, <1>2, <2>1 DEF Is, Starts
  <2>3. k \in 0..Len(t) => d \in AnyText
    BY <1>2, CutParts DEF Is
  <2> QED
    BY <1>2, <2>2, <2>3 DEF Is
<1>4. n \in 0..Len(v) /\ n \in Nat /\ Len(v) \in Nat /\ Len(t) = Len(v) - n
  <2>1. n \in 0..Len(v) /\ n \in Nat /\ Len(v) \in Nat
    BY DEF Upto, AnyText
  <2> QED
    BY <1>1, <2>1, CutParts DEF Is
<1>5. /\ at \in Nat
      /\ at = 0 => \A i \in 1..Len(t) : \A m \in Starts : ~Stands(t, m, i)
      /\ at # 0 => /\ at \in 1..Len(t) /\ \E m \in Starts : Stands(t, m, at)
                   /\ \A i \in 1..(at - 1) : \A m \in Starts : ~Stands(t, m, i)
  BY <1>2, StartsAre, FirstOf
<1>6. Open \in AnyText /\ Think \in AnyText /\ Open \in Starts
  BY MarkersAre DEF Starts
<1>7. /\ ~x.thinking /\ (o.thinking => Find(v, {ThinkEnd}) > 0)
      /\ c <= n /\ Lacks(v, Open, c, n)
  BY <1>2 DEF Speaks, Is
<1>8. c \in Nat
  <2>1. PICK h : Is(h, Find(v, {ThinkEnd}))
    BY DEF Is
  <2>2. h \in Nat
    BY <2>1, MarkersAre, FirstOf
  <2>3. c = IF o.thinking THEN h + Len(ThinkEnd) - 1 ELSE 0
    BY <1>2, <2>1 DEF Mused, Is
  <2> QED
    BY <1>7, <2>1, <2>2, <2>3, MarkersAre DEF Is
<1>9. \A j \in 0..Len(t) :
        /\ n + j \in 0..Len(v)
        /\ EmitFirst(x, j) \in Parsers /\ EmitFirst(x, j).thinking = x.thinking
        /\ EmitFirst(x, j).inCall = x.inCall
        /\ Upto(o, v, sr, EmitFirst(x, j), n + j)
  <2> TAKE j \in 0..Len(t)
  <2>1. j \in 0..Len(x.pending)
    BY <1>1 DEF Is
  <2> QED
    BY <2>1, UptoMore, EmitFirstIs DEF Upto, Is
<1>10. ASSUME NEW j \in 0..Len(t), NEW e \in Parsers, Is(e, EmitFirst(x, j)),
              \A i \in 1..j : ~Stands(t, Open, i)
       PROVE  /\ Upto(o, v, sr, e, n + j) /\ Speaks(o, v, e, n + j)
              /\ ~e.inCall
  <2>1. Upto(o, v, sr, e, n + j) /\ ~e.inCall /\ ~e.thinking
    BY <1>7, <1>9, <1>10 DEF Is
  <2>2. j \in Nat /\ \A i \in 1..j : ~Stands(Drop(v, n), Open, i)
    BY <1>1, <1>10 DEF Is
  <2>3. Lacks(v, Open, c, n + j)
    BY <1>4, <1>6, <1>7, <1>8, <2>2, LacksMore
  <2>4. c <= n + j
    BY <1>4, <1>7, <1>8, <2>2
  <2> QED
    BY <1>2, <1>7, <2>1, <2>3, <2>4 DEF Speaks, Is
<1>11. CASE at > 0 /\ Stands(t, Open, at)
  <2>1. at - 1 \in 0..Len(t) /\ d \in AnyText /\ q = Enters(EmitFirst(x, at - 1), d)
    BY <1>3, <1>11
  <2>2. PICK j \in 0..Len(t) : j = at - 1
    BY <2>1
  <2>3. PICK e \in Parsers : Is(e, EmitFirst(x, j))
    BY <1>9 DEF Is
  <2>4. \A i \in 1..j : ~Stands(t, Open, i)
    BY <1>5, <1>6, <1>11, <2>2
  <2>5. Upto(o, v, sr, e, n + j) /\ Speaks(o, v, e, n + j)
    BY <1>10, <2>3, <2>4
  <2>6. q = Enters(e, d)
    BY <2>1, <2>2, <2>3 DEF Is
  <2>7. q.inCall /\ q.events = e.events /\ q.thinking = e.thinking
    <3>1. d \in AnyText
      BY <2>1
    <3> QED
      BY <2>6, <3>1, EntersIs
  <2>8. Upto(o, v, sr, q, n + j) /\ Speaks(o, v, q, n + j)
    BY <2>5, <2>7 DEF Upto, Speaks
  <2> QED
    BY <2>8 DEF Clean
<1>12. CASE at > 0 /\ ~Stands(t, Open, at)
  <2>1. at \in 1..Len(t) /\ Stands(t, Think, at) /\ at \in Nat \ {0}
    BY <1>5, <1>12 DEF Starts
  <2>2. Stands(v, Think, n + at)
    BY <1>1, <1>4, <1>6, <2>1, StandsBehind DEF Is
  <2>3. n + at \in 1..Len(v) /\ 0 < n + at
    BY <1>4, <2>1
  <2> QED
    BY <2>2, <2>3 DEF Lacks
<1>13. CASE ~(at > 0)
  <2>1. CASE q = Fail(x)
    BY <2>1, FailIs DEF Clean
  <2>2. CASE \E j \in 0..Len(t) : q = EmitFirst(x, j)
    <3>1. PICK j \in 0..Len(t) : q = EmitFirst(x, j)
      BY <2>2
    <3>2. \A i \in 1..j : ~Stands(t, Open, i)
      <4>1. at = 0 /\ \A i \in 1..j : i \in 1..Len(t)
        BY <1>5, <1>13
      <4> QED
        BY <1>5, <1>6, <4>1
    <3>3. Upto(o, v, sr, q, n + j) /\ Speaks(o, v, q, n + j)
      BY <1>10, <3>1, <3>2 DEF Is
    <3> QED
      BY <3>3 DEF Clean
  <2> QED
    BY <1>3, <1>13, <2>1, <2>2
<1> QED
  BY <1>11, <1>12, <1>13

\* Every turn.
LEMMA CleanTurn ==
  ASSUME NEW o \in Options, NEW v \in AnyText, Lacks(v, Think, 0, Len(v)),
         NEW sr, Ready(sr), NEW x \in Clean(o, v, sr), NEW fin \in BOOLEAN
  PROVE  DrainTurn(o, x, fin) \in Clean(o, v, sr)
<1>0. x \in Parsers /\ x.failed \in BOOLEAN /\ x.inCall \in BOOLEAN /\ x.thinking \in BOOLEAN
  BY PartsOf DEF Clean
<1>1. PICK q \in Parsers : Is(q, DrainTurn(o, x, fin))
  BY <1>0, TurnType DEF Is
<1>2. CASE x.failed \/ x.calls # 0
  <2>1. x \in Spent /\ Spent \in SUBSET Parsers
    BY <1>0, <1>2 DEF Spent
  <2>2. DrainTurn(o, x, fin) \in Spent
    BY <2>1, SpentKept, TurnStays
  <2> QED
    BY <2>2 DEF Spent, Clean
<1>3. CASE ~x.failed /\ x.calls = 0
  <2>1. PICK n : Upto(o, v, sr, x, n) /\ (Muses(o, v, x, n) \/ Speaks(o, v, x, n))
    BY <1>3 DEF Clean
  <2>2. CASE x.inCall
    <3>1. Is(q, CallTurn(o, x, fin))
      BY <1>0, <1>1, <1>3, <2>2, TurnIs DEF Is
    <3>2. q \in Clean(o, v, sr)
      BY <1>3, <3>1, CleanCall
    <3> QED
      BY <1>1, <3>2 DEF Is
  <2>3. CASE ~x.inCall /\ x.thinking
    <3>1. Is(q, ThinkTurn(x, fin))
      BY <1>0, <1>1, <1>3, <2>3, TurnIs DEF Is
    <3>2. Muses(o, v, x, n)
      BY <2>1, <2>3 DEF Speaks
    <3>3. q \in Clean(o, v, sr)
      BY <1>0, <2>1, <3>1, <3>2, CleanThink
    <3> QED
      BY <1>1, <3>3 DEF Is
  <2>4. CASE ~x.inCall /\ ~x.thinking
    <3>1. Is(q, TextTurn(x, fin))
      BY <1>0, <1>1, <1>3, <2>4, TurnIs DEF Is
    <3>2. Speaks(o, v, x, n)
      BY <2>1, <2>4 DEF Muses
    <3>3. q \in Clean(o, v, sr)
      BY <1>0, <2>1, <2>4, <3>1, <3>2, CleanText
    <3> QED
      BY <1>1, <3>3 DEF Is
  <2> QED
    BY <1>0, <2>2, <2>3, <2>4
<1> QED
  BY <1>2, <1>3

\* What was read is, and the whole answer.
LEMMA ReadClean ==
  ASSUME NEW o \in Options, o.tools, NEW v \in AnyText, Lacks(v, Think, 0, Len(v))
  PROVE  Read(o, v) \in Clean(o, v, NewStage(o))
<1>0. PICK no \in BOOLEAN : no = FALSE
  OBVIOUS
<1>1. PICK x \in Parsers :
           /\ Read(o, v) = Drain(o, x, FALSE)
           /\ x.events = <<>> /\ x.pending = v /\ x.thinking = o.thinking
           /\ x.inCall = FALSE /\ x.calls = 0 /\ x.failed = FALSE
  BY ReadIs
<1>2. PICK sr : Is(sr, NewStage(o)) /\ Ready(sr)
  BY NewStageReady DEF Is
<1>3. Take(v, 0) = <<>> /\ Drop(v, 0) = v /\ 0 \in 0..Len(v)
  BY CutNothing DEF AnyText
<1>4. Upto(o, v, sr, x, 0)
  <2>1. Route(sr, <<>>) = sr /\ SplitText(sr, <<>>) = sr
    BY <1>2, RouteNothing, SplitNothing
  <2> QED
    BY <1>1, <1>2, <1>3, <2>1 DEF Upto, Is
<1>5. Muses(o, v, x, 0) \/ Speaks(o, v, x, 0)
  BY <1>1 DEF Muses, Speaks, Lacks, Mused
<1>6. x \in Clean(o, v, sr)
  BY <1>4, <1>5 DEF Clean
<1>7. Drain(o, x, no) \in Clean(o, v, sr)
  <2>1. \A y \in Clean(o, v, sr) : DrainTurn(o, y, no) \in Clean(o, v, sr)
    BY <1>2, CleanTurn
  <2> HIDE DEF Clean
  <2> QED
    BY <1>6, <2>1, DrainKeeps
<1> QED
  BY <1>0, <1>1, <1>2, <1>7 DEF Is

\* The end goes on from what was read.
LEMMA EndClean ==
  ASSUME NEW o \in Options, o.tools, NEW v \in AnyText, Lacks(v, Think, 0, Len(v)),
         ~Read(o, v).failed, ~ReadEnd(o, v).failed
  PROVE  ReadEnd(o, v) \in Clean(o, v, ReadStage(o, v))
<1>0. PICK yes \in BOOLEAN : yes = TRUE
  OBVIOUS
<1>1. PICK x \in Parsers, q \in Parsers :
           /\ Is(x, Quiet(Read(o, v))) /\ x.events = <<>> /\ Is(q, Drain(o, x, TRUE))
           /\ o.required /\ q.calls = 0 => ReadEnd(o, v) = Fail(q)
           /\ ~(o.required /\ q.calls = 0) => ReadEnd(o, v) = q
  BY EndIs
<1>2. PICK sr : Is(sr, ReadStage(o, v)) /\ Ready(sr)
  BY ReadIsReady DEF Is
<1>3. x \in Clean(o, v, sr)
  <2>1. PICK r \in Parsers : Is(r, Read(o, v)) /\ r \in Clean(o, v, NewStage(o))
    BY ReadClean DEF Clean, Is
  <2>2. /\ x.calls = r.calls /\ x.failed = r.failed /\ x.pending = r.pending
        /\ x.inCall = r.inCall /\ x.thinking = r.thinking
    BY <1>1, <2>1, QuietIs DEF Is
  <2>3. sr = Route(NewStage(o), r.events)
    BY <1>2, <2>1 DEF ReadStage, Is
  <2>4. Route(sr, x.events) = sr
    BY <1>1, <1>2, RouteNothing
  <2>5. ASSUME ~x.failed, x.calls = 0
        PROVE  \E n : Upto(o, v, sr, x, n) /\ (Muses(o, v, x, n) \/ Speaks(o, v, x, n))
    <3>1. PICK n : /\ Upto(o, v, NewStage(o), r, n)
                   /\ Muses(o, v, r, n) \/ Speaks(o, v, r, n)
      BY <2>1, <2>2, <2>5 DEF Clean
    <3>2. Upto(o, v, sr, x, n)
      BY <2>2, <2>3, <2>4, <3>1 DEF Upto
    <3>3. Muses(o, v, x, n) \/ Speaks(o, v, x, n)
      BY <2>2, <3>1 DEF Muses, Speaks
    <3> QED
      BY <3>2, <3>3
  <2> QED
    BY <2>5 DEF Clean
<1>4. Drain(o, x, yes) \in Clean(o, v, sr)
  <2>1. \A y \in Clean(o, v, sr) : DrainTurn(o, y, yes) \in Clean(o, v, sr)
    BY <1>2, CleanTurn
  <2> HIDE DEF Clean
  <2> QED
    BY <1>3, <2>1, DrainKeeps
<1>5. Fail(q).failed
  BY FailIs
<1>6. ReadEnd(o, v) = q
  BY <1>1, <1>5
<1> QED
  BY <1>0, <1>1, <1>2, <1>4, <1>6 DEF Is

\* What no place holds.
LEMMA NoneStands ==
  ASSUME NEW t \in AnyText, NEW M,
         \A i \in Nat \ {0} : \A m \in M : ~Stands(t, m, i)
  PROVE  ~HasAny(t, M)
<1>1. \A i \in 1..Len(t) : i \in Nat \ {0}
  BY DEF AnyText
<1> QED
  BY <1>1 DEF HasAny, Places

\* A marker that stands in the beginning of a text stands in the text, and ends
\* before the beginning does.
LEMMA StandsBefore ==
  ASSUME NEW v \in AnyText, NEW n \in 0..Len(v), NEW m \in AnyText, Len(m) # 0,
         NEW i \in Nat \ {0}
  PROVE  /\ Stands(Take(v, n), m, i) <=> Stands(v, m, i) /\ i + Len(m) <= n + 1
         /\ Stands(Take(v, n), m, i) => i \in 1..n
<1>1. Stands(Take(v, n), m, i) <=> Stands(v, m, i) /\ i + Len(m) <= n + 1
  BY StandsInTake DEF AnyText
<1>2. Len(m) \in Nat \ {0} /\ n \in Nat
  BY DEF AnyText
<1> QED
  BY <1>1, <1>2

\* A text without calls shows no marker of one.
LEMMA SpeaksClean ==
  ASSUME NEW o \in Options, NEW v \in AnyText, NEW x, NEW n \in 0..Len(v),
         Muses(o, v, x, n) \/ Speaks(o, v, x, n)
  PROVE  ~HasAny(SplitFlush(SplitText(NewStage(o), Take(v, n))).reply.content, {Open})
<1>1. PICK w \in AnyText : Is(w, Take(v, n)) /\ Len(w) = n
  BY CutParts DEF Is
<1>2. n \in Nat /\ Len(v) \in Nat
  BY DEF AnyText
<1>3. PICK hit, c, fl :
        /\ Is(hit, Find(w, {ThinkEnd})) /\ Is(c, hit + Len(ThinkEnd) - 1)
        /\ Is(fl, SplitFlush(SplitText(NewStage(o), w)).reply)
  BY DEF Is
<1>4. o.thinking \in BOOLEAN
  BY StopsOf
<1>5. /\ ~o.thinking => fl.content = w
      /\ o.thinking /\ hit = 0 => fl.content = <<>>
      /\ o.thinking /\ hit # 0 => fl.content = Drop(w, c)
  BY <1>1, <1>3, <1>4, PlainSays DEF NewStage, Is
<1>6. /\ Open \in AnyText /\ Len(Open) # 0 /\ ThinkEnd \in AnyText /\ Len(ThinkEnd) \in Nat \ {0}
      /\ {ThinkEnd} \in AnyMarkers
  BY MarkersAre
<1>7. \A i \in Nat \ {0} :
        /\ Stands(w, Open, i) => Stands(v, Open, i) /\ i \in 1..n
        /\ Stands(w, ThinkEnd, i) <=> Stands(v, ThinkEnd, i) /\ i + Len(ThinkEnd) <= n + 1
        /\ Stands(w, ThinkEnd, i) => i \in 1..n
  BY <1>1, <1>6, StandsBefore DEF Is
<1>8. CASE ~o.thinking
  <2>1. Lacks(v, Open, 0, n)
    BY <1>8 DEF Muses, Speaks, Mused
  <2>2. \A i \in Nat \ {0} : ~Stands(w, Open, i)
    BY <1>7, <2>1 DEF Lacks
  <2>3. ~HasAny(w, {Open})
    BY <2>2, NoneStands
  <2> QED
    BY <1>1, <1>3, <1>5, <1>8, <2>3 DEF Is
<1>9. CASE o.thinking /\ hit = 0
  <2>1. ~HasAny(<<>>, {Open})
    <3>1. Len(<<>>) = 0
      BY EmptySeq
    <3> QED
      BY <3>1 DEF HasAny, Places
  <2> QED
    BY <1>1, <1>3, <1>5, <1>9, <2>1 DEF Is
<1>10. CASE o.thinking /\ hit # 0
  <2>1. hit \in 1..Len(w) /\ Stands(w, ThinkEnd, hit) /\ hit \in Nat \ {0}
        /\ \A i \in 1..(hit - 1) : ~Stands(w, ThinkEnd, i)
    <3>1. /\ hit \in Nat
          /\ hit # 0 => /\ hit \in 1..Len(w) /\ \E m \in {ThinkEnd} : Stands(w, m, hit)
                        /\ \A i \in 1..(hit - 1) : \A m \in {ThinkEnd} : ~Stands(w, m, i)
      BY <1>3, <1>6, FirstOf
    <3> QED
      BY <1>10, <3>1
  <2>2. Stands(v, ThinkEnd, hit) /\ hit \in 1..n /\ hit + Len(ThinkEnd) <= n + 1
    BY <1>7, <2>1
  <2>3. Speaks(o, v, x, n)
    <3>1. 0 < hit
      BY <2>1
    <3> QED
      BY <2>2, <3>1 DEF Muses, Lacks
  <2>4. PICK h : Is(h, Find(v, {ThinkEnd}))
    BY DEF Is
  <2>5. h \in 1..Len(v) /\ Stands(v, ThinkEnd, h) /\ h \in Nat \ {0}
        /\ \A i \in 1..(h - 1) : ~Stands(v, ThinkEnd, i)
    <3>1. /\ h \in Nat
          /\ h # 0 => /\ h \in 1..Len(v) /\ \E m \in {ThinkEnd} : Stands(v, m, h)
                      /\ \A i \in 1..(h - 1) : \A m \in {ThinkEnd} : ~Stands(v, m, i)
      BY <1>6, <2>4, FirstOf
    <3>2. h > 0
      BY <1>10, <2>3, <2>4 DEF Speaks, Is
    <3> QED
      BY <3>1, <3>2
  <2>6. Mused(o, v) = h + Len(ThinkEnd) - 1 /\ Mused(o, v) <= n
    BY <1>10, <2>3, <2>4 DEF Mused, Speaks, Is
  <2>7. Stands(w, ThinkEnd, h)
    <3>1. h + Len(ThinkEnd) <= n + 1
      BY <1>2, <1>6, <2>5, <2>6
    <3> QED
      BY <1>7, <2>5, <3>1
  <2>8. h = hit
    <3>1. ~(h < hit)
      <4>1. h < hit => h \in 1..(hit - 1)
        BY <2>1, <2>5
      <4> QED
        BY <2>1, <2>7, <4>1
    <3>2. ~(hit < h)
      <4>1. hit < h => hit \in 1..(h - 1)
        BY <2>1, <2>5
      <4> QED
        BY <2>2, <2>5, <4>1
    <3> QED
      BY <2>1, <2>5, <3>1, <3>2
  <2>9. PICK m \in Nat : Is(m, c) /\ Is(m, Mused(o, v)) /\ m \in 0..Len(w)
    <3>1. c = h + Len(ThinkEnd) - 1
      BY <1>3, <2>8 DEF Is
    <3>2. h + Len(ThinkEnd) - 1 \in Nat
      BY <1>6, <2>5
    <3>3. c \in Nat /\ c = Mused(o, v) /\ c <= n
      BY <2>6, <3>1, <3>2
    <3> QED
      BY <1>1, <1>2, <3>3 DEF Is
  <2>10. \A i \in Nat \ {0} : ~Stands(Drop(w, m), Open, i)
    <3> SUFFICES ASSUME NEW i \in Nat \ {0}, Stands(Drop(w, m), Open, i) PROVE FALSE
      OBVIOUS
    <3>1. Stands(w, Open, m + i) /\ m + i \in Nat \ {0} /\ m < m + i
      BY <1>6, <2>9, StandsBehind
    <3>2. Stands(v, Open, m + i) /\ m + i \in 1..n
      BY <1>7, <3>1
    <3>3. Lacks(v, Open, m, n)
      BY <2>3, <2>9 DEF Speaks, Is
    <3> QED
      BY <3>1, <3>2, <3>3 DEF Lacks
  <2>11. ~HasAny(Drop(w, m), {Open})
    <3>1. Drop(w, m) \in AnyText
      BY <2>9, CutParts
    <3> QED
      BY <2>10, <3>1, NoneStands
  <2>12. fl.content = Drop(w, m)
    BY <1>5, <1>10, <2>9 DEF Is
  <2> QED
    BY <1>1, <1>3, <2>11, <2>12 DEF Is
<1> QED
  BY <1>4, <1>8, <1>9, <1>10

\* Neither does the reply as it is before the splitter is flushed.
LEMMA CleanMeans ==
  ASSUME NEW o \in Options, NEW v \in AnyText, NEW sr, Ready(sr), NEW x \in Clean(o, v, sr),
         ~x.failed, x.calls = 0
  PROVE  /\ ~HasAny(Route(sr, x.events).reply.content, {Open})
         /\ ~HasAny(SplitFlush(Route(sr, x.events)).reply.content, {Open})
<1>1. PICK n : Upto(o, v, sr, x, n) /\ (Muses(o, v, x, n) \/ Speaks(o, v, x, n))
  BY DEF Clean
<1>2. n \in 0..Len(v) /\ Route(sr, x.events) = SplitText(NewStage(o), Take(v, n))
  BY <1>1 DEF Upto
<1>3. ~HasAny(SplitFlush(Route(sr, x.events)).reply.content, {Open})
  BY <1>1, <1>2, SpeaksClean
<1>4. PICK to \in Stages : Is(to, Route(sr, x.events)) /\ Ready(to)
  <2>1. x.events \in Seq(Events)
    BY PartsOf DEF Clean
  <2> QED
    BY <2>1, RouteReady DEF Ready, Is
<1>5. SplitFlush(to).reply.content = to.reply.content
  <2>1. to.splitter.thinking \in BOOLEAN /\ to.reply.content \in AnyText
    BY DEF Stages
  <2>2. CASE to.splitter.thinking
    BY <2>2, FlushSays
  <2>3. CASE ~to.splitter.thinking
    <3>1. to.splitter.pending = <<>>
      BY <1>4, <2>3 DEF Ready
    <3>2. SplitFlush(to).reply.content = to.reply.content \o to.splitter.pending
      BY <2>3, FlushSays
    <3> QED
      BY <2>1, <3>1, <3>2, JoinNothing
  <2> QED
    BY <2>1, <2>2, <2>3
<1> QED
  BY <1>3, <1>4, <1>5 DEF Is

----------------------------------------------------------------------------
\* Closing markers that are data end no call.

\* What is cut off a text, symbol by symbol.
LEMMA CutSymbols ==
  ASSUME NEW t \in AnyText, NEW n \in 0..Len(t)
  PROVE  /\ \E a \in AnyText : /\ Is(a, Take(t, n)) /\ Len(a) = n
                               /\ \A i \in 1..n : a[i] = t[i]
         /\ \E d \in AnyText : /\ Is(d, Drop(t, n)) /\ Len(d) = Len(t) - n
                               /\ \A i \in 1..(Len(t) - n) : d[i] = t[n + i]
<1>1. Take(t, n) \in AnyText /\ Len(Take(t, n)) = n /\ \A i \in 1..n : Take(t, n)[i] = t[i]
  BY TakeIs DEF AnyText
<1>2. /\ Drop(t, n) \in AnyText /\ Len(Drop(t, n)) = Len(t) - n
      /\ \A i \in 1..(Len(t) - n) : Drop(t, n)[i] = t[n + i]
  BY DropIs DEF AnyText
<1> QED
  BY <1>1, <1>2 DEF Is

\* The beginning of what is left is what is left of the beginning.
LEMMA CutBoth ==
  ASSUME NEW t \in AnyText, NEW n \in 0..Len(t), NEW k \in 0..n
  PROVE  /\ k \in 0..Len(t) /\ n - k \in 0..Len(Drop(t, k))
         /\ Drop(Take(t, n), k) = Take(Drop(t, k), n - k)
<1>1. Len(t) \in Nat /\ n \in Nat /\ k \in Nat /\ n - k \in Nat /\ k \in 0..Len(t)
      /\ n - k <= Len(t) - k
  BY DEF AnyText
<1>2. PICK a \in AnyText : /\ Is(a, Take(t, n)) /\ Len(a) = n
                          /\ \A i \in 1..n : a[i] = t[i]
  BY CutSymbols
<1>3. PICK d \in AnyText : /\ Is(d, Drop(t, k)) /\ Len(d) = Len(t) - k
                          /\ \A i \in 1..(Len(t) - k) : d[i] = t[k + i]
  BY <1>1, CutSymbols
<1>4. PICK x \in AnyText : /\ Is(x, Drop(a, k)) /\ Len(x) = n - k
                          /\ \A i \in 1..(n - k) : x[i] = a[k + i]
  <2>1. k \in 0..Len(a)
    BY <1>2
  <2>2. PICK x \in AnyText : /\ Is(x, Drop(a, k)) /\ Len(x) = Len(a) - k
                            /\ \A i \in 1..(Len(a) - k) : x[i] = a[k + i]
    BY <2>1, CutSymbols
  <2> QED
    BY <1>2, <2>2
<1>5. n - k \in 0..Len(d)
  BY <1>1, <1>3
<1>6. PICK y \in AnyText : /\ Is(y, Take(d, n - k)) /\ Len(y) = n - k
                          /\ \A i \in 1..(n - k) : y[i] = d[i]
  BY <1>5, CutSymbols
<1>7. ASSUME NEW i \in 1..(n - k) PROVE x[i] = y[i]
  <2>1. k + i \in 1..n /\ i \in 1..(Len(t) - k)
    BY <1>1
  <2>2. x[i] = t[k + i]
    BY <1>2, <1>4, <2>1
  <2>3. y[i] = t[k + i]
    BY <1>3, <1>6, <2>1
  <2> QED
    BY <2>2, <2>3
<1>8. x = y
  <2>1. x \in Seq(Alphabet) /\ y \in Seq(Alphabet) /\ Len(x) = Len(y) /\ Len(y) = n - k
    BY <1>4, <1>6 DEF AnyText
  <2> QED
    BY <1>7, <2>1, SeqEqual
<1>9. Drop(Take(t, n), k) = Take(Drop(t, k), n - k)
  BY <1>2, <1>3, <1>4, <1>6, <1>8 DEF Is
<1>10. n - k \in 0..Len(Drop(t, k))
  BY <1>3, <1>5 DEF Is
<1> QED
  BY <1>1, <1>9, <1>10

\* Closing markers that are data, all of them.
Quoted(b) == \A i \in Places(b, {Close}) : InData(Take(b, i - 1))

\* They do not end the call, whatever of it was read.
LEMMA QuotedStays ==
  ASSUME NEW b \in AnyText, Quoted(b), NEW k \in 0..Len(b)
  PROVE  CallEnd(Take(b, k)) = 0
<1>1. PICK t \in AnyText : Is(t, Take(b, k)) /\ Len(t) = k
  BY CutParts DEF Is
<1>2. PICK e : Is(e, CallEnd(t)) /\ e \in 0..Len(t)
  BY CallEndStays, JoinNothing DEF Is
<1> SUFFICES ASSUME e # 0 PROVE FALSE
  BY <1>1, <1>2 DEF Is
<1>3. Len(b) \in Nat /\ k \in Nat /\ e \in Nat \ {0} /\ e <= k /\ CallEnd(t) > 0
  BY <1>1, <1>2 DEF AnyText, Is
<1>4. Stands(t, Close, e)
  BY <1>2, <1>3, CallEndStays, JoinNothing DEF Is
<1>5. ~InData(Take(t, e - 1))
  <2>1. Take(t, CallEnd(t) - 1) \in BeforeEnd(t)
    BY <1>3, CallEndStays, JoinNothing
  <2>2. PICK n \in 0..Len(t) : Is(n, e - 1) /\ Is(n, CallEnd(t) - 1)
    <3>1. e - 1 \in 0..Len(t)
      BY <1>1, <1>3
    <3> QED
      BY <1>2, <3>1 DEF Is
  <2>3. ~InData(Take(t, n))
    BY <2>1, <2>2, EndIsOutside DEF Is
  <2> QED
    BY <2>2, <2>3 DEF Is
<1>6. Stands(b, Close, e)
  <2>1. Stands(Take(b, k), Close, e)
    BY <1>1, <1>4 DEF Is
  <2> QED
    BY <1>3, <2>1, MarkersAre, StandsBefore
<1>7. e \in Places(b, {Close})
  <2>1. e \in 1..Len(b)
    BY <1>3
  <2> QED
    BY <1>6, <2>1 DEF Places
<1>8. Take(t, e - 1) = Take(b, e - 1)
  <2>1. PICK n \in Nat : n = e - 1 /\ n \in 0..k /\ n \in 0..Len(b)
    BY <1>3
  <2>2. PICK x \in AnyText : Is(x, Take(b, n)) /\ Len(x) = n /\ \A i \in 1..n : x[i] = b[i]
    BY <2>1, CutSymbols
  <2>3. PICK y \in AnyText : Is(y, Take(t, n)) /\ Len(y) = n /\ \A i \in 1..n : y[i] = t[i]
    <3>1. n \in 0..Len(t)
      BY <1>1, <2>1
    <3> QED
      BY <3>1, CutSymbols
  <2>4. \A i \in 1..k : t[i] = b[i]
    BY <1>1, CutSymbols DEF Is
  <2>5. ASSUME NEW i \in 1..n PROVE x[i] = y[i]
    <3>1. i \in 1..k
      BY <1>3, <2>1
    <3> QED
      BY <2>2, <2>3, <2>4, <3>1
  <2>6. x = y
    <3>1. x \in Seq(Alphabet) /\ y \in Seq(Alphabet) /\ Len(x) = Len(y) /\ Len(y) = n
      BY <2>2, <2>3 DEF AnyText
    <3> QED
      BY <2>5, <3>1, SeqEqual
  <2> QED
    BY <2>1, <2>2, <2>3, <2>6 DEF Is
<1> QED
  BY <1>5, <1>7, <1>8 DEF Quoted

\* No marker stands in the beginning of the opening one.
LEMMA NoneInOpening ==
  ASSUME NEW w \in AnyText, Stands(w, Open, 1), NEW n \in 0..Len(w), n < Len(Open),
         NEW i \in Nat \ {0}
  PROVE  ~Stands(Take(w, n), Open, i) /\ ~Stands(Take(w, n), Think, i)
<1>1. /\ Open \in AnyText /\ Think \in AnyText /\ Len(Open) \in Nat \ {0}
      /\ Len(Think) \in Nat \ {0} /\ Apart({Open, Think})
      /\ n \in Nat /\ Len(w) \in Nat
  BY MarkersAre DEF AnyText
<1>2. ~Stands(Take(w, n), Open, i)
  <2>1. Stands(Take(w, n), Open, i) => i + Len(Open) <= n + 1
    BY <1>1, StandsBefore
  <2> QED
    BY <1>1, <2>1
<1>3. ASSUME Stands(Take(w, n), Think, i) PROVE FALSE
  <2>1. Stands(w, Think, i) /\ i + Len(Think) <= n + 1
    BY <1>1, <1>3, StandsBefore
  <2>2. Len(Open) \in 0..Len(w) /\ Take(w, Len(Open)) = Open
    <3>1. 1 + Len(Open) - 1 <= Len(w) /\ SubSeq(w, 1, 1 + Len(Open) - 1) = Open
      BY DEF Stands
    <3>2. 1 + Len(Open) - 1 = Len(Open)
      BY <1>1
    <3> QED
      BY <1>1, <3>1, <3>2 DEF Take
  <2>3. Stands(Open, Think, i)
    <3>1. Stands(Take(w, Len(Open)), Think, i) <=> Stands(w, Think, i) /\ i + Len(Think) <= Len(Open) + 1
      BY <1>1, <2>2, StandsBefore
    <3>2. i + Len(Think) <= Len(Open) + 1
      BY <1>1, <2>1
    <3> QED
      BY <2>1, <2>2, <3>1, <3>2
  <2>4. i # 1
    BY <2>3, MarkersAssumption
  <2>5. i \in 2..Len(Open)
    BY <1>1, <2>1, <2>4
  <2> QED
    BY <1>1, <2>3, <2>5 DEF Apart
<1> QED
  BY <1>2, <1>3

\* A text without an opening marker is given out, but for what may become one.
LEMMA BareReads ==
  ASSUME NEW o \in Options, o.tools, ~o.thinking, NEW u \in AnyText,
         \A i \in Nat \ {0} : ~Stands(u, Open, i) /\ ~Stands(u, Think, i)
  PROVE  ~Read(o, u).failed /\ Read(o, u).calls = 0
<1> DEFINE Q == {x \in Parsers :
                   /\ ~x.failed /\ x.calls = 0 /\ ~x.inCall /\ ~x.thinking
                   /\ \A i \in Nat \ {0} :
                        ~Stands(x.pending, Open, i) /\ ~Stands(x.pending, Think, i)}
<1>0. PICK no \in BOOLEAN : no = FALSE
  OBVIOUS
<1>1. PICK x \in Parsers :
           /\ Read(o, u) = Drain(o, x, FALSE)
           /\ x.events = <<>> /\ x.pending = u /\ x.thinking = o.thinking
           /\ x.inCall = FALSE /\ x.calls = 0 /\ x.failed = FALSE
  BY ReadIs
<1>2. x \in Q
  BY <1>1
<1>3. ASSUME NEW y \in Q PROVE DrainTurn(o, y, no) \in Q
  <2>1. /\ y \in Parsers /\ ~y.failed /\ y.calls = 0 /\ ~y.inCall /\ ~y.thinking
        /\ \A i \in Nat \ {0} : ~Stands(y.pending, Open, i) /\ ~Stands(y.pending, Think, i)
    OBVIOUS
  <2>2. PICK t \in AnyText : Is(t, y.pending)
    BY <2>1, PartsOf DEF Is
  <2>3. PICK at, keep : Is(at, Find(t, {Open, Think})) /\ Is(keep, Len(t) - Held(t, {Open, Think}))
    BY DEF Is
  <2>4. at = 0
    <3>1. at \in Nat /\ (at # 0 => at \in 1..Len(t) /\ \E m \in {Open, Think} : Stands(t, m, at))
      BY <2>3, MarkersAre, FirstOf
    <3>2. at # 0 => at \in Nat \ {0}
      BY <3>1
    <3> QED
      BY <2>1, <2>2, <3>1, <3>2 DEF Is
  <2>5. keep \in 0..Len(t) /\ TextTurn(y, no) = EmitFirst(y, keep)
    <3>1. LET a  == Find(y.pending, {Open, Think})
              kp == Len(y.pending) - Held(y.pending, {Open, Think})
          IN  /\ kp \in 0..Len(y.pending)
              /\ ~(a > 0) /\ ~no => TextTurn(y, no) = EmitFirst(y, kp)
      BY <2>1, TextTurnIs
    <3> QED
      BY <1>0, <2>2, <2>3, <2>4, <3>1 DEF Is
  <2>6. PICK e \in Parsers :
          /\ Is(e, EmitFirst(y, keep)) /\ Is(e.pending, Drop(t, keep))
          /\ ~e.failed /\ e.calls = 0 /\ ~e.inCall /\ ~e.thinking
    BY <2>1, <2>2, <2>5, EmitFirstIs DEF Is
  <2>7. ASSUME NEW i \in Nat \ {0}
        PROVE  ~Stands(e.pending, Open, i) /\ ~Stands(e.pending, Think, i)
    <3>1. keep + i \in Nat \ {0}
      BY <2>5 DEF AnyText
    <3>2. Stands(Drop(t, keep), Open, i) <=> Stands(t, Open, keep + i)
      BY <2>5, MarkersAre, StandsBehind
    <3>3. Stands(Drop(t, keep), Think, i) <=> Stands(t, Think, keep + i)
      BY <2>5, MarkersAre, StandsBehind
    <3> QED
      BY <2>1, <2>2, <2>6, <3>1, <3>2, <3>3 DEF Is
  <2>8. e \in Q
    BY <2>6, <2>7
  <2>9. DrainTurn(o, y, no) = e
    BY <2>1, <2>5, <2>6, TurnIs DEF Is
  <2> QED
    BY <2>8, <2>9
<1>4. Drain(o, x, no) \in Q
  <2> HIDE DEF Q
  <2> QED
    BY <1>2, <1>3, DrainKeeps
<1> QED
  BY <1>0, <1>1, <1>4

\* A text that begins with an opening marker and has not ended the call is held.
LEMMA CallReads ==
  ASSUME NEW o \in Options, o.tools, ~o.thinking, NEW u \in AnyText, Stands(u, Open, 1),
         CallEnd(Drop(u, Len(Open))) = 0
  PROVE  ~Read(o, u).failed /\ Read(o, u).calls = 0
<1>1. Len(u) \in Nat /\ Len(Open) \in Nat \ {0} /\ Len(Open) <= Len(u) /\ Open \in AnyText
      /\ Len(Open) \in 0..Len(u)
  <2>1. Len(u) \in Nat /\ Len(Open) \in Nat \ {0} /\ Open \in AnyText
    BY MarkersAre DEF AnyText
  <2>2. 1 + Len(Open) - 1 <= Len(u)
    BY DEF Stands
  <2> QED
    BY <2>1, <2>2
<1>2. PICK b \in AnyText : Is(b, Drop(u, Len(Open))) /\ CallEnd(b) = 0
  BY <1>1, CutParts DEF Is
<1> DEFINE Q == {x \in Parsers :
                   /\ ~x.failed /\ x.calls = 0 /\ ~x.thinking
                   /\ IF x.inCall THEN x.pending = b ELSE x.pending = u}
<1>0. PICK no \in BOOLEAN : no = FALSE
  OBVIOUS
<1>3. PICK x \in Parsers :
           /\ Read(o, u) = Drain(o, x, FALSE)
           /\ x.events = <<>> /\ x.pending = u /\ x.thinking = o.thinking
           /\ x.inCall = FALSE /\ x.calls = 0 /\ x.failed = FALSE
  BY ReadIs
<1>4. x \in Q
  BY <1>3
<1>5. ASSUME NEW y \in Q PROVE DrainTurn(o, y, no) \in Q
  <2>1. /\ y \in Parsers /\ ~y.failed /\ y.calls = 0 /\ ~y.thinking
        /\ y.inCall => y.pending = b
        /\ ~y.inCall => y.pending = u
    OBVIOUS
  <2>2. CASE y.inCall
    <3>1. CallTurn(o, y, no) = y
      <4>1. LET e == CallEnd(y.pending) IN ~(e > 0) /\ ~no => CallTurn(o, y, no) = y
        BY <2>1, CallTurnIs
      <4> QED
        BY <1>0, <1>2, <2>1, <2>2, <4>1
    <3>2. DrainTurn(o, y, no) = y
      BY <2>1, <2>2, <3>1, TurnIs
    <3> QED
      BY <3>2
  <2>3. CASE ~y.inCall
    <3>1. Find(u, {Open, Think}) = 1
      <4>1. {Open, Think} \in SUBSET Seq(Alphabet) /\ 1 \in 1..Len(u)
        BY <1>1, MarkersAre DEF AnyText
      <4>2. \A j \in 1..(1 - 1) : \A k \in {Open, Think} : ~Stands(u, k, j)
        OBVIOUS
      <4> QED
        BY <4>1, <4>2, FoundAt DEF AnyText
    <3>2. TextTurn(y, no) = Enters(EmitFirst(y, 0), b)
      <4>1. LET a == Find(y.pending, {Open, Think})
            IN  a > 0 /\ Stands(y.pending, Open, a) =>
                  TextTurn(y, no) = Enters(EmitFirst(y, a - 1), Drop(y.pending, a + Len(Open) - 1))
        BY <2>1, TextTurnIs
      <4>2. TextTurn(y, no) = Enters(EmitFirst(y, 1 - 1), Drop(u, 1 + Len(Open) - 1))
        BY <2>1, <2>3, <3>1, <4>1
      <4>3. 1 - 1 = 0 /\ 1 + Len(Open) - 1 = Len(Open)
        BY <1>1
      <4> QED
        BY <1>2, <4>2, <4>3 DEF Is
    <3>3. PICK e \in Parsers : Is(e, EmitFirst(y, 0)) /\ ~e.failed /\ e.calls = 0 /\ ~e.thinking
      <4>1. 0 \in 0..Len(y.pending)
        BY <1>1, <2>1, <2>3
      <4> QED
        BY <2>1, <4>1, EmitFirstIs DEF Is
    <3>4. Enters(e, b) \in Q
      BY <3>3, EntersIs
    <3>5. DrainTurn(o, y, no) = Enters(e, b)
      BY <2>1, <2>3, <3>2, <3>3, TurnIs DEF Is
    <3> QED
      BY <3>4, <3>5
  <2> QED
    BY <2>2, <2>3
<1>6. Drain(o, x, no) \in Q
  <2> HIDE DEF Q
  <2> QED
    BY <1>4, <1>5, DrainKeeps
<1> QED
  BY <1>0, <1>3, <1>6

\* A text that begins a call whose closing markers are all data neither fails nor
\* gives a call out, however much of it was read.
LEMMA QuotedReads ==
  ASSUME NEW o \in Options, o.tools, ~o.thinking, NEW w \in AnyText, Stands(w, Open, 1),
         Quoted(Drop(w, Len(Open))), NEW n \in 0..Len(w), NEW u \in AnyText, Is(u, Take(w, n))
  PROVE  ~Read(o, u).failed /\ Read(o, u).calls = 0
<1>1. Len(w) \in Nat /\ Len(Open) \in Nat \ {0} /\ n \in Nat /\ Open \in AnyText
      /\ Len(Open) <= Len(w)
  <2>1. Len(w) \in Nat /\ Len(Open) \in Nat \ {0} /\ Open \in AnyText
    BY MarkersAre DEF AnyText
  <2>2. 1 + Len(Open) - 1 <= Len(w)
    BY DEF Stands
  <2> QED
    BY <2>1, <2>2
<1>2. CASE n < Len(Open)
  <2>1. \A i \in Nat \ {0} : ~Stands(u, Open, i) /\ ~Stands(u, Think, i)
    BY <1>2, NoneInOpening DEF Is
  <2> QED
    BY <2>1, BareReads
<1>3. CASE ~(n < Len(Open))
  <2>1. PICK k : Is(k, Len(Open)) /\ k \in 0..n /\ k \in 0..Len(w)
    BY <1>1, <1>3 DEF Is
  <2>2. n - k \in 0..Len(Drop(w, k)) /\ Drop(Take(w, n), k) = Take(Drop(w, k), n - k)
    BY <2>1, CutBoth
  <2>3. Drop(w, k) \in AnyText /\ Quoted(Drop(w, k))
    BY <2>1, CutParts DEF Is
  <2>4. CallEnd(Take(Drop(w, k), n - k)) = 0
    BY <2>2, <2>3, QuotedStays
  <2>5. CallEnd(Drop(u, Len(Open))) = 0
    BY <2>1, <2>2, <2>4 DEF Is
  <2>6. Stands(u, Open, 1)
    <3>1. Stands(Take(w, n), Open, 1) <=> Stands(w, Open, 1) /\ 1 + Len(Open) <= n + 1
      BY <1>1, StandsBefore
    <3>2. 1 + Len(Open) <= n + 1
      BY <1>1, <1>3
    <3> QED
      BY <3>1, <3>2 DEF Is
  <2> QED
    BY <2>5, <2>6, CallReads
<1> QED
  BY <1>2, <1>3

----------------------------------------------------------------------------
\* The reply of an answer that failed.

\* A loop that fails gives nothing out.
LEMMA FailsSilently ==
  ASSUME NEW o, NEW p \in Parsers, NEW fin \in BOOLEAN, p.events = <<>>
  PROVE  Drain(o, p, fin).failed => Drain(o, p, fin).events = <<>>
<1> DEFINE Q == {x \in Parsers : x.failed => x.events = <<>>}
<1>1. p \in Q
  OBVIOUS
<1>2. ASSUME NEW x \in Q PROVE DrainTurn(o, x, fin) \in Q
  <2>0. x \in Parsers /\ x.failed \in BOOLEAN /\ (x.failed => x.events = <<>>)
    BY PartsOf
  <2>1. PICK q \in Parsers : Is(q, DrainTurn(o, x, fin))
    BY <2>0, TurnType DEF Is
  <2>2. CASE x.failed
    <3>1. q = x
      BY <2>0, <2>1, <2>2, TurnIs DEF Is
    <3> QED
      BY <2>1, <3>1 DEF Is
  <2>3. CASE ~x.failed
    <3>1. TurnDoes(o, x, q)
      BY <2>0, <2>1, TurnDoesThat DEF Is
    <3>2. CASE q = x \/ q = Fail(x)
      BY <2>0, <2>1, <2>3, <3>2, FailIs DEF Is
    <3>3. CASE Emits(x, q)
      <4>1. PICK n \in 0..Len(x.pending) : q = EmitFirst(x, n)
        BY <3>3 DEF Emits
      <4>2. ~q.failed
        BY <2>0, <2>3, <4>1, EmitFirstIs
      <4> QED
        BY <2>1, <4>2 DEF Is
    <3>4. CASE Switches(x, q)
      <4>1. PICK n \in 0..Len(x.pending), b \in BOOLEAN : q = Thinks(EmitFirst(x, n), b)
        BY <3>4 DEF Switches
      <4>2. PICK e \in Parsers : Is(e, EmitFirst(x, n)) /\ ~e.failed
        BY <2>0, <2>3, EmitFirstIs DEF Is
      <4>3. ~q.failed
        BY <4>1, <4>2, ThinksIs DEF Is
      <4> QED
        BY <2>1, <4>3 DEF Is
    <3>5. CASE Opens(x, q)
      <4>1. PICK n \in 0..Len(x.pending), t \in AnyText : q = Enters(EmitFirst(x, n), t)
        BY <3>5 DEF Opens
      <4>2. PICK e \in Parsers : Is(e, EmitFirst(x, n)) /\ ~e.failed
        BY <2>0, <2>3, EmitFirstIs DEF Is
      <4>3. ~q.failed
        BY <4>1, <4>2, EntersIs DEF Is
      <4> QED
        BY <2>1, <4>3 DEF Is
    <3>6. CASE Gives(o, x, q)
      <4>1. PICK body \in AnyText, d \in AnyText :
              q = Ends(x, d, Append(x.events, CallEvent(body)))
        BY <3>6 DEF Gives
      <4>2. PICK e \in Seq(Events) : Is(e, Append(x.events, CallEvent(body)))
        BY <2>0, PartsOf, TextEventIs, AppendEvent DEF Is
      <4>3. Ends(x, d, e).failed = x.failed
        BY <2>0, EndsKeeps
      <4>4. ~q.failed
        BY <2>3, <4>1, <4>2, <4>3 DEF Is
      <4> QED
        BY <2>1, <4>4 DEF Is
    <3> QED
      BY <3>1, <3>2, <3>3, <3>4, <3>5, <3>6 DEF TurnDoes
  <2> QED
    BY <2>0, <2>2, <2>3
<1>3. Drain(o, p, fin) \in Q
  <2> HIDE DEF Q
  <2> QED
    BY <1>1, <1>2, DrainKeeps
<1> QED
  BY <1>3

\* Text that fails the answer gives nothing out,
LEMMA PushFails ==
  ASSUME NEW o \in Options, o.tools, NEW p \in Parsers, NEW x \in AnyText,
         ParserPush(o, p, x).failed
  PROVE  ParserPush(o, p, x).events = <<>>
<1>0. PICK no \in BOOLEAN : no = FALSE
  OBVIOUS
<1>1. PICK s \in Parsers : Is(s, Quiet(p)) /\ s.events = <<>>
  BY QuietIs DEF Is
<1>2. PICK y \in Parsers : Is(y, More(s, x)) /\ y.events = <<>>
  BY <1>1, MoreIs DEF Is
<1>3. ParserPush(o, p, x) = Drain(o, y, no)
  BY <1>0, <1>1, <1>2, PushIsDone DEF Done, Is
<1> QED
  BY <1>2, <1>3, FailsSilently

\* and so does an end that does.
LEMMA EndFails ==
  ASSUME NEW o \in Options, o.tools, NEW v \in AnyText, ReadEnd(o, v).failed
  PROVE  ReadEnd(o, v).events = <<>>
<1>0. PICK yes \in BOOLEAN : yes = TRUE
  OBVIOUS
<1>1. PICK x \in Parsers, q \in Parsers :
           /\ Is(x, Quiet(Read(o, v))) /\ x.events = <<>> /\ Is(q, Drain(o, x, TRUE))
           /\ o.required /\ q.calls = 0 => ReadEnd(o, v) = Fail(q)
           /\ ~(o.required /\ q.calls = 0) => ReadEnd(o, v) = q
  BY EndIs
<1>2. Fail(q).events = <<>>
  BY FailIs
<1>3. Drain(o, x, yes).failed => Drain(o, x, yes).events = <<>>
  BY <1>1, FailsSilently
<1>4. q.failed => q.events = <<>>
  BY <1>0, <1>1, <1>3 DEF Is
<1> QED
  BY <1>1, <1>2, <1>4

\* The reply of an answer that failed is what a first part of its text made.
FailsAs(o, v, r) ==
  \E y, z \in AnyText : v = y \o z /\ ~Read(o, y).failed /\ r = ReadStage(o, y).reply

\* A part that gives nothing out leaves the reply.
LEMMA SilentSorted ==
  ASSUME NEW sp, NEW r, NEW sr, Ready(sr), Is(sr, Stage(sp, r)), NEW q, q.events = <<>>
  PROVE  Sorted(sp, r, q).reply = r /\ Sorted(sp, r, q).splitter = sp
<1>1. Sorted(sp, r, q) = Stage(sp, r)
  BY RouteNothing DEF Sorted, Stage, Is
<1> QED
  BY <1>1 DEF Stage

\* More text, when it fails the answer.
LEMMA PushFailsAs ==
  ASSUME NEW o \in Options, o.tools, NEW s, NEW v, NEW rd, NEW x \in AnyText,
         StopHolds(o, s, v, rd), ~s.stopped, NEW p, NEW sp, NEW r, ReadsAs(o, v, p, sp, r)
  PROVE  LET st == DoPush(o, Whole(s, p, sp, r, v), x)
         IN  st.parser.failed => FailsAs(o, st.visible, st.reply)
<1> DEFINE f == StopPush(s, x)
           q == ParserPush(o, p, f.out)
           st == DoPush(o, Whole(s, p, sp, r, v), x)
<1>1. f.out \in AnyText /\ v \in AnyText
  <2>1. o.stops \in AnyMarkers
    BY StopsOf
  <2>2. f.out \in AnyText
    BY <2>1, StopPushKeeps
  <2> QED
    BY <2>2 DEF StopHolds
<1>2. PICK b \in AnyText : Is(b, f.out)
  BY <1>1 DEF Is
<1>3. p \in Parsers /\ Stage(sp, r) = ReadStage(o, v) /\ ~Read(o, v).failed
  <2>1. Read(o, v) \in Parsers
    BY <1>1, ReadMore, JoinNothing, JoinTexts DEF Is
  <2> QED
    BY <2>1, QuietIs DEF ReadsAs
<1>4. PICK g : Is(g, ParserPush(o, p, b)) /\ g \in Parsers /\ (g.failed => g.events = <<>>)
  <2>1. PICK w \in AnyText : Is(w, v \o b)
    BY <1>1, JoinTexts DEF Is
  <2>2. ParserPush(o, p, b) \in Parsers
    BY <1>1, <2>1, ReadMore DEF ReadsAs, Goes
  <2>3. ParserPush(o, p, b).failed => ParserPush(o, p, b).events = <<>>
    BY <1>3, PushFails
  <2> QED
    BY <2>2, <2>3 DEF Is
<1>5. st.parser = Quiet(g) /\ st.reply = Sorted(sp, r, g).reply /\ st.visible = v \o b
  <2>1. st = Whole(f.stop, Quiet(g), Sorted(sp, r, g).splitter, Sorted(sp, r, g).reply, v \o b)
    BY <1>2, <1>4, PushIs DEF Is
  <2>2. PICK fs, k, sr, c, w :
          /\ Is(fs, f.stop) /\ Is(k, Quiet(g)) /\ Is(sr, Sorted(sp, r, g)) /\ Is(c, sr.reply)
          /\ Is(w, v \o b)
    BY DEF Is
  <2>3. st = Whole(fs, k, sr.splitter, c, w)
    BY <2>1, <2>2 DEF Is
  <2> HIDE DEF st
  <2>4. st.parser = k /\ st.reply = c /\ st.visible = w
    BY <2>3, PartsAre
  <2> QED
    BY <2>2, <2>4 DEF Is
<1> HIDE DEF st
<1>6. SUFFICES ASSUME st.parser.failed PROVE FailsAs(o, st.visible, st.reply)
  BY DEF st
<1>7. g.failed
  BY <1>4, <1>5, <1>6, QuietIs
<1>8. st.reply = r
  <2>1. PICK sr : Is(sr, Stage(sp, r)) /\ Ready(sr)
    BY <1>1, <1>3, ReadIsReady DEF Is
  <2> QED
    BY <1>4, <1>5, <1>7, <2>1, SilentSorted
<1>9. r = ReadStage(o, v).reply
  BY <1>3 DEF Stage
<1> QED
  BY <1>1, <1>3, <1>5, <1>8, <1>9 DEF FailsAs

\* The end, when it does.
LEMMA FinishFailsAs ==
  ASSUME NEW o \in Options, o.tools, NEW s, s.pending \in AnyText, NEW v \in AnyText,
         NEW p, NEW sp, NEW r, ReadsAs(o, v, p, sp, r)
  PROVE  LET st == DoFinish(o, Whole(s, p, sp, r, v))
         IN  st.parser.failed => FailsAs(o, st.visible, st.reply)
<1> DEFINE st == DoFinish(o, Whole(s, p, sp, r, v))
<1>1. PICK b \in AnyText, u \in AnyText : Is(b, s.pending) /\ Is(u, v \o b)
  <2>1. PICK b \in AnyText : Is(b, s.pending)
    BY DEF Is
  <2>2. PICK u \in AnyText : Is(u, v \o b)
    BY JoinTexts DEF Is
  <2> QED
    BY <2>1, <2>2
<1>2. PICK q : Is(q, ParserPush(o, p, b)) /\ Goes(o, v, u, Read(o, v), q)
  <2>1. Goes(o, v, u, Read(o, v), ParserPush(o, Quiet(Read(o, v)), b))
    BY <1>1, ReadMore
  <2> QED
    BY <2>1 DEF ReadsAs, Is
<1>3. /\ q \in Parsers /\ q.failed = Read(o, u).failed /\ Quiet(q) = Quiet(Read(o, u))
      /\ (~q.failed => Route(ReadStage(o, v), q.events) = ReadStage(o, u))
  BY <1>2 DEF Goes, ReadsAs
<1>4. p \in Parsers /\ ~p.failed /\ Stage(sp, r) = ReadStage(o, v) /\ ~Read(o, v).failed
  <2>1. Read(o, v) \in Parsers
    BY <1>1, ReadMore
  <2> QED
    BY <2>1, QuietIs DEF ReadsAs
<1>5. q.failed => q.events = <<>>
  <2>1. ParserPush(o, p, b).failed => ParserPush(o, p, b).events = <<>>
    BY <1>4, PushFails
  <2> QED
    BY <1>2, <2>1 DEF Is
<1>6. PICK q1 \in Parsers : Is(q1, Quiet(q)) /\ q1.failed = q.failed
  BY <1>3, QuietIs DEF Is
<1>7. PICK q2 : Is(q2, ParserFinish(o, q1)) /\ Is(q2, ReadEnd(o, u)) /\ q2 \in Parsers
                /\ (q2.failed => q2.events = <<>>)
  <2>1. ParserFinish(o, q1) = ReadEnd(o, u)
    BY <1>3, <1>6 DEF ReadEnd, Is
  <2>2. ReadEnd(o, u) \in Parsers
    <3>1. PICK x \in Parsers, e \in Parsers :
           /\ o.required /\ e.calls = 0 => ReadEnd(o, u) = Fail(e)
           /\ ~(o.required /\ e.calls = 0) => ReadEnd(o, u) = e
      BY EndIs
    <3> QED
      BY <3>1, FailIs
  <2>3. ReadEnd(o, u).failed => ReadEnd(o, u).events = <<>>
    BY EndFails
  <2> QED
    BY <2>1, <2>2, <2>3 DEF Is
<1>8. PICK sr : Is(sr, Sorted(sp, r, q))
  BY DEF Is
<1>9. PICK to : Is(to, Sorted(sr.splitter, sr.reply, q2))
  BY DEF Is
<1>10. PICK fl : Is(fl, SplitFlush([splitter |-> to.splitter, reply |-> to.reply]))
  BY DEF Is
<1>11. st = IF p.failed THEN Whole(s, p, sp, r, v)
            ELSE IF q1.failed THEN Whole(Emptied(s), q1, sr.splitter, sr.reply, u)
            ELSE IF Quiet(q2).failed THEN Whole(Emptied(s), Quiet(q2), to.splitter, to.reply, u)
            ELSE Whole(Emptied(s), Quiet(q2), fl.splitter, fl.reply, u)
  <2>1. LET aq  == ParserPush(o, p, b)
            aq1 == Quiet(aq)
            asr == Sorted(sp, r, aq)
            aq2 == ParserFinish(o, aq1)
            ato == Sorted(asr.splitter, asr.reply, aq2)
            afl == SplitFlush([splitter |-> ato.splitter, reply |-> ato.reply])
            w   == v \o b
        IN  st =
               IF p.failed THEN Whole(s, p, sp, r, v)
               ELSE IF aq1.failed THEN Whole(Emptied(s), aq1, asr.splitter, asr.reply, w)
               ELSE IF Quiet(aq2).failed
                    THEN Whole(Emptied(s), Quiet(aq2), ato.splitter, ato.reply, w)
               ELSE Whole(Emptied(s), Quiet(aq2), afl.splitter, afl.reply, w)
    BY <1>1, FinishIs DEF Is
  <2> HIDE DEF st
  <2> QED
    BY <1>1, <1>2, <1>6, <1>7, <1>8, <1>9, <1>10, <2>1 DEF Is
<1> HIDE DEF st
<1>12. SUFFICES ASSUME st.parser.failed PROVE FailsAs(o, st.visible, st.reply)
  BY DEF st
<1>13. PICK sv : Is(sv, ReadStage(o, v)) /\ Ready(sv) /\ Is(sv, Stage(sp, r))
  BY <1>4, ReadIsReady DEF Is
<1>14. CASE q1.failed
  <2>1. st = Whole(Emptied(s), q1, sr.splitter, sr.reply, u)
    BY <1>4, <1>11, <1>14
  <2>2. st.reply = sr.reply /\ st.visible = u
    BY <2>1, PartsAre
  <2>3. sr.reply = r
    <3>1. q.events = <<>>
      BY <1>5, <1>6, <1>14
    <3>2. Sorted(sp, r, q).reply = r
      BY <1>13, <3>1, SilentSorted
    <3> QED
      BY <1>8, <3>2 DEF Is
  <2>4. r = ReadStage(o, v).reply
    BY <1>4 DEF Stage
  <2> QED
    BY <1>1, <1>4, <2>2, <2>3, <2>4 DEF FailsAs, Is
<1>15. CASE ~q1.failed
  <2>1. Quiet(q2).failed = q2.failed
    BY <1>7, QuietIs
  <2>2. q2.failed
    <3>1. CASE Quiet(q2).failed
      BY <2>1, <3>1
    <3>2. CASE ~Quiet(q2).failed
      <4>1. st = Whole(Emptied(s), Quiet(q2), fl.splitter, fl.reply, u)
        BY <1>4, <1>11, <1>15, <3>2
      <4>2. st.parser = Quiet(q2)
        BY <4>1, PartsAre
      <4> QED
        BY <1>12, <3>2, <4>2
    <3> QED
      BY <3>1, <3>2
  <2>3. st = Whole(Emptied(s), Quiet(q2), to.splitter, to.reply, u)
    BY <1>4, <1>11, <1>15, <2>1, <2>2
  <2>4. st.reply = to.reply /\ st.visible = u
    BY <2>3, PartsAre
  <2>5. sr = ReadStage(o, u) /\ ~Read(o, u).failed
    <3>1. ~q.failed
      BY <1>6, <1>15
    <3>2. Sorted(sp, r, q) = Route(ReadStage(o, v), q.events)
      BY <1>4 DEF Sorted, Stage
    <3> QED
      BY <1>3, <1>8, <3>1, <3>2 DEF Is
  <2>6. Ready(sr) /\ Is(sr, Stage(sr.splitter, sr.reply))
    <3>1. Ready(sr)
      BY <2>5, ReadIsReady
    <3> QED
      BY <3>1, StageParts DEF Is
  <2>7. to.reply = sr.reply
    <3>1. q2.events = <<>>
      BY <1>7, <2>2
    <3>2. Sorted(sr.splitter, sr.reply, q2).reply = sr.reply
      BY <2>6, <3>1, SilentSorted
    <3> QED
      BY <1>9, <3>2 DEF Is
  <2>8. u = u \o <<>> /\ <<>> \in AnyText
    BY JoinNothing
  <2> QED
    BY <2>4, <2>5, <2>7, <2>8 DEF FailsAs
<1> QED
  BY <1>14, <1>15

\* What is let through is a beginning of the text.
LEMMA StopTakes ==
  ASSUME NEW o \in Options, NEW s, NEW v, NEW r, StopHolds(o, s, v, r)
  PROVE  \E n \in 0..Len(r) : Is(v, Take(r, n))
<1>1. r \in AnyText /\ o.stops \in AnyMarkers /\ s.stopped \in BOOLEAN /\ Len(r) \in Nat
      /\ o.stops \in SUBSET Seq(Alphabet)
  BY StopsOf DEF StopHolds, AnyText
<1>2. CASE ~s.stopped
  <2>1. Held(r, o.stops) \in 0..Len(r)
    BY <1>1, HeldIs DEF AnyText
  <2>2. PICK n : n = Len(r) - Held(r, o.stops) /\ n \in 0..Len(r)
    BY <1>1, <2>1
  <2> QED
    BY <1>2, <2>2 DEF StopHolds, Is
<1>3. CASE s.stopped
  <2>1. PICK f : Is(f, Find(r, o.stops)) /\ f > 0
    BY <1>3 DEF StopHolds, Is
  <2>2. f \in Nat /\ (f # 0 => f \in 1..Len(r))
    BY <1>1, <2>1, FirstOf
  <2>3. PICK n : n = f - 1 /\ n \in 0..Len(r)
    BY <1>1, <2>1, <2>2
  <2> QED
    BY <1>3, <2>1, <2>3 DEF StopHolds, Is
<1> QED
  BY <1>1, <1>2, <1>3

\* The inductive part of CallsAreFrames that StopInv, PlainInv and ReadInv leave.
FailInv ==
  /\ status \in {"open", "finished", "failed"}
  /\ status = "failed" /\ options.tools => FailsAs(options, visible, reply)

\* A new answer has not failed.
LEMMA FailInvInit == OutputInit => FailInv
  BY DEF OutputInit, FailInv

\* A chunk keeps the reply of an answer that fails by it.
LEMMA FailInvPush ==
  ASSUME StopInv, ReadInv, NEW chunk \in Chunks(options), Push(chunk)
  PROVE  FailInv'
<1>1. options \in Options /\ chunk \in AnyText /\ options' = options
  BY StopsOf DEF StopInv, Push
<1>2. StopHolds(options, stop, visible, raw) /\ ~stop.stopped /\ status = "open"
  BY DEF StopInv, Push
<1>3. ReadsAs(options, visible, parser, splitter, reply)
  BY <1>2 DEF ReadInv
<1> DEFINE st == DoPush(options, State, chunk)
<1>4. options.tools /\ st.parser.failed => FailsAs(options, st.visible, st.reply)
  <2> SUFFICES ASSUME options.tools
               PROVE  st.parser.failed => FailsAs(options, st.visible, st.reply)
    OBVIOUS
  <2> DEFINE su == DoPush(options, Whole(stop, parser, splitter, reply, visible), chunk)
  <2>1. su.parser.failed => FailsAs(options, su.visible, su.reply)
    BY <1>1, <1>2, <1>3, PushFailsAs
  <2>2. st = su
    BY StateIs
  <2> QED
    BY <2>1, <2>2
<1> HIDE DEF st
<1>5. /\ reply' = st.reply /\ visible' = st.visible
      /\ status' = IF st.parser.failed THEN "failed" ELSE "open"
  BY DEF Push, Becomes, st
<1>6. status' \in {"open", "finished", "failed"} /\ (status' = "failed" => st.parser.failed)
  BY <1>5
<1>7. ASSUME status' = "failed", options'.tools PROVE FailsAs(options, visible, reply)'
  <2>1. FailsAs(options, st.visible, st.reply)
    BY <1>1, <1>4, <1>6, <1>7
  <2> QED
    BY <1>1, <1>5, <2>1 DEF FailsAs, Read, ReadStage
<1> QED
  BY <1>6, <1>7 DEF FailInv

\* So does the end.
LEMMA FailInvFinish ==
  ASSUME StopInv, ReadInv, NEW tail \in Chunks(options), Finish(tail)
  PROVE  FailInv'
<1>1. options \in Options /\ tail \in AnyText /\ options' = options
  BY StopsOf DEF StopInv, Finish
<1>2. StopHolds(options, stop, visible, raw) /\ status = "open"
  BY DEF StopInv, Finish
<1>3. ReadsAs(options, visible, parser, splitter, reply)
  BY <1>2 DEF ReadInv
<1> DEFINE st == DoFinish(options, DoPush(options, State, tail))
<1>4. status' = (IF st.parser.failed THEN "failed" ELSE "finished")
      /\ reply' = st.reply /\ visible' = st.visible
  BY DEF Finish, Becomes
<1>5. status' \in {"open", "finished", "failed"} /\ (status' = "failed" => st.parser.failed)
  <2> HIDE DEF st
  <2> QED
    BY <1>4
<1> SUFFICES ASSUME options.tools, st.parser.failed
             PROVE  FailsAs(options, st.visible, st.reply)
  <2> HIDE DEF st
  <2>1. ASSUME status' = "failed", options'.tools PROVE FailsAs(options, visible, reply)'
    <3>1. FailsAs(options, st.visible, st.reply)
      BY <1>1, <1>5, <2>1
    <3> QED
      BY <1>1, <1>4, <3>1 DEF FailsAs, Read, ReadStage
  <2> QED
    BY <1>5, <2>1 DEF FailInv
<1>6. PICK s, p, sp, r, v :
        /\ DoPush(options, State, tail) = Whole(s, p, sp, r, v)
        /\ ~p.failed => ReadsAs(options, v, p, sp, r)
        /\ p.failed => FailsAs(options, v, r)
        /\ s.pending \in AnyText /\ v \in AnyText
  <2>1. CASE stop.stopped
    <3>1. DoPush(options, State, tail) = Whole(stop, parser, splitter, reply, visible)
      BY <2>1, StateIs, PushIs
    <3>2. stop.pending \in AnyText /\ visible \in AnyText
      BY <1>2 DEF StopHolds
    <3>3. ~parser.failed
      <4>1. Read(options, visible) \in Parsers
        BY <1>1, <3>2, ReadMore, JoinNothing, JoinTexts DEF Is
      <4> QED
        BY <1>3, <4>1, QuietIs DEF ReadsAs
    <3> QED
      BY <1>3, <3>1, <3>2, <3>3
  <2>2. CASE ~stop.stopped
    <3> DEFINE su == DoPush(options, Whole(stop, parser, splitter, reply, visible), tail)
    <3>1. su.parser.failed => FailsAs(options, su.visible, su.reply)
      BY <1>1, <1>2, <1>3, <2>2, PushFailsAs
    <3>2. ~su.parser.failed => ReadsAs(options, su.visible, su.parser, su.splitter, su.reply)
      BY <1>1, <1>2, <1>3, <2>2, PushReads
    <3>3. /\ su = Whole(su.stop, su.parser, su.splitter, su.reply, su.visible)
          /\ StopHolds(options, su.stop, su.visible, raw \o tail)
      BY <1>1, <1>2, <2>2, PushHolds
    <3>4. DoPush(options, State, tail) = su
      BY StateIs
    <3> HIDE DEF su
    <3>5. su.stop.pending \in AnyText /\ su.visible \in AnyText
      BY <3>3 DEF StopHolds
    <3> QED
      BY <3>1, <3>2, <3>3, <3>4, <3>5
  <2> QED
    BY <2>1, <2>2
<1>7. CASE p.failed
  <2>1. DoFinish(options, Whole(s, p, sp, r, v)) = Whole(s, p, sp, r, v)
    BY <1>7, FailedFinish
  <2>2. st = Whole(s, p, sp, r, v)
    BY <1>6, <2>1
  <2> HIDE DEF st
  <2>3. st.reply = r /\ st.visible = v
    BY <2>2, PartsAre
  <2> QED
    BY <1>6, <1>7, <2>3
<1>8. CASE ~p.failed
  <2>1. LET su == DoFinish(options, Whole(s, p, sp, r, v))
        IN  su.parser.failed => FailsAs(options, su.visible, su.reply)
    BY <1>1, <1>6, <1>8, FinishFailsAs
  <2> QED
    BY <1>6, <2>1
<1> QED
  BY <1>7, <1>8

\* Every step keeps it.
LEMMA FailInvNext == StopInv /\ ReadInv /\ FailInv /\ [OutputNext]_outputVars => FailInv'
<1> SUFFICES ASSUME StopInv, ReadInv, FailInv, [OutputNext]_outputVars PROVE FailInv'
  OBVIOUS
<1>1. CASE OutputNext
  <2>1. PICK chunk \in Chunks(options) : Push(chunk) \/ Finish(chunk)
    BY <1>1 DEF OutputNext, Following
  <2> QED
    BY <2>1, FailInvPush, FailInvFinish
<1>2. CASE UNCHANGED outputVars
  <2>1. options' = options /\ visible' = visible /\ reply' = reply /\ status' = status
    BY <1>2 DEF outputVars
  <2> QED
    BY <2>1 DEF FailInv, FailsAs, Read, ReadStage
<1> QED
  BY <1>1, <1>2

----------------------------------------------------------------------------
\* A call is only ever a complete, valid frame.

\* A text without a marker has it nowhere; and neither has a first part of it.
LEMMA NoneAnywhere ==
  ASSUME NEW y \in AnyText, NEW z \in AnyText, NEW m \in AnyText, Len(m) # 0,
         ~HasAny(y \o z, {m})
  PROVE  Lacks(y, m, 0, Len(y))
<1> SUFFICES ASSUME NEW i \in 1..Len(y), Stands(y, m, i) PROVE FALSE
  BY DEF Lacks
<1>1. Len(y) \in Nat /\ Len(z) \in Nat /\ i \in Nat /\ i > 0
  BY DEF AnyText
<1>2. Stands(y \o z, m, i)
  BY <1>1, StandsMore
<1>3. i \in 1..Len(y \o z)
  <2>1. Len(y \o z) = Len(y) + Len(z)
    BY ConcatProperties DEF AnyText
  <2> QED
    BY <1>1, <2>1
<1> QED
  BY <1>2, <1>3 DEF HasAny, Places

\* The reply as it was read: without calls, it shows no opening marker.
LEMMA OpenIsClean ==
  ASSUME NEW o \in Options, o.tools, NEW v \in AnyText, ~Read(o, v).failed,
         Lacks(v, Think, 0, Len(v)), ReadStage(o, v).reply.calls = <<>>
  PROVE  ~HasAny(ReadStage(o, v).reply.content, {Open})
<1>1. PICK x : Is(x, Read(o, v)) /\ x \in Clean(o, v, NewStage(o))
  BY ReadClean DEF Is
<1>2. ~x.failed /\ x.calls = 0
  <2>1. Len(<<>>) = 0
    BY EmptySeq
  <2>2. Is(Len(CallsOf(ReadStage(o, v))), Read(o, v).calls)
    BY ReadFrames
  <2> QED
    BY <1>1, <2>1, <2>2 DEF Is, CallsOf
<1>3. ~HasAny(Route(NewStage(o), x.events).reply.content, {Open})
  BY <1>1, <1>2, NewStageReady, CleanMeans
<1> QED
  BY <1>1, <1>3 DEF ReadStage, Is

\* The same of the reply that ended.
LEMMA AnswerIsClean ==
  ASSUME NEW o \in Options, o.tools, NEW v \in AnyText, Answered(o, v),
         Lacks(v, Think, 0, Len(v)), Answer(o, v).calls = <<>>
  PROVE  ~HasAny(Answer(o, v).content, {Open})
<1>1. PICK q : Is(q, ReadEnd(o, v)) /\ q \in Parsers /\ ~q.failed
  <2>1. PICK q \in Parsers : Is(q, ReadEnd(o, v))
    <3>1. ReadEnd(o, v) \in Parsers
      <4>1. PICK x \in Parsers, e \in Parsers :
             /\ o.required /\ e.calls = 0 => ReadEnd(o, v) = Fail(e)
             /\ ~(o.required /\ e.calls = 0) => ReadEnd(o, v) = e
        BY EndIs
      <4> QED
        BY <4>1, FailIs
    <3> QED
      BY <3>1 DEF Is
  <2>2. Quiet(q).failed = q.failed
    BY QuietIs
  <2> QED
    BY <2>1, <2>2 DEF Answered, Is
<1>2. q.calls = 0
  <2>1. Len(<<>>) = 0
    BY EmptySeq
  <2>2. Is(Len(Answer(o, v).calls), ReadEnd(o, v).calls)
    BY AnswerFrames
  <2> QED
    BY <1>1, <2>1, <2>2 DEF Is
<1>3. PICK sr : Is(sr, ReadStage(o, v)) /\ Ready(sr)
  BY ReadIsReady DEF Is
<1>4. q \in Clean(o, v, sr)
  BY <1>1, <1>3, EndClean DEF Answered, Is
<1>5. ~HasAny(SplitFlush(Route(sr, q.events)).reply.content, {Open})
  BY <1>1, <1>2, <1>3, <1>4, CleanMeans
<1>6. PICK to \in Stages : Is(to, Route(sr, q.events))
  <2>1. q.events \in Seq(Events)
    BY <1>1, PartsOf
  <2>2. Ready(Route(sr, q.events))
    BY <1>3, <2>1, RouteReady
  <2> QED
    BY <2>2 DEF Ready, Is
<1>7. Answer(o, v) = SplitFlush(to).reply
  <2>1. [splitter |-> to.splitter, reply |-> to.reply] = to
    BY DEF Stages
  <2> QED
    BY <1>1, <1>3, <1>6, <2>1 DEF Answer, Is
<1> QED
  BY <1>5, <1>6, <1>7 DEF Is

\* What the reply is, with tools.
LEMMA ReplyIs ==
  ASSUME StopInv, ReadInv, FailInv, options.tools
  PROVE  \/ /\ status = "finished" /\ visible \in AnyText
            /\ Answered(options, visible) /\ reply = Answer(options, visible)
         \/ /\ status # "finished"
            /\ \E y, z \in AnyText : /\ visible = y \o z /\ ~Read(options, y).failed
                                     /\ reply = ReadStage(options, y).reply
<1>1. CASE status = "open"
  <2>1. visible \in AnyText
    BY <1>1 DEF StopInv, StopHolds
  <2>2. ~Read(options, visible).failed /\ reply = ReadStage(options, visible).reply
    BY <1>1 DEF ReadInv, ReadsAs, Stage
  <2>3. visible = visible \o <<>> /\ <<>> \in AnyText
    BY <2>1, JoinNothing
  <2> QED
    BY <1>1, <2>1, <2>2, <2>3
<1>2. CASE status = "finished"
  <2>1. visible \in AnyText
    <3>1. AllRead(options, stop, visible, raw) /\ raw \in AnyText /\ options \in Options
      BY <1>2 DEF StopInv
    <3>2. CASE ~stop.stopped
      BY <3>1, <3>2 DEF AllRead
    <3>3. CASE stop.stopped
      <4>1. PICK f : Is(f, Find(raw, options.stops)) /\ f > 0 /\ visible = Take(raw, f - 1)
        BY <3>1, <3>3 DEF AllRead, Is
      <4>2. f \in Nat /\ (f # 0 => f \in 1..Len(raw))
        BY <3>1, <4>1, StopsOf, FirstOf
      <4>3. PICK n : n = f - 1 /\ n \in 0..Len(raw)
        BY <3>1, <4>1, <4>2 DEF AnyText
      <4>4. Take(raw, n) \in AnyText
        BY <3>1, <4>3, CutParts
      <4> QED
        BY <4>1, <4>3, <4>4
    <3> QED
      BY <3>2, <3>3
  <2> QED
    BY <1>2, <2>1 DEF ReadInv
<1>3. CASE status = "failed"
  BY <1>3 DEF FailInv, FailsAs
<1> QED
  BY <1>1, <1>2, <1>3 DEF FailInv

\* The calls of a reply with tools are frames; there are some, when one is
\* required; and a reply without shows no marker of one.
LEMMA ReplyHolds ==
  ASSUME StopInv, ReadInv, FailInv, options.tools
  PROVE  /\ Frames(options, reply.calls)
         /\ status = "finished" /\ options.required => reply.calls # <<>>
         /\ reply.calls = <<>> /\ ~HasAny(visible, {Think}) => ~HasAny(reply.content, {Open})
<1>0. options \in Options /\ Think \in AnyText /\ Len(Think) # 0
  BY MarkersAre DEF StopInv
<1>1. CASE /\ status = "finished" /\ visible \in AnyText
           /\ Answered(options, visible) /\ reply = Answer(options, visible)
  <2>1. /\ Frames(options, reply.calls) /\ Is(Len(reply.calls), ReadEnd(options, visible).calls)
        /\ options.required => ReadEnd(options, visible).calls # 0
    BY <1>0, <1>1, AnswerFrames
  <2>2. options.required => reply.calls # <<>>
    <3>1. Len(<<>>) = 0
      BY EmptySeq
    <3> QED
      BY <2>1, <3>1 DEF Is
  <2>3. ASSUME reply.calls = <<>>, ~HasAny(visible, {Think}) PROVE ~HasAny(reply.content, {Open})
    <3>1. visible = visible \o <<>> /\ <<>> \in AnyText
      BY <1>1, JoinNothing
    <3>2. Lacks(visible, Think, 0, Len(visible))
      BY <1>0, <1>1, <2>3, <3>1, NoneAnywhere
    <3> QED
      BY <1>0, <1>1, <2>3, <3>2, AnswerIsClean
  <2> QED
    BY <2>1, <2>2, <2>3
<1>2. CASE /\ status # "finished"
           /\ \E y, z \in AnyText : /\ visible = y \o z /\ ~Read(options, y).failed
                                    /\ reply = ReadStage(options, y).reply
  <2>1. PICK y \in AnyText, z \in AnyText :
          visible = y \o z /\ ~Read(options, y).failed /\ reply = ReadStage(options, y).reply
    BY <1>2
  <2>2. Frames(options, reply.calls)
    BY <1>0, <2>1, ReadFrames DEF CallsOf
  <2>3. ASSUME reply.calls = <<>>, ~HasAny(visible, {Think}) PROVE ~HasAny(reply.content, {Open})
    <3>1. Lacks(y, Think, 0, Len(y))
      BY <1>0, <2>1, <2>3, NoneAnywhere
    <3> QED
      BY <1>0, <2>1, <2>3, <3>1, OpenIsClean
  <2> QED
    BY <1>2, <2>2, <2>3
<1> QED
  BY <1>1, <1>2, ReplyIs

\* Markers that are data neither end a call nor make the answer fail, whatever
\* chunk comes next.
LEMMA QuotedHolds ==
  ASSUME StopInv, ReadInv, status = "open", options.tools, ~options.thinking,
         NEW chunk \in AnyText, Stands(raw \o chunk, Open, 1),
         Quoted(Drop(raw \o chunk, Len(Open)))
  PROVE  LET st == DoPush(options, State, chunk)
         IN  ~st.parser.failed /\ st.reply.calls = <<>>
<1>1. options \in Options /\ StopHolds(options, stop, visible, raw)
      /\ ReadsAs(options, visible, parser, splitter, reply)
      /\ raw \in AnyText /\ visible \in AnyText /\ stop.stopped \in BOOLEAN
  BY DEF StopInv, ReadInv, StopHolds
<1>2. PICK w \in AnyText : Is(w, raw \o chunk) /\ Stands(w, Open, 1) /\ Quoted(Drop(w, Len(Open)))
  BY <1>1, JoinTexts DEF Is
<1>3. ASSUME NEW u \in AnyText, NEW n \in 0..Len(w), Is(u, Take(w, n))
      PROVE  ~Read(options, u).failed /\ ReadStage(options, u).reply.calls = <<>>
  <2>1. ~Read(options, u).failed /\ Read(options, u).calls = 0
    BY <1>1, <1>2, <1>3, QuotedReads
  <2>2. Frames(options, CallsOf(ReadStage(options, u)))
        /\ Is(Len(CallsOf(ReadStage(options, u))), Read(options, u).calls)
    BY <1>1, <2>1, ReadFrames
  <2>3. PICK ca : Is(ca, CallsOf(ReadStage(options, u))) /\ ca \in Seq(Bodies) /\ Len(ca) = 0
    BY <2>1, <2>2 DEF Frames, Is
  <2>4. ca = <<>>
    BY <2>3, EmptySeq
  <2> QED
    BY <2>1, <2>3, <2>4 DEF Is, CallsOf
<1>4. CASE stop.stopped
  <2>1. DoPush(options, State, chunk) = Whole(stop, parser, splitter, reply, visible)
    BY <1>4, StateIs, PushIs
  <2>2. PICK n \in 0..Len(raw) : Is(visible, Take(raw, n))
    BY <1>1, StopTakes
  <2>3. n \in 0..Len(w) /\ Is(visible, Take(w, n))
    BY <1>1, <1>2, <2>2, CutOfJoined DEF AnyText, Is
  <2>4. ~Read(options, visible).failed /\ ReadStage(options, visible).reply.calls = <<>>
    BY <1>1, <1>3, <2>3
  <2>5. ~parser.failed /\ reply.calls = <<>>
    <3>1. Read(options, visible) \in Parsers
      BY <1>1, ReadMore, JoinNothing, JoinTexts DEF Is
    <3>2. ~parser.failed
      BY <1>1, <2>4, <3>1, QuietIs DEF ReadsAs
    <3>3. reply = ReadStage(options, visible).reply
      BY <1>1 DEF ReadsAs, Stage
    <3> QED
      BY <2>4, <3>2, <3>3
  <2>6. DoPush(options, State, chunk).parser = parser /\ DoPush(options, State, chunk).reply = reply
    BY <2>1, PartsAre
  <2> QED
    BY <2>5, <2>6
<1>5. CASE ~stop.stopped
  <2> DEFINE su == DoPush(options, Whole(stop, parser, splitter, reply, visible), chunk)
  <2>1. /\ su.parser.failed <=> Read(options, su.visible).failed
        /\ ~su.parser.failed => ReadsAs(options, su.visible, su.parser, su.splitter, su.reply)
    BY <1>1, <1>5, PushReads
  <2>2. StopHolds(options, su.stop, su.visible, raw \o chunk)
    BY <1>1, <1>5, PushHolds
  <2>3. DoPush(options, State, chunk) = su
    BY StateIs
  <2> HIDE DEF su
  <2>4. PICK u \in AnyText : Is(u, su.visible)
    BY <2>2 DEF StopHolds, Is
  <2>5. PICK n \in 0..Len(w) : Is(u, Take(w, n))
    <3>1. \E n \in 0..Len(raw \o chunk) : Is(su.visible, Take(raw \o chunk, n))
      BY <1>1, <2>2, StopTakes
    <3> QED
      BY <1>2, <2>4, <3>1 DEF Is
  <2>6. ~Read(options, u).failed /\ ReadStage(options, u).reply.calls = <<>>
    BY <1>3, <2>5
  <2>7. ~su.parser.failed
    BY <2>1, <2>4, <2>6 DEF Is
  <2>8. su.reply = ReadStage(options, u).reply
    BY <2>1, <2>4, <2>7 DEF ReadsAs, Stage, Is
  <2> QED
    BY <2>3, <2>6, <2>7, <2>8
<1> QED
  BY <1>1, <1>4, <1>5

\* The four invariants make it hold.
LEMMA FailInvMeans ==
  StopInv /\ PlainInv /\ ReadInv /\ FailInv => CallsAreFrames
<1> SUFFICES ASSUME StopInv, PlainInv, ReadInv, FailInv PROVE CallsAreFrames
  OBVIOUS
<1>0. options \in Options /\ options.tools \in BOOLEAN
  BY StopsOf DEF StopInv
<1>1. ~options.tools => reply.calls = <<>>
  BY PlainInvMeans DEF PlainInv
<1>2. options.tools =>
        /\ Frames(options, reply.calls)
        /\ status = "finished" /\ options.required => reply.calls # <<>>
        /\ reply.calls = <<>> /\ ~HasAny(visible, {Think}) => ~HasAny(reply.content, {Open})
  BY ReplyHolds
<1>3. Frames(options, reply.calls)
  <2>1. ~options.tools => Frames(options, reply.calls)
    <3>1. PICK none : none = <<>> /\ none \in Seq(Bodies) /\ Len(none) = 0
      BY EmptySeq
    <3>2. Frames(options, none)
      BY <3>1 DEF Frames
    <3> QED
      BY <1>1, <3>1, <3>2
  <2> QED
    BY <1>2, <2>1
<1>4. \A i \in DOMAIN reply.calls : ValidBody(reply.calls[i]) /\ ~InData(reply.calls[i])
  <2>1. PICK ca : Is(ca, reply.calls) /\ ca \in Seq(Bodies)
    BY <1>3 DEF Frames, Is
  <2>2. \A i \in DOMAIN ca : ca[i] \in Bodies
    BY <2>1
  <2>3. \A i \in DOMAIN ca : ValidBody(ca[i]) /\ ~InData(ca[i])
    BY <2>2 DEF Bodies
  <2> QED
    BY <2>1, <2>3 DEF Is
<1>5. ~options.parallel => Len(reply.calls) <= 1
  BY <1>3 DEF Frames
<1>6. ASSUME status = "open", options.tools, ~options.thinking, NEW chunk \in Following,
             Stands(raw \o chunk, Open, 1),
             \A i \in Places(Drop(raw \o chunk, Len(Open)), {Close}) :
               InData(Take(Drop(raw \o chunk, Len(Open)), i - 1))
      PROVE  LET st == DoPush(options, State, chunk)
             IN  ~st.parser.failed /\ st.reply.calls = <<>>
  <2>1. chunk \in AnyText
    BY <1>0, StopsOf DEF Following
  <2>2. Quoted(Drop(raw \o chunk, Len(Open)))
    BY <1>6 DEF Quoted
  <2> QED
    BY <1>6, <2>1, <2>2, QuotedHolds
<1> QED
  BY <1>1, <1>2, <1>4, <1>5, <1>6 DEF CallsAreFrames

\* A call is only ever a complete and valid frame, as many as the request
\* allows; a text without calls and opening think markers shows no part of a
\* frame; and closing markers inside a string or a parameter neither end a call
\* nor fail the answer.
THEOREM CallsHold == OutputSpec => []CallsAreFrames
<1>1. StopInv /\ PlainInv /\ ReadInv /\ FailInv /\ [OutputNext]_outputVars
        => (StopInv /\ PlainInv /\ ReadInv /\ FailInv)'
  BY StopInvNext, PlainInvNext, ReadInvNext, FailInvNext
<1>2. OutputInit => StopInv /\ PlainInv /\ ReadInv /\ FailInv
  BY StopInvInit, PlainInvInit, ReadInvInit, FailInvInit
<1>3. OutputSpec => [](StopInv /\ PlainInv /\ ReadInv /\ FailInv)
  BY <1>1, <1>2, PTL DEF OutputSpec
<1> QED
  BY <1>3, FailInvMeans, PTL

----------------------------------------------------------------------------
\* The generator.

Phases == {"idle", "prefill", "decode", "step", "declined", "flush"}

TypeOK ==
  /\ log \in Seq(Vocab)
  /\ proposal = <<>>
  /\ cached_tokens \in Seq(Vocab)
  /\ cached_logits \in Seq(Vocab)
  /\ request \in Requests \cup {NoRequest}
  /\ phase \in Phases
  /\ emitted \in Seq(Vocab)

\* A call is in progress exactly when a request is; the processor has then
\* seen what was emitted.
CallShape ==
  /\ phase = "idle" <=> request = NoRequest
  /\ phase # "idle" => seen = emitted

\* Where the log stands: inside the prompt, after everything emitted, or
\* after everything but the last token.
LogPlace ==
  /\ phase = "prefill" =>
       /\ emitted = <<>>
       /\ IsPrefix(log, request.prompt)
       /\ Len(log) < Len(request.prompt)
  /\ phase = "decode" => log = request.prompt \o emitted
  /\ phase \in {"step", "declined", "flush"} =>
       /\ emitted # <<>>
       /\ log = request.prompt \o Front(emitted)

\* What was emitted leaves room while tokens are still to come, and holds
\* no EOS before the end.
Budget ==
  /\ phase \in {"prefill", "decode", "step"} =>
       /\ Len(emitted) < request.limit
       /\ \A i \in DOMAIN emitted : emitted[i] \notin Eos
  /\ phase = "flush" /\ Last(emitted) \notin Eos => Len(emitted) = request.limit

\* The first k tokens emitted end a character and are not an EOS.
Complete(k) == k = 0 \/ emitted[k] \notin Lead \cup Eos

\* What the callback was given is the text of some complete tokens; what it
\* accepted is that text, or that of fewer of them once it declined.
TextPlace ==
  phase # "idle" =>
    \E k \in 0..Len(emitted) :
      /\ Complete(k)
      /\ shown = Decode(SubSeq(emitted, 1, k))
      /\ IF phase = "declined" THEN IsPrefix(text, shown) ELSE text = shown

IInv ==
  /\ TypeOK
  /\ CacheCoherent
  /\ CallShape
  /\ LogPlace
  /\ Budget
  /\ TextPlace

USE LanguageAssumption

----------------------------------------------------------------------------
\* Lemmas.

\* A request that is served has a prompt and room for a token.
LEMMA RequestType ==
  ASSUME NEW r \in Requests
  PROVE  /\ r.prompt \in Seq(Vocab) /\ r.prompt # <<>>
         /\ r.limit \in Nat /\ r.limit > 0
         /\ r # NoRequest
<1>1. r.prompt \in Prompts /\ r.limit \in Limits
  BY DEF Requests
<1>2. r.prompt \in Seq(Vocab) /\ r.prompt # <<>> /\ r.limit \in Nat /\ r.limit > 0
  <2>1. r.prompt \in Seq(Vocab) /\ r.prompt # <<>> /\ r.limit \in Nat \ {0}
    BY <1>1, LanguageAssumption, Zenon
  <2> QED
    BY <2>1
<1>3. r # NoRequest
  BY <1>2 DEF NoRequest
<1> QED
  BY <1>2, <1>3

\* While a call is in progress its request is one of Requests.
LEMMA RequestInCall ==
  ASSUME TypeOK, CallShape, phase # "idle"
  PROVE  request \in Requests
  BY DEF TypeOK, CallShape

\* A forward appends one token to log and cache; with logits, the row kept
\* is that of the whole log.
LEMMA FedLog ==
  ASSUME TypeOK, CacheCoherent, NEW t \in Vocab, NEW want \in BOOLEAN,
         Feed(t, want)
  PROVE  /\ log' = Append(log, t)
         /\ log' \in Seq(Vocab)
         /\ proposal' = <<>>
         /\ cached_tokens' = log'
         /\ cached_logits' = IF want THEN log' ELSE <<>>
<1>1. /\ log \in Seq(Vocab) /\ cached_tokens = log /\ proposal = <<>>
      /\ log' = log \o <<t>> /\ proposal' = <<>>
      /\ cached_tokens' = Append(cached_tokens, t)
      /\ answer' = IF want THEN Target!RowsAfter(log, <<t>>) ELSE <<>>
      /\ cached_logits' = IF want THEN answer'[1] ELSE <<>>
  BY DEF Feed, Target!Absorb, TypeOK, CacheCoherent
<1>2. Append(log, t) = log \o <<t>> /\ Append(log, t) \in Seq(Vocab)
  BY <1>1, AppendEnds
<1>3. Target!RowsAfter(log, <<t>>)[1] = log \o <<t>>
  <2>1. Len(<<t>>) = 1 /\ <<t>> \in Seq(Vocab)
    OBVIOUS
  <2>2. SubSeq(<<t>>, 1, 1) = <<t>>
    BY <2>1, SubSeqFull
  <2> QED
    BY <2>1, <2>2 DEF Target!RowsAfter
<1> QED
  BY <1>1, <1>2, <1>3

\* The end of a call needs nothing of the invariant but its type and a cache
\* that is coherent.
LEMMA EndsCall ==
  ASSUME log' \in Seq(Vocab), proposal' = <<>>, cached_tokens' = log',
         cached_logits' = log', request' = NoRequest, phase' = "idle",
         emitted' \in Seq(Vocab)
  PROVE  IInv'
<1>1. TypeOK'
  BY DEF TypeOK, Phases
<1>2. CacheCoherent'
  BY DEF CacheCoherent
<1>3. CallShape' /\ LogPlace' /\ Budget' /\ TextPlace'
  BY DEF CallShape, LogPlace, Budget, TextPlace
<1> QED
  BY <1>1, <1>2, <1>3 DEF IInv

\* A cleared cache is coherent.
LEMMA ClearedCache ==
  ASSUME ClearCache
  PROVE  /\ log' = <<>> /\ log' \in Seq(Vocab) /\ proposal' = <<>>
         /\ cached_tokens' = log' /\ cached_logits' = log'
<1>1. <<>> \in Seq(Vocab)
  BY EmptySeq
<1> QED
  BY <1>1 DEF ClearCache, Target!Forget

----------------------------------------------------------------------------
\* The invariant is inductive.

\* A generator starts with nothing in the cache.
LEMMA InitInv == Init => IInv
<1> SUFFICES ASSUME Init PROVE IInv
  OBVIOUS
<1>0. <<>> \in Seq(Vocab)
  BY EmptySeq
<1>1. TypeOK
  BY <1>0 DEF Init, Target!Init, TypeOK, Phases
<1>2. CacheCoherent
  BY DEF Init, Target!Init, CacheCoherent
<1>3. CallShape /\ LogPlace /\ Budget /\ TextPlace
  BY DEF Init, CallShape, LogPlace, Budget, TextPlace
<1> QED
  BY <1>1, <1>2, <1>3 DEF IInv

\* A call begins inside its prompt or, when the cache holds all of it, ready
\* to sample; a cache that is not a prefix of the prompt is gone.
LEMMA GenerateInv ==
  ASSUME IInv, NEW r \in Requests, Generate(r)
  PROVE  IInv'
<1>1. /\ r.prompt \in Seq(Vocab) /\ r.prompt # <<>>
      /\ r.limit \in Nat /\ r.limit > 0 /\ r # NoRequest
  BY RequestType
<1>2. /\ phase = "idle"
      /\ request' = r
      /\ phase' = IF cached_tokens' = r.prompt THEN "decode" ELSE "prefill"
      /\ emitted' = <<>> /\ seen' = <<>> /\ text' = <<>> /\ shown' = <<>>
  BY DEF Generate
<1>3. /\ log' \in Seq(Vocab) /\ proposal' = <<>> /\ cached_tokens' = log'
      /\ cached_logits' = log' /\ IsPrefix(log', r.prompt)
  <2>1. CASE Reusable(r.prompt)
    <3>1. UNCHANGED <<engineVars, cacheVars>>
      BY <2>1 DEF Generate
    <3> QED
      BY <1>2, <2>1, <3>1
      DEF Reusable, engineVars, cacheVars, IInv, TypeOK, CacheCoherent
  <2>2. CASE ~Reusable(r.prompt)
    <3>1. ClearCache
      BY <2>2 DEF Generate
    <3> QED
      BY <1>1, <3>1, ClearedCache, PrefixEnds
  <2> QED
    BY <2>1, <2>2
<1>4. TypeOK'
  BY <1>2, <1>3, EmptySeq DEF TypeOK, Phases
<1>5. CacheCoherent'
  BY <1>3 DEF CacheCoherent
<1>6. CallShape'
  BY <1>1, <1>2 DEF CallShape
<1>7. LogPlace'
  <2>1. CASE log' = r.prompt
    <3>1. log' = r.prompt \o <<>>
      BY <1>1, <2>1, ConcatEmptySeq
    <3> QED
      BY <1>2, <1>3, <2>1, <3>1 DEF LogPlace
  <2>2. CASE log' # r.prompt
    <3>1. Len(log') < Len(r.prompt)
      <4>1. /\ Len(log') \in Nat /\ Len(r.prompt) \in Nat
            /\ Len(log') <= Len(r.prompt)
            /\ \A i \in 1..Len(log') : log'[i] = r.prompt[i]
        BY <1>1, <1>3, LenProperties, PrefixElementwise
      <4>2. Len(log') # Len(r.prompt)
        BY <1>1, <1>3, <2>2, <4>1, SeqEqual
      <4> QED
        BY <4>1, <4>2
    <3> QED
      BY <1>2, <1>3, <2>2, <3>1 DEF LogPlace
  <2> QED
    BY <2>1, <2>2
<1>8. Budget'
  BY <1>1, <1>2 DEF Budget
<1>9. TextPlace'
  <2>1. SubSeq(<<>>, 1, 0) = <<>> /\ 0 \in 0..Len(<<>>)
    BY SubSeqEmpty
  <2>2. Decode(SubSeq(<<>>, 1, 0)) = <<>>
    BY <2>1, DecodeNothing
  <2> QED
    BY <1>2, <2>1, <2>2 DEF TextPlace, Complete
<1> QED
  BY <1>4, <1>5, <1>6, <1>7, <1>8, <1>9 DEF IInv

\* The prefill loop walks the prompt; its last token brings the logits.
LEMMA PrefillInv ==
  ASSUME IInv, Prefill
  PROVE  IInv'
<1> DEFINE p == request.prompt
           i == Len(log) + 1
           last == i = Len(p)
<1>1. /\ phase = "prefill" /\ cached_tokens = log
      /\ log \in Seq(Vocab) /\ emitted = <<>> /\ seen = emitted
      /\ IsPrefix(log, p) /\ Len(log) < Len(p)
  BY DEF Prefill, IInv, TypeOK, CacheCoherent, LogPlace, CallShape
<1>2. p \in Seq(Vocab) /\ request \in Requests /\ Len(p) \in Nat /\ Len(log) \in Nat
  BY <1>1, RequestInCall, RequestType, LenProperties DEF IInv
<1>3. /\ Feed(p[i], last)
      /\ phase' = IF last THEN "decode" ELSE "prefill"
      /\ UNCHANGED <<request, emitted, seen, text, shown>>
  BY <1>1 DEF Prefill
<1>4. i \in 1..Len(p) /\ p[i] \in Vocab
  <2>1. i \in 1..Len(p)
    BY <1>1, <1>2
  <2> QED
    BY <1>2, <2>1, ElementOfSeq
<1>5. /\ log' = Append(log, p[i]) /\ log' \in Seq(Vocab) /\ proposal' = <<>>
      /\ cached_tokens' = log'
      /\ cached_logits' = IF last THEN log' ELSE <<>>
  BY <1>3, <1>4, FedLog DEF IInv
<1>6. Len(log') = i /\ IsPrefix(log', p) /\ \A j \in 1..Len(log') : log'[j] = p[j]
  <2>1. /\ Len(log') = i /\ log'[i] = p[i]
        /\ \A j \in 1..Len(log) : log'[j] = log[j]
    BY <1>1, <1>4, <1>5, AppendProperties
  <2>2. \A j \in 1..Len(log) : log[j] = p[j]
    BY <1>1, <1>2, PrefixElementwise
  <2>3. Len(log') <= Len(p) /\ \A j \in 1..Len(log') : log'[j] = p[j]
    BY <1>1, <1>2, <2>1, <2>2
  <2> QED
    BY <1>2, <1>5, <2>1, <2>3, PrefixElementwise
<1> HIDE DEF p, i
<1>7. TypeOK'
  BY <1>1, <1>3, <1>5 DEF IInv, TypeOK, Phases
<1>8. CacheCoherent'
  <2>1. ~last => phase' = "prefill" /\ cached_logits' = <<>>
    BY <1>3, <1>5
  <2>2. last => cached_logits' = log'
    BY <1>5
  <2> QED
    BY <1>5, <2>1, <2>2 DEF CacheCoherent
<1>9. CallShape'
  BY <1>1, <1>3 DEF IInv, CallShape
<1>10. LogPlace'
  <2>1. CASE last
    <3>1. log' = p
      BY <1>2, <1>5, <1>6, <2>1, SeqEqual
    <3>2. log' = p \o <<>>
      BY <1>2, <3>1, ConcatEmptySeq
    <3> QED
      BY <1>1, <1>3, <2>1, <3>2 DEF LogPlace, p
  <2>2. CASE ~last
    <3>1. Len(log') < Len(p)
      BY <1>2, <1>4, <1>6, <2>2
    <3> QED
      BY <1>1, <1>3, <1>6, <2>2, <3>1 DEF LogPlace, p
  <2> QED
    BY <2>1, <2>2
<1>11. Budget'
  BY <1>1, <1>3 DEF IInv, Budget
<1>12. TextPlace'
  BY <1>1, <1>3 DEF IInv, TextPlace, Complete
<1> QED
  BY <1>7, <1>8, <1>9, <1>10, <1>11, <1>12 DEF IInv

\* A sampled token leads to the forward, or to the end of the answer, or to
\* the cancellation of the call whose callback declined the text it got.
LEMMA SampleInv ==
  ASSUME IInv, NEW t \in Vocab, NEW go \in BOOLEAN, Sample(t, go)
  PROVE  IInv'
<1> DEFINE p == request.prompt
           decoded == Decode(TextTokens(emitted'))
<1>1. /\ phase = "decode" /\ emitted' = Append(emitted, t) /\ seen' = Append(seen, t)
      /\ phase' = IF ~go /\ shown' # shown THEN "declined" ELSE AfterToken(t)
      /\ UNCHANGED <<engineVars, cacheVars, request>>
  BY DEF Sample
<1>2. /\ p \in Seq(Vocab) /\ request \in Requests /\ request # NoRequest
      /\ request.limit \in Nat
  BY <1>1, RequestInCall, RequestType DEF IInv
<1>3. /\ emitted \in Seq(Vocab) /\ Len(emitted) \in Nat /\ seen = emitted
      /\ log = p \o emitted /\ Len(emitted) < request.limit
      /\ \A i \in DOMAIN emitted : emitted[i] \notin Eos
  BY <1>1, LenProperties DEF IInv, TypeOK, CallShape, LogPlace, Budget
<1>4. /\ emitted' \in Seq(Vocab) /\ emitted' # <<>> /\ Len(emitted') = Len(emitted) + 1
      /\ Front(emitted') = emitted /\ Last(emitted') = t
      /\ \A i \in 1..Len(emitted) : emitted'[i] = emitted[i]
  BY <1>1, <1>3, AppendEnds, ZenonT(30)
<1>5. /\ AfterToken(t) \in {"flush", "step"}
      /\ AfterToken(t) = "step" => t \notin Eos /\ Len(emitted') < request.limit
      /\ AfterToken(t) = "flush" => t \in Eos \/ Len(emitted') = request.limit
  BY <1>2, <1>3, <1>4 DEF AfterToken
<1>6. phase' \in {"declined", "flush", "step"}
  BY <1>1, <1>5
<1>7. TypeOK'
  BY <1>1, <1>4, <1>6 DEF IInv, TypeOK, Phases, engineVars, cacheVars
<1>8. CacheCoherent'
  BY <1>1, <1>6 DEF IInv, CacheCoherent, engineVars, cacheVars
<1>9. CallShape'
  BY <1>1, <1>2, <1>3, <1>6 DEF CallShape
<1>10. LogPlace'
  BY <1>1, <1>3, <1>4, <1>6 DEF LogPlace, engineVars
<1>11. Budget'
  <2>1. phase' \notin {"prefill", "decode"}
    BY <1>6
  <2>2. ASSUME phase' = "step"
        PROVE  Len(emitted') < request'.limit /\ \A i \in DOMAIN emitted' : emitted'[i] \notin Eos
    <3>1. t \notin Eos /\ Len(emitted') < request.limit
      BY <1>1, <1>5, <2>2
    <3>2. DOMAIN emitted = 1..Len(emitted) /\ DOMAIN emitted' = 1..Len(emitted')
      BY <1>3, <1>4, LenProperties
    <3>3. emitted'[Len(emitted')] = t
      BY <1>4 DEF Last
    <3> QED
      BY <1>1, <1>3, <1>4, <3>1, <3>2, <3>3
  <2>3. ASSUME phase' = "flush", Last(emitted') \notin Eos
        PROVE  Len(emitted') = request'.limit
    BY <1>1, <1>4, <1>5, <2>3
  <2> QED
    BY <2>1, <2>2, <2>3 DEF Budget
<1>12. PICK k \in 0..Len(emitted) :
         /\ k = 0 \/ emitted[k] \notin Lead \cup Eos
         /\ shown = Decode(SubSeq(emitted, 1, k))
         /\ text = shown
  BY <1>1 DEF IInv, TextPlace, Complete
<1>13. /\ k \in 0..Len(emitted') /\ (k = 0 \/ emitted'[k] \notin Lead \cup Eos)
       /\ shown = Decode(SubSeq(emitted', 1, k))
  <2>1. SubSeq(emitted', 1, k) = SubSeq(emitted, 1, k)
    BY <1>1, <1>3, CutOfAppend
  <2>2. k \in 0..Len(emitted') /\ (k # 0 => k \in 1..Len(emitted))
    BY <1>3, <1>4
  <2>3. k # 0 => emitted'[k] = emitted[k]
    BY <1>4, <2>2
  <2> QED
    BY <1>12, <2>1, <2>2, <2>3, Zenon
<1>14. TextPlace'
  <2>1. CASE UNCHANGED <<text, shown>>
    <3>1. phase' # "declined"
      BY <1>1, <1>5, <2>1
    <3> QED
      BY <1>12, <1>13, <2>1, <3>1 DEF TextPlace, Complete
  <2>2. CASE ~ UNCHANGED <<text, shown>>
    <3>1. /\ t \notin Eos /\ ~Partial(decoded) /\ decoded # text
          /\ shown' = decoded /\ text' = IF go THEN decoded ELSE text
      BY <2>2 DEF Sample, Show
    <3>2. TextTokens(emitted') = emitted'
      BY <1>4, <3>1 DEF TextTokens
    <3> DEFINE n == Len(emitted')
    <3>3. n \in 0..n /\ SubSeq(emitted', 1, n) = emitted'
      BY <1>3, <1>4, SubSeqFull
    <3>4. emitted'[n] \notin Lead \cup Eos
      BY <1>4, <3>1, <3>2, DanglingIsPartial DEF Last
    <3>5. shown' = Decode(SubSeq(emitted', 1, n))
      BY <3>1, <3>2, <3>3
    <3>6. phase' = "declined" <=> ~go
      BY <1>1, <1>5, <1>12, <3>1
    <3>7. IsPrefix(text, shown')
      BY <1>4, <1>12, <1>13, <3>1, ShownIsPrefix
    <3>8. IF phase' = "declined" THEN IsPrefix(text', shown') ELSE text' = shown'
      BY <3>1, <3>6, <3>7
    <3> QED
      BY <3>3, <3>4, <3>5, <3>8 DEF TextPlace, Complete
  <2> QED
    BY <2>1, <2>2
<1> QED
  BY <1>7, <1>8, <1>9, <1>10, <1>11, <1>14 DEF IInv

\* The forward of the last token brings the log up to what was emitted.
LEMMA StepInv ==
  ASSUME IInv, Step
  PROVE  IInv'
<1> DEFINE p == request.prompt
<1>1. /\ phase = "step" /\ phase' = "decode" /\ Feed(Last(emitted), TRUE)
      /\ UNCHANGED <<request, emitted, seen, text, shown>>
  BY DEF Step
<1>2. p \in Seq(Vocab)
  BY <1>1, RequestInCall, RequestType DEF IInv
<1>3. /\ emitted \in Seq(Vocab) /\ emitted # <<>> /\ log = p \o Front(emitted)
  BY <1>1 DEF IInv, TypeOK, LogPlace
<1>4. Last(emitted) \in Vocab
  BY <1>3, FrontAndLast
<1>5. /\ log' = Append(log, Last(emitted)) /\ log' \in Seq(Vocab)
      /\ proposal' = <<>> /\ cached_tokens' = log' /\ cached_logits' = log'
  BY <1>1, <1>4, FedLog DEF IInv
<1>6. log' = p \o emitted
  BY <1>2, <1>3, <1>5, ConversationEnds
<1>7. TypeOK'
  BY <1>1, <1>5 DEF IInv, TypeOK, Phases
<1>8. CacheCoherent'
  BY <1>5 DEF CacheCoherent
<1>9. CallShape' /\ Budget'
  BY <1>1 DEF IInv, CallShape, Budget
<1>10. LogPlace'
  BY <1>1, <1>6 DEF LogPlace
<1>11. TextPlace'
  BY <1>1 DEF IInv, TextPlace, Complete
<1> QED
  BY <1>7, <1>8, <1>9, <1>10, <1>11 DEF IInv

\* Every step preserves the invariant.
LEMMA NextInv == IInv /\ [Next]_vars => IInv'
<1> SUFFICES ASSUME IInv, [Next]_vars PROVE IInv'
  OBVIOUS
<1>t. /\ log \in Seq(Vocab) /\ proposal = <<>> /\ emitted \in Seq(Vocab)
      /\ cached_tokens = log /\ (phase # "prefill" => cached_logits = log)
  BY DEF IInv, TypeOK, CacheCoherent
<1>1. ASSUME NEW r \in Requests, Generate(r) PROVE IInv'
  BY <1>1, GenerateInv
<1>2. ASSUME NEW r \in Requests, RefuseRequest(r) PROVE IInv'
  <2>1. <<>> \in Seq(Vocab)
    BY EmptySeq
  <2> QED
    BY <1>2, <1>t, <2>1, EndsCall DEF RefuseRequest, Return, engineVars, cacheVars
<1>3. CASE Prefill
  BY <1>3, PrefillInv
<1>4. CASE AbortPrefill
  BY <1>4, <1>t, ClearedCache, EndsCall DEF AbortPrefill, Return
<1>5. ASSUME NEW t \in Vocab, NEW go \in BOOLEAN, Sample(t, go) PROVE IInv'
  BY <1>5, SampleInv
<1>6. CASE Cancel
  BY <1>6, <1>t, EndsCall DEF Cancel, Return, engineVars, cacheVars
<1>7. CASE SampleFails
  BY <1>7, <1>t, EndsCall DEF SampleFails, Return, engineVars, cacheVars
<1>8. CASE Step
  BY <1>8, StepInv
<1>9. CASE StepFails
  BY <1>9, <1>t, ClearedCache, EndsCall DEF StepFails, Return
<1>10. CASE Flush
  BY <1>10, <1>t, EndsCall DEF Flush, Return, engineVars, cacheVars
<1>11. CASE UNCHANGED vars
  BY <1>11 DEF vars, engineVars, cacheVars, callVars, IInv, TypeOK,
     CacheCoherent, CallShape, LogPlace, Budget, TextPlace, Complete
<1> QED
  BY <1>1, <1>2, <1>3, <1>4, <1>5, <1>6, <1>7, <1>8, <1>9, <1>10, <1>11 DEF Next

\* The invariant holds in every reachable state.
LEMMA InvHolds == Spec => []IInv
  BY InitInv, NextInv, PTL DEF Spec

----------------------------------------------------------------------------
\* The cache (engine.rs: cached_tokens and cached_logits).

\* After any sequence of requests, aborted prefills, failed forwards and
\* cancelled decodes the cache names the tokens the engine has absorbed, and
\* the logits kept are those of the last of them.
THEOREM CacheIsCoherent == Spec => []CacheCoherent
<1>1. IInv => CacheCoherent
  BY DEF IInv
<1> QED
  BY <1>1, InvHolds, PTL

\* The part of the conversation the log holds in each phase.
LEMMA LogInConversation ==
  ASSUME IInv, phase # "idle"
  PROVE  IsPrefix(log, request.prompt \o emitted)
<1> DEFINE p == request.prompt
<1>1. p \in Seq(Vocab) /\ emitted \in Seq(Vocab) /\ log \in Seq(Vocab)
  BY RequestInCall, RequestType DEF IInv, TypeOK
<1> HIDE DEF p
<1>2. p \o emitted \in Seq(Vocab)
  BY <1>1, ConcatProperties
<1>3. CASE phase = "prefill"
  <2>1. IsPrefix(log, p)
    BY <1>3 DEF IInv, LogPlace, p
  <2>2. IsPrefix(p, p \o emitted)
    BY <1>1, PrefixOfConcat
  <2> QED
    BY <1>1, <1>2, <2>1, <2>2, PrefixTransitive DEF p
<1>4. CASE phase = "decode"
  <2>1. log = p \o emitted
    BY <1>4 DEF IInv, LogPlace, p
  <2> QED
    BY <1>2, <2>1, PrefixEnds DEF p
<1>5. CASE phase \in {"step", "declined", "flush"}
  <2>1. emitted # <<>> /\ log = p \o Front(emitted)
    BY <1>5 DEF IInv, LogPlace, p
  <2> QED
    BY <1>1, <2>1, ConversationEnds DEF p
<1> QED
  BY <1>3, <1>4, <1>5 DEF IInv, TypeOK, Phases

\* During a call the cache holds a part of the caller's conversation, so a
\* follow-up never continues someone else's.
THEOREM CacheIsOwn == Spec => []CacheIsThisConversation
<1>1. IInv => CacheIsThisConversation
  BY LogInConversation DEF IInv, CacheCoherent, CacheIsThisConversation
<1> QED
  BY <1>1, InvHolds, PTL

\* A completed answer is in the cache but for its last token: the promise of
\* prefix reuse to the next turn of a chat.
THEOREM AnswerIsCached == Spec => []CompletedAnswerIsCached
<1>1. IInv => CompletedAnswerIsCached
  BY DEF IInv, LogPlace, CacheCoherent, CompletedAnswerIsCached
<1> QED
  BY <1>1, InvHolds, PTL

----------------------------------------------------------------------------
\* The promise of Generation.

\* The abstract specification speaks the language of the detailed one.
LEMMA SameLanguage ==
  /\ \A ts : Promise!Decode(ts) = Decode(ts)
  /\ \A ts : Promise!TextTokens(ts) = TextTokens(ts)
  /\ \A law : Promise!Support(law) = Support(law)
  /\ \A s, t : Promise!IsPrefix(s, t) <=> IsPrefix(s, t)
  /\ \A s : Promise!Last(s) = Last(s)
  /\ Promise!Requests = Requests /\ Promise!NoRequest = NoRequest
  /\ Promise!NoResult = NoResult /\ Promise!Failure = Failure
  /\ Promise!FullText = Decode(TextTokens(emitted))
  BY DEF Decode, Promise!Decode, FlattenSeq, Promise!FlattenSeq, Piece, Promise!Piece,
     TextTokens, Promise!TextTokens, Support, Promise!Support, Requests, Promise!Requests,
     NoRequest, Promise!NoRequest, NoResult, Promise!NoResult, Failure, Promise!Failure,
     Promise!FullText, Last, Promise!Last, Front, Promise!Front, IsPrefix, Promise!IsPrefix

\* The text shown and accepted during a call, and the text of its answer.
LEMMA TextOfCall ==
  ASSUME IInv, phase # "idle"
  PROVE  /\ IsPrefix(shown, shown) /\ IsPrefix(text, shown)
         /\ IsPrefix(shown, Decode(TextTokens(emitted)))
<1>1. emitted \in Seq(Vocab)
  BY DEF IInv, TypeOK
<1>2. PICK k \in 0..Len(emitted) :
        /\ k = 0 \/ emitted[k] \notin Lead \cup Eos
        /\ shown = Decode(SubSeq(emitted, 1, k))
        /\ IF phase = "declined" THEN IsPrefix(text, shown) ELSE text = shown
  BY DEF IInv, TextPlace, Complete
<1>3. SubSeq(emitted, 1, k) \in Seq(Vocab)
  BY <1>1, CutType
<1>4. shown \in Seq(Characters)
  BY <1>2, <1>3, DecodeType
<1>5. IsPrefix(shown, shown)
  BY <1>4, PrefixEnds
<1>6. IsPrefix(shown, Decode(TextTokens(emitted)))
  BY <1>1, <1>2, ShownIsPrefix
<1> QED
  BY <1>2, <1>5, <1>6

\* A call that is cut short hands out nothing more.
LEMMA CutShort ==
  ASSUME IInv, phase # "idle", request' = NoRequest, UNCHANGED <<emitted, shown>>,
         result' = Failure \/ result' = [finish |-> "cancelled", text |-> text]
  PROVE  Promise!Abandon
<1>1. request # NoRequest
  BY DEF IInv, CallShape
<1>2. IsPrefix(shown, shown) /\ IsPrefix(text, shown)
  BY TextOfCall
<1>3. Promise!ShowMore(Promise!FullText)
  BY <1>2, SameLanguage DEF Promise!ShowMore
<1>4. \/ result' = Promise!Failure
      \/ result'.finish = "cancelled" /\ Promise!IsPrefix(result'.text, shown')
  BY <1>2, SameLanguage
<1> QED
  BY <1>1, <1>3, <1>4, SameLanguage DEF Promise!Abandon, Promise!Busy

\* A sampled token is a token of the model's law for the conversation, and
\* the text shown with it extends the text shown before.
LEMMA SampleEmits ==
  ASSUME IInv, NEW t \in Vocab, NEW go \in BOOLEAN, Sample(t, go)
  PROVE  Promise!Emit(t)
<1>1. /\ phase = "decode" /\ emitted' = Append(emitted, t)
      /\ t \in Support(Law(cached_logits, seen))
      /\ UNCHANGED <<request, result>>
  BY DEF Sample
<1>2. /\ request # NoRequest /\ seen = emitted /\ log = request.prompt \o emitted
      /\ cached_logits = log /\ Len(emitted) < request.limit
      /\ \A i \in DOMAIN emitted : emitted[i] \notin Eos
  BY <1>1 DEF IInv, CallShape, LogPlace, Budget, CacheCoherent
<1>3. IsPrefix(shown, shown')
  <2>1. PICK k \in 0..Len(emitted) :
          /\ k = 0 \/ emitted[k] \notin Lead \cup Eos
          /\ shown = Decode(SubSeq(emitted, 1, k))
    BY <1>1 DEF IInv, TextPlace, Complete
  <2>2. emitted \in Seq(Vocab) /\ Len(emitted) \in Nat
    BY LenProperties DEF IInv, TypeOK
  <2>3. /\ emitted' \in Seq(Vocab) /\ Len(emitted') = Len(emitted) + 1
        /\ \A i \in 1..Len(emitted) : emitted'[i] = emitted[i]
        /\ SubSeq(emitted', 1, k) = SubSeq(emitted, 1, k)
    BY <1>1, <2>2, AppendEnds, CutOfAppend
  <2>4. k \in 0..Len(emitted') /\ (k = 0 \/ emitted'[k] \notin Lead \cup Eos)
    BY <2>1, <2>2, <2>3
  <2>5. IsPrefix(shown, Decode(TextTokens(emitted')))
    BY <2>1, <2>3, <2>4, ShownIsPrefix
  <2>6. IsPrefix(shown, shown)
    BY <1>1, TextOfCall
  <2> QED
    BY <2>5, <2>6 DEF Sample, Show
<1>4. shown' \in {shown, Decode(TextTokens(emitted'))}
  BY DEF Sample, Show
<1>5. Promise!ShowMore(Promise!Decode(Promise!TextTokens(emitted')))
  BY <1>3, <1>4, SameLanguage DEF Promise!ShowMore
<1> QED
  BY <1>1, <1>2, <1>5, SameLanguage DEF Promise!Emit, Promise!Busy

\* A flush completes the answer.
LEMMA FlushCompletes ==
  ASSUME IInv, Flush
  PROVE  Promise!Complete
<1> DEFINE full == Decode(TextTokens(emitted))
<1>1. /\ phase = "flush" /\ shown' = full /\ request' = NoRequest
      /\ result' = [finish |-> IF Last(emitted) \in Eos THEN "stop" ELSE "length",
                    text   |-> full]
      /\ emitted' = emitted
  BY DEF Flush, Return
<1>2. /\ request # NoRequest /\ emitted # <<>>
      /\ Last(emitted) \notin Eos => Len(emitted) = request.limit
  BY <1>1 DEF IInv, CallShape, LogPlace, Budget
<1>3. IsPrefix(shown, full)
  BY <1>1, TextOfCall
<1>4. Promise!FullText = full
  BY SameLanguage
<1> HIDE DEF full
<1>5. Promise!ShowMore(Promise!FullText)
  BY <1>1, <1>3, <1>4, SameLanguage DEF Promise!ShowMore
<1>6. result'.text = full /\ result'.finish = IF Last(emitted) \in Eos THEN "stop" ELSE "length"
  BY <1>1
<1> QED
  BY <1>1, <1>2, <1>4, <1>5, <1>6, SameLanguage DEF Promise!Complete, Promise!Busy

\* Every step of the generator is a step of its promise, or nothing a caller
\* sees.
LEMMA StepKeeps ==
  IInv /\ [Next]_vars => [Promise!Next]_<<request, emitted, shown, result>>
<1> SUFFICES ASSUME IInv, [Next]_vars
             PROVE  [Promise!Next]_<<request, emitted, shown, result>>
  OBVIOUS
<1>1. ASSUME NEW r \in Requests, Generate(r) PROVE Promise!Begin(r)
  BY <1>1, SameLanguage
  DEF Generate, Promise!Begin, Promise!Busy, IInv, CallShape
<1>2. ASSUME NEW r \in Requests, RefuseRequest(r) PROVE Promise!Reject
  BY <1>2, SameLanguage
  DEF RefuseRequest, Return, Promise!Reject, Promise!Busy, IInv, CallShape
<1>3. CASE Prefill
  BY <1>3 DEF Prefill
<1>4. CASE AbortPrefill
  BY <1>4, CutShort DEF AbortPrefill, Return, Promise!Next
<1>5. ASSUME NEW t \in Vocab, NEW go \in BOOLEAN, Sample(t, go) PROVE Promise!Emit(t)
  BY <1>5, SampleEmits
<1>6. CASE Cancel
  BY <1>6, CutShort DEF Cancel, Return, Promise!Next
<1>7. CASE SampleFails
  BY <1>7, CutShort DEF SampleFails, Return, Promise!Next
<1>8. CASE Step
  BY <1>8 DEF Step
<1>9. CASE StepFails
  BY <1>9, CutShort DEF StepFails, Return, Promise!Next
<1>10. CASE Flush
  BY <1>10, FlushCompletes DEF Promise!Next
<1>11. CASE UNCHANGED vars
  BY <1>11 DEF vars, callVars
<1> QED
  BY <1>1, <1>2, <1>3, <1>4, <1>5, <1>6, <1>7, <1>8, <1>9, <1>10, <1>11, SameLanguage
  DEF Next, Promise!Next

\* The generator keeps its promise for every model and tokenizer: each token
\* is drawn from the law of the conversation so far however much of it came
\* from the cache, text is never taken back, and the answer is what its
\* finish reason says.
THEOREM ChatKeepsPromise == Spec => KeepsPromise
<1>1. Init => Promise!Init
  BY SameLanguage DEF Init, Promise!Init
<1> QED
  BY <1>1, StepKeeps, InvHolds, PTL DEF Spec, KeepsPromise, Promise!Spec
=============================================================================
