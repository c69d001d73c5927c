--------------------------- MODULE MtpChatProofs ---------------------------
(***************************************************************************)
(* Proofs about the generator with multi-token prediction, for every pair  *)
(* of models, block size, prompt, limit and context: at every round the    *)
(* target and the drafter hold the same conversation, a round always has   *)
(* room, and drafting changes nothing a caller can see.                    *)
(*                                                                         *)
(* The invariant speaks of Talk, the conversation with the tokens verified *)
(* but not yet pushed: pushing a token leaves Talk as it is, so what a     *)
(* round established about target, drafter, drafts and rows holds until    *)
(* the repair that uses it.                                                *)
(***************************************************************************)
EXTENDS MtpChat, LanguageProofs, FiniteSetTheorems

Phases == {"idle", "prefill", "first", "next", "push", "step", "seed", "round",
           "verify", "judge", "repair", "flush"}

Slots == [token : Vocab, hidden : Seq(Vocab) \cup {SelfHidden}]

TypeOK ==
  /\ log \in Seq(Vocab)
  /\ drafter \in Seq(Slots)
  /\ request \in Requests \cup {NoRequest}
  /\ mtp \in BOOLEAN /\ phase \in Phases
  /\ rows \in Seq(Seq(Vocab))
  /\ drafts \in Seq(Vocab) /\ verified \in Nat
  /\ queue \in Seq(Vocab) /\ emitted \in Seq(Vocab)

\* The answer with the tokens still to be pushed, and the conversation.
Answer == emitted \o queue
Talk   == request.prompt \o Answer

\* The pushes before the first round, and those of a round, end here.
FirstPush == phase = "push" /\ emitted = <<>>
RoundPush == phase = "push" /\ emitted # <<>> /\ mtp

\* A call is in progress exactly when a request is, and the request fits;
\* outside of a round and its repair no draft is held.
CallShape ==
  /\ phase = "idle" <=> request = NoRequest
  /\ phase # "idle" => /\ seen = emitted
                       /\ Len(request.prompt) + request.limit <= Context
  /\ phase # "judge" => proposal = <<>>
  /\ phase \notin {"push", "flush"} => queue = <<>>
  /\ phase \notin {"idle", "flush"} => finish = "none"
  /\ phase = "next" => emitted # <<>>
  /\ phase \in {"step", "next"} => ~mtp
  /\ phase \in {"seed", "round", "verify", "judge", "repair"} => mtp
  /\ (phase \in {"idle", "prefill", "first", "seed", "round"} \/ FirstPush) =>
       drafts = <<>> /\ verified = 0

\* Where the target stands: inside the prompt, after everything said, or
\* after everything said or still to be pushed but the last token.
LogPlace ==
  /\ phase \in {"prefill", "first"} => emitted = <<>>
  /\ phase = "prefill" => IsPrefix(log, request.prompt) /\ Len(log) < Len(request.prompt)
  /\ phase = "first" => log = request.prompt
  /\ phase = "next" => log = Talk
  /\ phase \in {"push", "step", "seed", "round", "verify", "judge", "repair"} =>
       Answer # <<>> /\ log = request.prompt \o Front(Answer)

\* The row a single token is drawn from is that of the log.
RowPlace ==
  /\ phase \in {"first", "next"} => rows # <<>> /\ rows[1] = log
  /\ FirstPush => Len(queue) = 1
  /\ phase = "seed" => Len(emitted) = 1
  /\ FirstPush \/ phase = "seed" => rows # <<>> /\ rows[1] = request.prompt

\* The first n slots of the drafter hold x, shifted by one token, each
\* joined with the target's row for x up to that token or a row of its own.
Aligned(x, n) ==
  /\ n <= Len(drafter)
  /\ \A i \in 1..n : /\ drafter[i].token = x[i + 1]
                     /\ drafter[i].hidden \in {SelfHidden, SubSeq(x, 1, i)}

\* Drafts the drafter has consumed: all but the last.
Consumed == IF drafts = <<>> THEN 0 ELSE Len(drafts) - 1

\* The length of the conversation before the round, but for its anchor.
Base == Len(log) - verified - 1

\* Where the drafter stands in a call with drafts.
DrafterPlace ==
  mtp =>
    /\ phase = "prefill" =>
         /\ Len(drafter) = IF log = <<>> THEN 0 ELSE Len(log) - 1
         /\ Aligned(request.prompt, Len(drafter))
    /\ (phase \in {"first", "seed"} \/ FirstPush) =>
         /\ Len(drafter) = Len(request.prompt) - 1
         /\ Aligned(request.prompt, Len(drafter))
    /\ phase \in {"round", "verify", "judge"} =>
         /\ Len(drafter) = Len(log) + Consumed
         /\ Aligned(Talk, Len(log))
    /\ phase \in {"verify", "judge"} =>
         \A j \in 1..Consumed : drafter[Len(log) + j] = Slot(drafts[j], SelfHidden)
    /\ (phase = "repair" \/ RoundPush) =>
         /\ Base \in Nat /\ Len(drafter) = Base + Consumed
         /\ Aligned(Talk, Base + Smaller(verified, Consumed))

\* What a round holds: before the verdict the rows of the anchor and every
\* draft, after it the accepted drafts and their rows as parts of Talk.
RoundPlace ==
  /\ phase = "judge" =>
       /\ proposal = <<Last(emitted)>> \o drafts
       /\ Len(rows) = Len(drafts) + 1
       /\ \A j \in 1..Len(rows) : rows[j] = Talk \o SubSeq(drafts, 1, j - 1)
  /\ (phase = "repair" \/ RoundPush) =>
       /\ verified <= Len(drafts) /\ verified < Len(rows)
       /\ \A j \in 1..verified : drafts[j] = Talk[Base + 1 + j]
       /\ \A j \in 1..(verified + 1) : rows[j] = SubSeq(Talk, 1, Base + j)

\* Tokens are pushed while the request has some left, and none is an EOS
\* before the end.
Budget ==
  /\ phase \notin {"idle", "flush"} =>
       /\ Len(emitted) + Len(queue) <= request.limit
       /\ \A i \in DOMAIN emitted : emitted[i] \notin Eos
  /\ phase \notin {"idle", "flush", "push"} => Len(emitted) < request.limit
  /\ phase \in {"verify", "judge"} => Len(emitted) + Len(drafts) < request.limit
  /\ phase = "flush" =>
       \/ finish = "cancelled"
       \/ finish = "stop" /\ emitted # <<>> /\ Last(emitted) \in Eos
       \/ /\ finish = "length" /\ emitted # <<>> /\ Last(emitted) \notin Eos
          /\ Len(emitted) = request.limit

\* The answer up to the token before queue[i].
Before(i) == SubSeq(Answer, 1, Len(emitted) + i - 1)

\* Every token still to be pushed is one of the target's law.
Drawn ==
  phase = "push" =>
    /\ queue # <<>>
    /\ \A i \in 1..Len(queue) :
         queue[i] \in Support(Law(request.prompt \o Before(i), Before(i)))

\* The first k tokens emitted end a character and are not an EOS.
Complete(k) == k = 0 \/ emitted[k] \notin Lead \cup Eos

TextPlace ==
  phase # "idle" =>
    \E k \in 0..Len(emitted) :
      /\ Complete(k)
      /\ shown = Decode(SubSeq(emitted, 1, k))
      /\ IF finish = "cancelled" THEN IsPrefix(text, shown) ELSE text = shown

IInv ==
  /\ TypeOK
  /\ CallShape
  /\ LogPlace
  /\ RowPlace
  /\ DrafterPlace
  /\ RoundPlace
  /\ Budget
  /\ Drawn
  /\ TextPlace

USE LanguageAssumption, MtpAssumption

----------------------------------------------------------------------------
\* Lemmas.

\* A request that is served has a prompt and room for a token.
LEMMA RequestType ==
  ASSUME NEW r \in Requests
  PROVE  /\ r.prompt \in Seq(Vocab) /\ r.prompt # <<>>
         /\ r.limit \in Nat /\ r.limit > 0
         /\ r # NoRequest
<1>1. r.prompt \in Prompts /\ r.limit \in Limits
  BY DEF Requests
<1>2. r.prompt \in Seq(Vocab) /\ r.prompt # <<>> /\ r.limit \in Nat /\ r.limit > 0
  <2>1. r.prompt \in Seq(Vocab) /\ r.prompt # <<>> /\ r.limit \in Nat \ {0}
    BY <1>1, LanguageAssumption, Zenon
  <2> QED
    BY <2>1
<1>3. r # NoRequest
  BY <1>2 DEF NoRequest
<1> QED
  BY <1>2, <1>3

\* During a call the prompt, the answer and the conversation are sequences
\* of tokens; with nothing left to push the answer is what was emitted.
LEMMA TalkType ==
  ASSUME TypeOK, CallShape, phase # "idle"
  PROVE  /\ request \in Requests /\ request.limit \in Nat /\ request.limit > 0
         /\ request.prompt \in Seq(Vocab) /\ request.prompt # <<>>
         /\ Len(request.prompt) \in Nat /\ Len(request.prompt) > 0
         /\ emitted \in Seq(Vocab) /\ Len(emitted) \in Nat
         /\ queue \in Seq(Vocab) /\ Len(queue) \in Nat
         /\ Answer \in Seq(Vocab) /\ Len(Answer) = Len(emitted) + Len(queue)
         /\ Talk \in Seq(Vocab) /\ Len(Talk) = Len(request.prompt) + Len(Answer)
         /\ queue = <<>> => Answer = emitted
<1>1. request \in Requests
  BY DEF TypeOK, CallShape
<1>2. /\ request.prompt \in Seq(Vocab) /\ request.prompt # <<>>
      /\ request.limit \in Nat /\ request.limit > 0
  BY <1>1, RequestType
<1>3. emitted \in Seq(Vocab) /\ queue \in Seq(Vocab)
  BY DEF TypeOK
<1>4. Answer \in Seq(Vocab) /\ Len(Answer) = Len(emitted) + Len(queue)
  BY <1>3, ConcatProperties DEF Answer
<1>5. Talk \in Seq(Vocab) /\ Len(Talk) = Len(request.prompt) + Len(Answer)
  BY <1>2, <1>4, ConcatProperties DEF Talk
<1>6. queue = <<>> => Answer = emitted
  BY <1>3, ConcatEmptySeq DEF Answer
<1>7. /\ Len(request.prompt) \in Nat /\ Len(request.prompt) > 0
      /\ Len(emitted) \in Nat /\ Len(queue) \in Nat
  BY <1>2, <1>3, EmptyOrLonger
<1> QED
  BY <1>1, <1>2, <1>3, <1>4, <1>5, <1>6, <1>7

\* A call that has ended leaves nothing behind the next one could see.
LEMMA EndsCall ==
  ASSUME log' = <<>>, drafter' = <<>>, proposal' = <<>>, request' = NoRequest,
         phase' = "idle", queue' = <<>>, drafts' = <<>>, verified' = 0,
         rows' \in Seq(Seq(Vocab)), mtp' \in BOOLEAN, emitted' \in Seq(Vocab)
  PROVE  IInv'
<1>1. TypeOK'
  BY EmptySeq DEF TypeOK, Phases
<1>2. CallShape'
  BY DEF CallShape, FirstPush
<1>3. LogPlace' /\ RowPlace'
  BY DEF LogPlace, RowPlace, FirstPush
<1>4. DrafterPlace' /\ RoundPlace'
  BY DEF DrafterPlace, RoundPlace, FirstPush, RoundPush
<1>5. Budget' /\ Drawn' /\ TextPlace'
  BY DEF Budget, Drawn, TextPlace
<1> QED
  BY <1>1, <1>2, <1>3, <1>4, <1>5 DEF IInv

\* An action that emits and shows nothing leaves the text where it was.
LEMMA TextStays ==
  ASSUME IInv, phase # "idle", UNCHANGED <<emitted, text, shown, finish>>
  PROVE  TextPlace'
  BY DEF IInv, TextPlace, Complete

\* The rows of a block end with the history after it.
LEMMA RowsOfBlock ==
  ASSUME NEW h \in Seq(Vocab), NEW ts \in Seq(Vocab)
  PROVE  /\ Target!RowsAfter(h, ts) \in Seq(Seq(Vocab))
         /\ Len(Target!RowsAfter(h, ts)) = Len(ts)
         /\ \A i \in 1..Len(ts) : Target!RowsAfter(h, ts)[i] = h \o SubSeq(ts, 1, i)
         /\ ts # <<>> => Last(Target!RowsAfter(h, ts)) = h \o ts
<1> DEFINE r == Target!RowsAfter(h, ts)
<1>1. Len(ts) \in Nat
  BY LenProperties
<1>2. \A i \in 1..Len(ts) : h \o SubSeq(ts, 1, i) \in Seq(Vocab)
  <2> SUFFICES ASSUME NEW i \in 1..Len(ts) PROVE h \o SubSeq(ts, 1, i) \in Seq(Vocab)
    OBVIOUS
  <2>1. SubSeq(ts, 1, i) \in Seq(Vocab)
    BY <1>1, CutType
  <2> QED
    BY <2>1, ConcatProperties
<1>3. /\ r \in Seq(Seq(Vocab)) /\ Len(r) = Len(ts)
      /\ \A i \in 1..Len(ts) : r[i] = h \o SubSeq(ts, 1, i)
  BY <1>1, <1>2 DEF Target!RowsAfter
<1> HIDE DEF r
<1>4. ts # <<>> => Last(r) = h \o ts
  <2> SUFFICES ASSUME ts # <<>> PROVE Last(r) = h \o ts
    OBVIOUS
  <2>1. Len(ts) \in 1..Len(ts) /\ SubSeq(ts, 1, Len(ts)) = ts
    BY EmptyOrLonger, SubSeqFull
  <2> QED
    BY <1>3, <2>1 DEF Last
<1> QED
  BY <1>3, <1>4 DEF r

----------------------------------------------------------------------------
\* The invariant is inductive.

\* A generator starts with nothing in its caches.
LEMMA InitInv == Init => IInv
<1> SUFFICES ASSUME Init PROVE IInv
  OBVIOUS
<1>1. TypeOK
  BY EmptySeq DEF Init, Target!Init, TypeOK, Phases
<1>2. CallShape
  BY DEF Init, Target!Init, CallShape, FirstPush
<1>3. LogPlace /\ RowPlace
  BY DEF Init, LogPlace, RowPlace, FirstPush
<1>4. DrafterPlace /\ RoundPlace
  BY DEF Init, DrafterPlace, RoundPlace, FirstPush, RoundPush
<1>5. Budget /\ Drawn /\ TextPlace
  BY DEF Init, Budget, Drawn, TextPlace
<1> QED
  BY <1>1, <1>2, <1>3, <1>4, <1>5 DEF IInv

\* A call starts with empty caches, or is refused.
LEMMA StartInv ==
  ASSUME IInv, NEW r \in Requests, NEW use \in BOOLEAN, Start(r, use)
  PROVE  IInv'
<1>1. /\ r.prompt \in Seq(Vocab) /\ r.prompt # <<>>
      /\ r.limit \in Nat /\ r.limit > 0 /\ r # NoRequest
  BY RequestType
<1>2. /\ phase = "idle" /\ log' = <<>> /\ proposal' = <<>> /\ drafter' = <<>>
      /\ mtp' = use /\ emitted' = <<>> /\ finish' = "none"
      /\ text' = <<>> /\ shown' = <<>> /\ seen' = <<>>
      /\ UNCHANGED <<rows, drafts, verified, queue>>
  BY DEF Start, ClearCache, Target!Forget, roundVars
<1>3. /\ request = NoRequest /\ queue = <<>> /\ drafts = <<>> /\ verified = 0
      /\ rows \in Seq(Seq(Vocab))
  BY <1>2 DEF IInv, TypeOK, CallShape
<1>4. <<>> \in Seq(Vocab) /\ <<>> \in Seq(Slots) /\ Len(<<>>) = 0
  BY EmptySeq
<1>5. CASE ~(Len(r.prompt) + r.limit <= Context)
  <2>1. phase' = "idle" /\ request' = NoRequest
    BY <1>3, <1>5 DEF Start
  <2> QED
    BY <1>2, <1>3, <1>4, <2>1, EndsCall
<1>6. CASE Len(r.prompt) + r.limit <= Context
  <2>1. phase' = "prefill" /\ request' = r
    BY <1>6 DEF Start
  <2>2. TypeOK'
    BY <1>2, <1>3, <1>4, <2>1 DEF TypeOK, Phases
  <2>3. CallShape'
    BY <1>1, <1>2, <1>3, <1>6, <2>1 DEF CallShape, FirstPush
  <2>4. LogPlace'
    <3>1. IsPrefix(<<>>, r.prompt) /\ Len(<<>>) < Len(r.prompt)
      BY <1>1, <1>4, PrefixEnds, EmptyOrLonger
    <3> QED
      BY <1>2, <2>1, <3>1 DEF LogPlace
  <2>5. RowPlace' /\ RoundPlace'
    BY <2>1 DEF RowPlace, RoundPlace, FirstPush, RoundPush
  <2>6. DrafterPlace'
    BY <1>2, <1>4, <2>1 DEF DrafterPlace, FirstPush, RoundPush, Aligned
  <2>7. Budget'
    BY <1>1, <1>2, <1>3, <1>4, <2>1 DEF Budget
  <2>8. Drawn'
    BY <2>1 DEF Drawn
  <2>9. TextPlace'
    <3>1. SubSeq(<<>>, 1, 0) = <<>> /\ 0 \in 0..Len(<<>>)
      BY SubSeqEmpty
    <3>2. Decode(SubSeq(<<>>, 1, 0)) = <<>>
      BY <3>1, DecodeNothing
    <3> QED
      BY <1>2, <2>1, <3>1, <3>2 DEF TextPlace, Complete
  <2> QED
    BY <2>2, <2>3, <2>4, <2>5, <2>6, <2>7, <2>8, <2>9 DEF IInv
<1> QED
  BY <1>5, <1>6

\* What a prefill leaves alone.
LEMMA PrefillFrame ==
  ASSUME IInv, phase = "prefill", phase' \in {"prefill", "first"},
         proposal' = <<>>, log' \in Seq(Vocab), drafter' \in Seq(Slots),
         rows' \in Seq(Seq(Vocab)),
         UNCHANGED <<request, mtp, drafts, verified, queue, outVars>>
  PROVE  /\ TypeOK' /\ CallShape' /\ RoundPlace' /\ Budget' /\ Drawn' /\ TextPlace'
         /\ emitted' = <<>>
<1>1. UNCHANGED <<emitted, text, shown, finish, seen>>
  BY DEF outVars
<1>2. TypeOK'
  BY <1>1 DEF IInv, TypeOK, Phases
<1>3. CallShape'
  BY <1>1 DEF IInv, CallShape, FirstPush
<1>4. RoundPlace' /\ Drawn'
  BY DEF RoundPlace, Drawn, RoundPush
<1>5. Budget'
  BY <1>1 DEF IInv, Budget
<1>6. TextPlace'
  BY <1>1, TextStays
<1>7. emitted' = <<>>
  BY <1>1 DEF IInv, LogPlace
<1> QED
  BY <1>2, <1>3, <1>4, <1>5, <1>6, <1>7

\* A chunk brings the target to upto, and the drafter to one place less.
LEMMA PrefillChunkInv ==
  ASSUME IInv, PrefillChunk
  PROVE  IInv'
<1> DEFINE p     == request.prompt
           done  == Len(log)
           upto  == Smaller(done + BlockSize, Len(p))
           chunk == SubSeq(p, done + 1, upto)
           d     == Len(drafter)
           more  == [i \in 1..(upto - d - 1) |->
                       Slot(p[d + 1 + i], SubSeq(log', 1, d + i))]
<1>1. /\ phase = "prefill" /\ mtp /\ IsPrefix(log, p) /\ done < Len(p)
      /\ log \in Seq(Vocab) /\ drafter \in Seq(Slots)
      /\ d = IF log = <<>> THEN 0 ELSE done - 1
      /\ Aligned(p, d)
  BY DEF PrefillChunk, IInv, TypeOK, LogPlace, DrafterPlace
<1>2. p \in Seq(Vocab) /\ Len(p) \in Nat /\ done \in Nat /\ d \in Nat
  BY <1>1, TalkType, LenProperties DEF IInv
<1>3. /\ Target!Absorb(chunk) /\ answer' = Target!RowsAfter(log, chunk)
      /\ rows' = <<Last(answer')>>
      /\ phase' = IF upto = Len(p) THEN "first" ELSE "prefill"
      /\ UNCHANGED <<request, mtp, drafts, verified, queue, outVars>>
  BY DEF PrefillChunk
<1>4. drafter' = drafter \o more
  <2>1. drafter' = drafter \o
              [i \in 1..(upto - d - 1) |->
                 Slot(p[d + 1 + i], SubSeq(log', 1, (d + 1 + i) - 1))]
    BY DEF PrefillChunk
  <2>2. \A i \in 1..(upto - d - 1) : (d + 1 + i) - 1 = d + i
    BY <1>2
  <2> QED
    BY <2>1, <2>2
<1>5. upto \in (done + 1)..Len(p)
  BY <1>1, <1>2 DEF Smaller
<1>6. log = SubSeq(p, 1, done)
  <2>1. SubSeq(p, 1, done) = SubSeq(log, 1, done)
    BY <1>1, <1>2, PrefixParts
  <2> QED
    BY <1>1, <2>1, SubSeqFull
<1>7. log' = SubSeq(p, 1, upto) /\ proposal' = <<>>
  <2>1. log' = log \o chunk /\ proposal' = proposal
    BY <1>3 DEF Target!Absorb
  <2>2. /\ 1 \in 1..(Len(p) + 1) /\ done \in (1 - 1)..Len(p) /\ upto \in done..Len(p)
    BY <1>1, <1>2, <1>5
  <2>3. SubSeq(p, 1, done) \o SubSeq(p, done + 1, upto) = SubSeq(p, 1, upto)
    BY <1>2, <2>2, ConcatAdjacentSubSeq
  <2>4. proposal = <<>>
    BY <1>1 DEF IInv, CallShape
  <2> QED
    BY <1>6, <2>1, <2>3, <2>4
<1>8. chunk \in Seq(Vocab) /\ Len(chunk) = upto - done /\ chunk # <<>>
  <2>1. \A i \in (done + 1)..upto : p[i] \in Vocab
    <3>1. \A i \in (done + 1)..upto : i \in 1..Len(p)
      BY <1>2, <1>5
    <3> QED
      BY <1>2, <3>1, ElementOfSeq
  <2>2. done + 1 \in Int /\ upto \in Int /\ done + 1 <= upto
    BY <1>2, <1>5
  <2>3. chunk \in Seq(Vocab) /\ Len(chunk) = upto - (done + 1) + 1
    BY <2>1, <2>2, SubSeqProperties
  <2> HIDE DEF chunk, upto, done
  <2>4. Len(chunk) = upto - done /\ Len(chunk) > 0
    BY <1>2, <2>2, <2>3
  <2> QED
    BY <2>3, <2>4, EmptyOrLonger
<1>9. rows' = <<log'>> /\ rows' \in Seq(Seq(Vocab)) /\ log' \in Seq(Vocab)
  <2>1. Last(answer') = log \o chunk
    BY <1>1, <1>3, <1>8, RowsOfBlock
  <2>2. log' = log \o chunk
    BY <1>3 DEF Target!Absorb
  <2>3. log' \in Seq(Vocab)
    BY <1>1, <1>8, <2>2, ConcatProperties
  <2>4. rows' = <<log'>>
    BY <1>3, <2>1, <2>2
  <2> QED
    BY <2>3, <2>4, OneRow
<1> HIDE DEF upto, chunk, done
<1>10. /\ Len(log') = upto
       /\ \A i \in 0..upto : SubSeq(log', 1, i) = SubSeq(p, 1, i)
       /\ IsPrefix(log', p)
  <2>1. upto \in 0..Len(p) /\ upto \in Nat
    BY <1>2, <1>5
  <2>2. Len(log') = upto
    BY <1>2, <1>7, <2>1, CutType
  <2>3. \A i \in 0..upto : SubSeq(log', 1, i) = SubSeq(p, 1, i)
    BY <1>2, <1>7, <2>1, CutOfCut
  <2>4. IsPrefix(log', p)
    BY <1>2, <1>7, <2>1, PrefixOfCut
  <2> QED
    BY <2>2, <2>3, <2>4
<1>11. d <= upto - 1 /\ upto \in Nat /\ upto <= Len(p) /\ upto > 0
  BY <1>1, <1>2, <1>5 DEF done
<1>12. /\ more \in Seq(Slots) /\ Len(more) = upto - d - 1
       /\ \A i \in 1..(upto - d - 1) : more[i] = Slot(p[d + 1 + i], SubSeq(p, 1, d + i))
  <2>1. ASSUME NEW i \in 1..(upto - d - 1)
        PROVE  /\ SubSeq(log', 1, d + i) = SubSeq(p, 1, d + i)
               /\ Slot(p[d + 1 + i], SubSeq(log', 1, d + i)) \in Slots
    <3>1. d + i \in 0..upto /\ d + 1 + i \in 1..Len(p) /\ d + i \in 0..Len(p)
      BY <1>2, <1>11
    <3>2. SubSeq(log', 1, d + i) = SubSeq(p, 1, d + i)
      BY <1>10, <3>1
    <3>3. SubSeq(p, 1, d + i) \in Seq(Vocab)
      BY <1>2, <3>1, CutType
    <3>4. p[d + 1 + i] \in Vocab
      BY <1>2, <3>1, ElementOfSeq
    <3> QED
      BY <3>2, <3>3, <3>4 DEF Slot, Slots
  <2>2. upto - d - 1 \in Nat
    BY <1>2, <1>11
  <2>3. more \in [1..(upto - d - 1) -> Slots]
    BY <2>1
  <2>4. \A i \in 1..(upto - d - 1) : more[i] = Slot(p[d + 1 + i], SubSeq(p, 1, d + i))
    BY <2>1
  <2> HIDE DEF more
  <2> QED
    BY <2>2, <2>3, <2>4, FunctionIsSeq
<1> HIDE DEF more
<1>13. /\ drafter' \in Seq(Slots) /\ Len(drafter') = upto - 1
       /\ \A i \in 1..(upto - 1) :
            drafter'[i] = IF i <= d THEN drafter[i] ELSE Slot(p[i + 1], SubSeq(p, 1, i))
  <2>1. /\ drafter' \in Seq(Slots) /\ Len(drafter') = d + Len(more)
        /\ \A i \in 1..d + Len(more) :
             drafter'[i] = IF i <= d THEN drafter[i] ELSE more[i - d]
    BY <1>1, <1>4, <1>12, ConcatProperties
  <2>2. d + Len(more) = upto - 1
    BY <1>2, <1>11, <1>12
  <2>3. ASSUME NEW i \in 1..(upto - 1), ~(i <= d)
        PROVE  more[i - d] = Slot(p[i + 1], SubSeq(p, 1, i))
    <3>1. i - d \in 1..(upto - d - 1) /\ d + 1 + (i - d) = i + 1 /\ d + (i - d) = i
      BY <1>2, <1>11, <2>3
    <3> QED
      BY <1>12, <3>1
  <2> QED
    BY <2>1, <2>2, <2>3
<1>14. Aligned(p, Len(drafter))'
  <2>1. request' = request
    BY <1>3
  <2>2. ASSUME NEW i \in 1..(upto - 1)
        PROVE  /\ drafter'[i].token = p[i + 1]
               /\ drafter'[i].hidden \in {SelfHidden, SubSeq(p, 1, i)}
    <3>1. CASE i <= d
      <4>1. i \in 1..d
        BY <1>2, <3>1
      <4> QED
        BY <1>1, <1>13, <3>1, <4>1 DEF Aligned
    <3>2. CASE ~(i <= d)
      BY <1>13, <3>2 DEF Slot
    <3> QED
      BY <3>1, <3>2
  <2> QED
    BY <1>11, <1>13, <2>1, <2>2 DEF Aligned
<1>15. log' # <<>>
  BY <1>9, <1>10, <1>11, EmptyOrLonger
<1>16. /\ TypeOK' /\ CallShape' /\ RoundPlace' /\ Budget' /\ Drawn' /\ TextPlace'
       /\ emitted' = <<>>
  BY <1>1, <1>3, <1>7, <1>9, <1>13, PrefillFrame
<1>17. upto = Len(p) => log' = p
  BY <1>2, <1>7, SubSeqFull
<1>18. LogPlace'
  BY <1>3, <1>10, <1>11, <1>16, <1>17 DEF LogPlace
<1>19. RowPlace'
  BY <1>3, <1>9 DEF RowPlace, FirstPush
<1>20. DrafterPlace'
  <2>1. CASE upto = Len(p)
    BY <1>3, <1>13, <1>14, <2>1 DEF DrafterPlace, FirstPush, RoundPush
  <2>2. CASE upto # Len(p)
    BY <1>3, <1>10, <1>13, <1>14, <1>15, <2>2 DEF DrafterPlace, FirstPush, RoundPush
  <2> QED
    BY <2>1, <2>2
<1> QED
  BY <1>16, <1>18, <1>19, <1>20 DEF IInv

\* The reference prefills token by token; its drafter has no place to keep.
LEMMA PrefillTokenInv ==
  ASSUME IInv, PrefillToken
  PROVE  IInv'
<1> DEFINE p    == request.prompt
           n    == Len(log) + 1
           last == n = Len(p)
<1>1. /\ phase = "prefill" /\ ~mtp /\ IsPrefix(log, p) /\ Len(log) < Len(p)
      /\ log \in Seq(Vocab) /\ drafter \in Seq(Slots) /\ proposal = <<>>
  BY DEF PrefillToken, IInv, TypeOK, CallShape, LogPlace
<1>2. p \in Seq(Vocab) /\ Len(p) \in Nat /\ Len(log) \in Nat
  BY <1>1, TalkType, LenProperties DEF IInv
<1>3. /\ log' = log \o <<p[n]>> /\ proposal' = <<>>
      /\ answer' = IF last THEN Target!RowsAfter(log, <<p[n]>>) ELSE <<>>
      /\ rows' = answer'
      /\ phase' = IF last THEN "first" ELSE "prefill"
      /\ UNCHANGED <<drafter, request, mtp, drafts, verified, queue, outVars>>
  BY <1>1 DEF PrefillToken, Target!Absorb
<1>4. n \in 1..Len(p) /\ p[n] \in Vocab
  <2>1. n \in 1..Len(p)
    BY <1>1, <1>2
  <2> QED
    BY <1>2, <2>1, ElementOfSeq
<1> HIDE DEF n
<1>5. /\ log' = Append(log, p[n]) /\ log' \in Seq(Vocab) /\ Len(log') = n
      /\ IsPrefix(log', p)
  <2>1. /\ log' = Append(log, p[n]) /\ log' \in Seq(Vocab) /\ Len(log') = Len(log) + 1
        /\ \A j \in 1..Len(log) : log'[j] = log[j]
        /\ log'[Len(log) + 1] = p[n]
    BY <1>1, <1>3, <1>4, AppendIsConcat, AppendProperties
  <2>2. \A j \in 1..Len(log) : p[j] = log[j]
    BY <1>1, <1>2, PrefixParts
  <2>3. Len(log') <= Len(p) /\ \A j \in 1..Len(log') : log'[j] = p[j]
    BY <1>1, <1>2, <2>1, <2>2 DEF n
  <2>4. IsPrefix(log', p)
    BY <1>2, <2>1, <2>3, PrefixElementwise
  <2> QED
    BY <2>1, <2>4 DEF n
<1>6. last => log' = p
  <2> SUFFICES ASSUME last PROVE log' = p
    OBVIOUS
  <2>1. Len(p) \in 0..Len(log')
    BY <1>2, <1>5 DEF n
  <2>2. p \in Seq(Vocab) /\ log' \in Seq(Vocab) /\ IsPrefix(log', p)
    BY <1>2, <1>5
  <2>3. \A k \in 0..Len(log') : SubSeq(p, 1, k) = SubSeq(log', 1, k)
    BY <2>2, PrefixParts
  <2>4. Len(log') = Len(p)
    BY <1>5 DEF n
  <2> QED
    BY <2>1, <2>2, <2>3, <2>4, SubSeqFull
<1>7. rows' \in Seq(Seq(Vocab)) /\ (last => rows' # <<>> /\ rows'[1] = log')
  <2>1. <<p[n]>> \in Seq(Vocab) /\ Len(<<p[n]>>) = 1 /\ <<p[n]>> # <<>>
    BY <1>4
  <2> DEFINE r == Target!RowsAfter(log, <<p[n]>>)
  <2>2. r \in Seq(Seq(Vocab)) /\ Len(r) = 1 /\ Last(r) = log'
    BY <1>1, <1>3, <2>1, RowsOfBlock
  <2> HIDE DEF r
  <2>3. r # <<>> /\ r[1] = log'
    BY <2>2, OneRow
  <2>4. <<>> \in Seq(Seq(Vocab))
    BY EmptySeq
  <2> QED
    BY <1>3, <2>2, <2>3, <2>4 DEF r
<1>8. /\ TypeOK' /\ CallShape' /\ RoundPlace' /\ Budget' /\ Drawn' /\ TextPlace'
      /\ emitted' = <<>>
  BY <1>1, <1>3, <1>5, <1>7, PrefillFrame
<1>9. LogPlace'
  BY <1>2, <1>3, <1>4, <1>5, <1>6, <1>8 DEF LogPlace
<1>10. RowPlace'
  BY <1>3, <1>7 DEF RowPlace, FirstPush
<1>11. DrafterPlace'
  BY <1>1, <1>3 DEF DrafterPlace
<1> QED
  BY <1>8, <1>9, <1>10, <1>11 DEF IInv

\* Nothing was taken back: a declining callback has been shown all there is.
LEMMA TextIsShown ==
  ASSUME IInv, phase # "idle", UNCHANGED <<emitted, text, shown>>,
         finish # "cancelled"
  PROVE  TextPlace'
<1>1. PICK k \in 0..Len(emitted) :
        /\ Complete(k)
        /\ shown = Decode(SubSeq(emitted, 1, k))
        /\ text = shown
  BY DEF IInv, TextPlace
<1>2. shown \in Seq(Characters)
  <2>1. SubSeq(emitted, 1, k) \in Seq(Vocab)
    BY CutType DEF IInv, TypeOK
  <2> QED
    BY <1>1, <2>1, DecodeType
<1>3. IsPrefix(text, shown)
  BY <1>1, <1>2, PrefixEnds
<1> QED
  BY <1>1, <1>3 DEF TextPlace, Complete

\* What the invariant says of a call with nothing left to push.
LEMMA AllPushed ==
  ASSUME IInv, phase \notin {"idle", "push", "flush"}
  PROVE  /\ request \in Requests /\ request \in Requests \cup {NoRequest}
         /\ request # NoRequest /\ request.limit \in Nat
         /\ request.prompt \in Seq(Vocab) /\ request.prompt # <<>>
         /\ emitted \in Seq(Vocab) /\ Len(emitted) \in Nat
         /\ queue = <<>> /\ Answer = emitted /\ Talk = request.prompt \o emitted
         /\ Len(emitted) < request.limit /\ seen = emitted /\ finish = "none"
         /\ phase # "judge" => proposal = <<>>
         /\ Len(request.prompt) + request.limit <= Context
         /\ Talk \in Seq(Vocab) /\ Len(Talk) = Len(request.prompt) + Len(emitted)
         /\ Len(request.prompt) \in Nat /\ Len(request.prompt) > 0
<1>1. queue = <<>> /\ seen = emitted /\ finish = "none" /\ Len(emitted) < request.limit
  BY DEF IInv, CallShape, Budget
<1>2. Answer = emitted /\ Talk = request.prompt \o emitted
  BY <1>1, TalkType DEF IInv, Talk
<1> QED
  BY <1>1, <1>2, TalkType DEF IInv, CallShape, TypeOK

\* Between the pushes and the next row, the log lacks the last token emitted.
LEMMA PendingAnchor ==
  ASSUME IInv, phase \in {"step", "seed", "round", "verify", "judge", "repair"}
  PROVE  /\ emitted # <<>> /\ Last(emitted) \in Vocab
         /\ log \in Seq(Vocab) /\ Len(log) \in Nat /\ Len(log) + 1 = Len(Talk)
         /\ Append(log, Last(emitted)) = Talk /\ log \o <<Last(emitted)>> = Talk
         /\ IsPrefix(log, Talk) /\ Talk[Len(Talk)] = Last(emitted)
         /\ Len(log) + 1 = Len(request.prompt) + Len(emitted) /\ Len(emitted) > 0
<1>1. /\ request.prompt \in Seq(Vocab) /\ emitted \in Seq(Vocab)
      /\ Talk = request.prompt \o emitted /\ Answer = emitted
      /\ Len(Talk) = Len(request.prompt) + Len(emitted) /\ Len(emitted) \in Nat
  BY AllPushed
<1>2. emitted # <<>> /\ log = request.prompt \o Front(emitted)
  BY <1>1 DEF IInv, LogPlace
<1>3. /\ log \in Seq(Vocab) /\ Append(log, Last(emitted)) = Talk /\ IsPrefix(log, Talk)
  BY <1>1, <1>2, ConversationEnds
<1>4. Last(emitted) \in Vocab /\ Len(emitted) > 0
  <2>1. emitted \in Seq(Vocab) /\ emitted # <<>>
    BY <1>1, <1>2
  <2>2. Len(emitted) \in Nat /\ Len(emitted) > 0
    BY <2>1, EmptyOrLonger
  <2>3. emitted[Len(emitted)] \in Vocab
    BY <2>1, <2>2, ElementOfSeq
  <2> QED
    BY <2>2, <2>3 DEF Last
<1> HIDE DEF Talk, Answer
<1>5. /\ Talk = log \o <<Last(emitted)>> /\ Len(Talk) = Len(log) + 1
      /\ Last(Talk) = Last(emitted) /\ Len(log) \in Nat
  <2> DEFINE x == Last(emitted)
  <2>1. log \in Seq(Vocab) /\ x \in Vocab
    BY <1>3, <1>4
  <2> HIDE DEF x
  <2>2. /\ Append(log, x) = log \o <<x>> /\ Len(Append(log, x)) = Len(log) + 1
        /\ Last(Append(log, x)) = x /\ Len(log) \in Nat
    BY <2>1, AppendEnds, LenProperties
  <2> QED
    BY <1>3, <2>2 DEF x
<1> QED
  BY <1>1, <1>2, <1>3, <1>4, <1>5 DEF Last

\* A token drawn from the row of the log is one of the target's law.
LEMMA SampleRowInv ==
  ASSUME IInv, SampleRow
  PROVE  IInv'
<1> DEFINE p == request.prompt
<1>1. /\ phase \in {"first", "next"} /\ phase' = "push"
      /\ UNCHANGED <<log, proposal, drafter, request, mtp, rows, drafts, verified,
                     emitted, finish, text, shown, seen>>
  BY DEF SampleRow, engineVars, roundVars, outVars
<1>2. PICK t \in Support(Law(rows[1], seen)) : queue' = <<t>>
  BY DEF SampleRow
<1>3. /\ p \in Seq(Vocab) /\ emitted \in Seq(Vocab) /\ Len(emitted) \in Nat
      /\ Talk = p \o emitted /\ Len(emitted) < request.limit /\ request.limit \in Nat
      /\ seen = emitted
  BY <1>1, AllPushed
<1>4. rows # <<>> /\ rows[1] = log
  BY <1>1 DEF IInv, RowPlace
<1>5. log = p \o emitted /\ (emitted = <<>> => log = p)
  <2>1. p \o <<>> = p
    BY <1>3, ConcatEmptySeq
  <2>2. phase = "first" => emitted = <<>> /\ log = p
    BY DEF IInv, LogPlace
  <2>3. phase = "next" => log = Talk
    BY DEF IInv, LogPlace
  <2> QED
    BY <1>1, <1>3, <2>1, <2>2, <2>3
<1>6. emitted = <<>> <=> phase = "first"
  BY <1>1 DEF IInv, LogPlace, CallShape
<1>7. t \in Vocab /\ t \in Support(Law(p \o emitted, emitted))
  BY <1>2, <1>3, <1>4, <1>5 DEF Support
<1>8. /\ queue' \in Seq(Vocab) /\ Len(queue') = 1 /\ queue'[1] = t /\ queue' # <<>>
      /\ Answer' = Append(emitted, t) /\ emitted' = emitted
  <2>1. emitted' \o queue' = Append(emitted, t)
    BY <1>1, <1>2, <1>3, <1>7, AppendEnds
  <2> QED
    BY <1>1, <1>2, <1>7, <2>1, OneRow DEF Answer
<1>9. Answer' # <<>> /\ log' = request'.prompt \o Front(Answer')
  <2>1. emitted \in Seq(Vocab) /\ t \in Vocab
    BY <1>3, <1>7
  <2>2. Append(emitted, t) # <<>> /\ Front(Append(emitted, t)) = emitted
    BY <2>1, AppendEnds
  <2> QED
    BY <1>1, <1>5, <1>8, <2>2
<1>10. TypeOK'
  BY <1>1, <1>8 DEF IInv, TypeOK, Phases
<1>11. CallShape'
  <2>1. emitted' = <<>> => drafts' = <<>> /\ verified' = 0
    BY <1>1, <1>6 DEF IInv, CallShape
  <2> QED
    BY <1>1, <2>1 DEF IInv, CallShape, FirstPush
<1>12. LogPlace'
  BY <1>1, <1>9 DEF LogPlace
<1>13. RowPlace'
  BY <1>1, <1>4, <1>5, <1>8 DEF RowPlace, FirstPush
<1>14. DrafterPlace'
  <2>1. mtp => phase = "first" /\ emitted = <<>>
    BY <1>1, <1>6 DEF IInv, CallShape
  <2> QED
    BY <1>1, <2>1 DEF IInv, DrafterPlace, FirstPush, RoundPush, Aligned
<1>15. RoundPlace'
  BY <1>1, <1>6 DEF IInv, CallShape, RoundPlace, RoundPush
<1>16. Budget'
  BY <1>1, <1>3, <1>8 DEF IInv, Budget
<1>17. Drawn'
  <2>1. SubSeq(Answer', 1, Len(emitted)) = emitted
    <3>1. Len(emitted) \in 0..Len(emitted)
      BY <1>3
    <3> QED
      BY <1>3, <1>7, <1>8, <3>1, CutOfAppend, SubSeqFull
  <2>2. Before(1)' = emitted
    BY <1>3, <1>8, <2>1 DEF Before
  <2>3. \A i \in 1..Len(queue') : i = 1
    BY <1>8
  <2> QED
    BY <1>1, <1>7, <1>8, <2>2, <2>3 DEF Drawn
<1>18. TextPlace'
  BY <1>1, TextStays
<1> QED
  BY <1>10, <1>11, <1>12, <1>13, <1>14, <1>15, <1>16, <1>17, <1>18 DEF IInv

\* A callback that declines sends the loop to its end.
LEMMA DeclineInv ==
  ASSUME IInv, Decline
  PROVE  IInv'
<1>1. /\ phase \in {"push", "step", "round"} /\ phase' = "flush" /\ finish' = "cancelled"
      /\ UNCHANGED <<log, proposal, drafter, request, mtp, rows, drafts, verified,
                     queue, emitted, text, shown, seen>>
  BY DEF Decline, engineVars, roundVars
<1>2. TypeOK'
  BY <1>1 DEF IInv, TypeOK, Phases
<1>3. CallShape'
  BY <1>1 DEF IInv, CallShape, FirstPush
<1>4. LogPlace' /\ RowPlace' /\ DrafterPlace' /\ RoundPlace'
  BY <1>1 DEF LogPlace, RowPlace, DrafterPlace, RoundPlace, FirstPush, RoundPush
<1>5. Budget' /\ Drawn'
  BY <1>1 DEF Budget, Drawn
<1>6. TextPlace'
  BY <1>1, TextIsShown DEF IInv, CallShape
<1> QED
  BY <1>2, <1>3, <1>4, <1>5, <1>6 DEF IInv

\* A turn of the reference loop brings the log up to what was emitted.
LEMMA StepInv ==
  ASSUME IInv, Step
  PROVE  IInv'
<1>1. /\ phase = "step" /\ phase' = "next"
      /\ log' = log \o <<Last(emitted)>> /\ proposal' = proposal
      /\ rows' = Target!RowsAfter(log, <<Last(emitted)>>)
      /\ UNCHANGED <<drafter, request, mtp, drafts, verified, queue,
                     emitted, finish, text, shown, seen>>
  BY DEF Step, Target!Absorb, outVars
<1>2. /\ emitted # <<>> /\ Last(emitted) \in Vocab /\ log \in Seq(Vocab)
      /\ log \o <<Last(emitted)>> = Talk
  BY <1>1, PendingAnchor
<1>3. Talk' = Talk /\ Talk \in Seq(Vocab) /\ ~mtp
  BY <1>1, AllPushed DEF IInv, CallShape, Talk, Answer
<1>4. rows' \in Seq(Seq(Vocab)) /\ rows' # <<>> /\ rows'[1] = log'
  <2>1. /\ <<Last(emitted)>> \in Seq(Vocab) /\ Len(<<Last(emitted)>>) = 1
        /\ <<Last(emitted)>> # <<>>
    BY <1>2, OneRow
  <2>2. rows' \in Seq(Seq(Vocab)) /\ Len(rows') = 1 /\ Last(rows') = log'
    BY <1>1, <1>2, <2>1, RowsOfBlock
  <2> QED
    BY <2>2, OneRow
<1>5. TypeOK'
  BY <1>1, <1>2, <1>3, <1>4 DEF IInv, TypeOK, Phases
<1>6. CallShape'
  BY <1>1, <1>2, <1>3 DEF IInv, CallShape, FirstPush
<1>7. LogPlace'
  BY <1>1, <1>2, <1>3 DEF LogPlace
<1>8. RowPlace'
  BY <1>1, <1>4 DEF RowPlace, FirstPush
<1>9. DrafterPlace' /\ RoundPlace'
  BY <1>1, <1>3 DEF DrafterPlace, RoundPlace, RoundPush
<1>10. Budget'
  BY <1>1 DEF IInv, Budget
<1>11. Drawn'
  BY <1>1 DEF Drawn
<1>12. TextPlace'
  BY <1>1, TextStays
<1> QED
  BY <1>5, <1>6, <1>7, <1>8, <1>9, <1>10, <1>11, <1>12 DEF IInv

\* What a push does to the output: why it may end, and what it shows.
LEMMA PushOutput ==
  ASSUME IInv, phase = "push", NEW go \in BOOLEAN, Push(go)
  PROVE  /\ queue # <<>> /\ queue[1] \in Vocab
         /\ emitted' = Append(emitted, queue[1])
         /\ emitted' \in Seq(Vocab) /\ Len(emitted') = Len(emitted) + 1
         /\ emitted' # <<>> /\ Last(emitted') = queue[1]
         /\ queue' \in Seq(Vocab) /\ Len(queue') = Len(queue) - 1
         /\ \A i \in 1..Len(queue') : queue'[i] = queue[i + 1]
         /\ Answer' = Answer /\ Talk' = Talk
         /\ Len(emitted) \in Nat /\ Len(queue) \in Nat /\ Len(queue) > 0
<1>1. queue # <<>> /\ emitted \in Seq(Vocab) /\ queue \in Seq(Vocab)
  BY DEF IInv, Drawn, TypeOK
<1>2. /\ emitted' = Append(emitted, Head(queue)) /\ queue' = Tail(queue)
      /\ request' = request
  BY DEF Push
<1>3. /\ emitted' \o queue' = emitted \o queue
      /\ Head(queue) \in Vocab /\ Head(queue) = queue[1]
      /\ queue' \in Seq(Vocab) /\ Len(queue') = Len(queue) - 1
      /\ \A i \in 1..(Len(queue) - 1) : queue'[i] = queue[i + 1]
  BY <1>1, <1>2, MoveHead
<1>4. /\ emitted' \in Seq(Vocab) /\ Len(emitted') = Len(emitted) + 1
      /\ emitted' # <<>> /\ Last(emitted') = queue[1]
  <2> DEFINE x == queue[1]
  <2>1. emitted' = Append(emitted, x) /\ x \in Vocab /\ emitted \in Seq(Vocab)
    BY <1>1, <1>2, <1>3
  <2> HIDE DEF x
  <2>2. /\ Append(emitted, x) \in Seq(Vocab) /\ Append(emitted, x) # <<>>
        /\ Len(Append(emitted, x)) = Len(emitted) + 1 /\ Last(Append(emitted, x)) = x
    BY <2>1, AppendEnds
  <2> QED
    BY <2>1, <2>2 DEF x
<1>5. Answer' = Answer /\ Talk' = Talk
  BY <1>2, <1>3 DEF Answer, Talk
<1>6. Len(emitted) \in Nat /\ Len(queue) \in Nat /\ Len(queue) > 0
  BY <1>1, EmptyOrLonger
<1> QED
  BY <1>1, <1>2, <1>3, <1>4, <1>5, <1>6

\* The text after a push is that of a part of the answer which ends a
\* character.
LEMMA PushText ==
  ASSUME IInv, phase = "push", NEW go \in BOOLEAN, Push(go)
  PROVE  TextPlace'
<1> DEFINE t       == Head(queue)
           decoded == Decode(TextTokens(Append(emitted, t)))
           hands   == Hands(t, decoded)
<1>1. /\ emitted' = Append(emitted, t)
      /\ shown' = IF hands THEN decoded ELSE shown
      /\ text' = IF hands /\ go THEN decoded ELSE text
      /\ finish' = FinishAfter(t, hands /\ ~go)
  BY DEF Push
<1>2. /\ t \in Vocab /\ emitted \in Seq(Vocab) /\ Len(emitted) \in Nat
      /\ emitted' \in Seq(Vocab) /\ Len(emitted') = Len(emitted) + 1
      /\ emitted' # <<>> /\ Last(emitted') = t
  <2>1. t = queue[1]
    BY MoveHead, PushOutput DEF IInv, TypeOK
  <2> QED
    BY <2>1, PushOutput DEF IInv, TypeOK
<1> HIDE DEF t
<1>3. PICK k \in 0..Len(emitted) :
        /\ k = 0 \/ emitted[k] \notin Lead \cup Eos
        /\ shown = Decode(SubSeq(emitted, 1, k))
        /\ text = shown
  BY DEF IInv, CallShape, TextPlace, Complete
<1>4. /\ k \in 0..Len(emitted') /\ (k = 0 \/ emitted'[k] \notin Lead \cup Eos)
      /\ shown = Decode(SubSeq(emitted', 1, k))
  <2>1. SubSeq(emitted', 1, k) = SubSeq(emitted, 1, k)
    BY <1>1, <1>2, CutOfAppend
  <2>2. k \in 0..Len(emitted') /\ (k # 0 => k \in 1..Len(emitted))
    BY <1>2
  <2>3. k # 0 => emitted'[k] = emitted[k]
    BY <1>1, <1>2, <2>2, AppendEnds
  <2> QED
    BY <1>3, <2>1, <2>2, <2>3, Zenon
<1>5. ~hands => finish' # "cancelled"
  BY <1>1 DEF FinishAfter
<1>6. CASE ~hands
  BY <1>1, <1>3, <1>4, <1>5, <1>6 DEF TextPlace, Complete
<1>7. CASE hands
  <2>1. /\ t \notin Eos /\ ~Partial(decoded) /\ shown' = decoded
        /\ text' = IF go THEN decoded ELSE text
        /\ finish' = "cancelled" <=> ~go
    BY <1>1, <1>7 DEF Hands, FinishAfter
  <2>2. TextTokens(emitted') = emitted' /\ decoded = Decode(emitted')
    BY <1>1, <1>2, <2>1 DEF TextTokens
  <2> DEFINE n == Len(emitted')
  <2>3. n \in 0..n /\ SubSeq(emitted', 1, n) = emitted'
    BY <1>2, SubSeqFull
  <2>4. emitted'[n] \notin Lead \cup Eos
    BY <1>2, <2>1, <2>2, DanglingIsPartial DEF Last
  <2>5. shown' = Decode(SubSeq(emitted', 1, n))
    BY <2>1, <2>2, <2>3
  <2>6. IsPrefix(text, shown')
    BY <1>2, <1>3, <1>4, <2>1, <2>2, ShownIsPrefix
  <2>7. IF finish' = "cancelled" THEN IsPrefix(text', shown') ELSE text' = shown'
    BY <2>1, <2>6
  <2> QED
    BY <2>3, <2>4, <2>5, <2>7 DEF TextPlace, Complete
<1> QED
  BY <1>6, <1>7

\* A push moves the head of the queue to the answer: the conversation, and
\* with it all that the round established, stays as it was.
LEMMA PushInv ==
  ASSUME IInv, NEW go \in BOOLEAN, Push(go)
  PROVE  IInv'
<1> DEFINE t == queue[1]
<1>1. /\ phase = "push" /\ phase' = AfterPush
      /\ UNCHANGED <<log, proposal, drafter, request, mtp, rows, drafts, verified>>
      /\ seen' = Append(seen, Head(queue)) /\ seen = emitted
      /\ emitted' = Append(emitted, Head(queue))
      /\ drafts \in Seq(Vocab)
  BY DEF Push, engineVars, roundVars, IInv, CallShape, TypeOK
<1>2. /\ queue # <<>> /\ t \in Vocab
      /\ emitted' \in Seq(Vocab) /\ Len(emitted') = Len(emitted) + 1
      /\ emitted' # <<>> /\ Last(emitted') = t
      /\ queue' \in Seq(Vocab) /\ Len(queue') = Len(queue) - 1
      /\ \A i \in 1..Len(queue') : queue'[i] = queue[i + 1]
      /\ Answer' = Answer /\ Talk' = Talk
      /\ Len(emitted) \in Nat /\ Len(queue) \in Nat /\ Len(queue) > 0
  BY <1>1, PushOutput
<1>3. /\ emitted' = Append(emitted, t) /\ emitted \in Seq(Vocab)
      /\ \A i \in 1..Len(emitted) : emitted'[i] = emitted[i]
  BY <1>1, <1>2, PushOutput, AppendEnds DEF IInv, TypeOK
<1>4. /\ finish' \in {"none", "cancelled", "stop", "length"}
      /\ finish' = "none" => t \notin Eos /\ Len(emitted') # request.limit
      /\ finish' = "stop" => t \in Eos
      /\ finish' = "length" => t \notin Eos /\ Len(emitted') = request.limit
  <2>1. Head(queue) = t
    BY <1>2, MoveHead DEF IInv, TypeOK
  <2> QED
    BY <1>2, <2>1 DEF Push, FinishAfter
<1> HIDE DEF t
<1>5. /\ phase' \in {"flush", "push", "step", "seed", "repair"}
      /\ phase' # "flush" => finish' = "none"
      /\ phase' = "flush" => finish' # "none"
      /\ phase' \notin {"flush", "push"} => queue' = <<>>
      /\ phase' = "push" => queue' # <<>>
      /\ phase' = "step" => ~mtp
      /\ phase' \in {"seed", "repair"} => mtp
      /\ phase' = "seed" => Len(emitted') = 1
      /\ phase' = "repair" => Len(emitted') # 1
  BY <1>1 DEF AfterPush
<1>6. /\ request \in Requests /\ request.limit \in Nat
      /\ request # NoRequest
  BY <1>1, TalkType DEF IInv, CallShape
<1>7. emitted = <<>> => /\ FirstPush /\ Len(queue) = 1 /\ queue' = <<>>
                        /\ Len(emitted') = 1
  <2> SUFFICES ASSUME emitted = <<>>
               PROVE  FirstPush /\ Len(queue) = 1 /\ queue' = <<>> /\ Len(emitted') = 1
    OBVIOUS
  <2>1. FirstPush /\ Len(queue) = 1
    BY <1>1 DEF IInv, RowPlace, FirstPush
  <2>2. Len(emitted) = 0
    OBVIOUS
  <2> QED
    BY <1>2, <2>1, <2>2, EmptyOrLonger
<1>8. /\ phase' = "seed" => emitted = <<>>
      /\ ~FirstPush'
      /\ (phase' = "repair" \/ RoundPush') => RoundPush
  <2>1. phase' = "seed" => emitted = <<>>
    BY <1>2, <1>3, <1>5, EmptyOrLonger
  <2>2. phase' \in {"repair", "push"} => emitted # <<>>
    BY <1>5, <1>7
  <2> QED
    BY <1>1, <1>2, <1>5, <2>1, <2>2 DEF FirstPush, RoundPush
<1>9. TypeOK'
  BY <1>1, <1>2, <1>5 DEF IInv, TypeOK, Phases
<1>10. CallShape'
  <2>1. phase' = "seed" => drafts' = <<>> /\ verified' = 0
    BY <1>1, <1>7, <1>8 DEF IInv, CallShape
  <2>2. /\ seen' = emitted' /\ Len(request'.prompt) + request'.limit <= Context
        /\ proposal' = <<>>
    BY <1>1 DEF IInv, CallShape
  <2> QED
    BY <1>1, <1>2, <1>5, <1>6, <1>8, <2>1, <2>2 DEF CallShape
<1>11. LogPlace'
  BY <1>1, <1>2, <1>5 DEF IInv, LogPlace
<1>12. RowPlace'
  BY <1>1, <1>5, <1>7, <1>8 DEF IInv, RowPlace
<1>13. DrafterPlace'
  BY <1>1, <1>2, <1>5, <1>7, <1>8 DEF IInv, DrafterPlace, Aligned, Base, Consumed
<1>14. RoundPlace'
  BY <1>1, <1>2, <1>5, <1>8 DEF IInv, RoundPlace, Base
<1>15. Budget'
  <2>1. /\ Len(emitted) + Len(queue) <= request.limit
        /\ \A i \in DOMAIN emitted : emitted[i] \notin Eos
    BY <1>1 DEF IInv, Budget
  <2>2. DOMAIN emitted = 1..Len(emitted) /\ DOMAIN emitted' = 1..Len(emitted')
    BY <1>2, <1>3, LenProperties
  <2>3. emitted'[Len(emitted')] = t
    BY <1>2 DEF Last
  <2>4. t \notin Eos => \A i \in DOMAIN emitted' : emitted'[i] \notin Eos
    BY <1>2, <1>3, <2>1, <2>2, <2>3
  <2>5. Len(emitted') + Len(queue') <= request.limit
    BY <1>2, <1>6, <2>1
  <2>6. Len(emitted') <= request.limit
    BY <1>2, <1>6, <2>1
  <2>7. phase' # "flush" => /\ \A i \in DOMAIN emitted' : emitted'[i] \notin Eos
                            /\ Len(emitted') < request.limit
    BY <1>2, <1>4, <1>5, <1>6, <2>4, <2>6
  <2>8. phase' = "flush" =>
          \/ finish' = "cancelled"
          \/ finish' = "stop" /\ emitted' # <<>> /\ Last(emitted') \in Eos
          \/ /\ finish' = "length" /\ emitted' # <<>> /\ Last(emitted') \notin Eos
             /\ Len(emitted') = request.limit
    BY <1>2, <1>4, <1>5
  <2> QED
    BY <1>1, <1>5, <2>5, <2>7, <2>8 DEF Budget
<1>16. Drawn'
  <2>1. ASSUME NEW i \in 1..Len(queue')
        PROVE  /\ queue'[i] \in Support(Law(request.prompt \o Before(i + 1), Before(i + 1)))
               /\ Before(i)' = Before(i + 1)
    <3>1. i + 1 \in 1..Len(queue) /\ queue'[i] = queue[i + 1]
      <4>1. Len(queue') = Len(queue) - 1 /\ Len(queue) \in Nat /\ i \in Nat
        BY <1>2
      <4>2. i + 1 \in 1..Len(queue)
        BY <4>1
      <4> QED
        BY <1>2, <4>2
    <3>2. Len(emitted') + i - 1 = Len(emitted) + (i + 1) - 1
      <4>1. Len(emitted') = Len(emitted) + 1 /\ Len(emitted) \in Nat /\ i \in Nat
        BY <1>2
      <4> QED
        BY <4>1
    <3>3. queue[i + 1] \in Support(Law(request.prompt \o Before(i + 1), Before(i + 1)))
      BY <1>1, <3>1 DEF IInv, Drawn
    <3>4. Before(i)' = Before(i + 1)
      BY <1>2, <3>2 DEF Before
    <3> QED
      BY <3>1, <3>3, <3>4
  <2> QED
    BY <1>1, <1>5, <2>1 DEF Drawn
<1>17. TextPlace'
  BY <1>1, PushText
<1> QED
  BY <1>9, <1>10, <1>11, <1>12, <1>13, <1>14, <1>15, <1>16, <1>17 DEF IInv

\* A shifted copy of the start of a conversation is one of the whole of it.
LEMMA AlignedInMore ==
  ASSUME NEW x \in Seq(Vocab), NEW y \in Seq(Vocab), NEW n \in Nat, n < Len(x),
         IsPrefix(x, y), Aligned(x, n)
  PROVE  Aligned(y, n)
<1>1. /\ Len(x) <= Len(y) /\ \A i \in 1..Len(x) : y[i] = x[i]
      /\ \A k \in 0..Len(x) : SubSeq(y, 1, k) = SubSeq(x, 1, k)
      /\ Len(x) \in Nat
  BY PrefixParts, LenProperties
<1>2. \A i \in 1..n : i + 1 \in 1..Len(x) /\ i \in 0..Len(x)
  BY <1>1
<1>3. \A i \in 1..n : y[i + 1] = x[i + 1] /\ SubSeq(y, 1, i) = SubSeq(x, 1, i)
  BY <1>1, <1>2
<1> QED
  BY <1>3 DEF Aligned

\* The drafter consumes the first anchor with the row of the prompt.
LEMMA SeedInv ==
  ASSUME IInv, Seed
  PROVE  IInv'
<1> DEFINE p    == request.prompt
           last == Slot(Last(emitted), rows[1])
<1>1. /\ phase = "seed" /\ phase' = "round" /\ drafter' = Append(drafter, last)
      /\ UNCHANGED <<log, proposal, request, mtp, rows, drafts, verified, queue,
                     emitted, finish, text, shown, seen>>
  BY DEF Seed, engineVars, roundVars, outVars
<1>2. /\ p \in Seq(Vocab) /\ Talk = p \o emitted /\ emitted \in Seq(Vocab)
      /\ Talk \in Seq(Vocab) /\ Len(Talk) = Len(p) + Len(emitted) /\ Len(p) \in Nat
      /\ Len(p) > 0 /\ Talk' = Talk /\ Len(emitted) = 1 /\ rows[1] = p
  BY <1>1, AllPushed DEF IInv, RowPlace, Talk, Answer
<1>3. /\ emitted # <<>> /\ Last(emitted) \in Vocab /\ Talk[Len(Talk)] = Last(emitted)
      /\ Len(log) = Len(p)
  BY <1>1, <1>2, PendingAnchor
<1>4. /\ mtp /\ Len(drafter) = Len(p) - 1 /\ Aligned(p, Len(p) - 1)
      /\ drafts = <<>> /\ verified = 0 /\ drafter \in Seq(Slots)
  BY <1>1 DEF IInv, CallShape, DrafterPlace, TypeOK
<1> HIDE DEF last
<1>5. /\ drafter' \in Seq(Slots) /\ Len(drafter') = Len(p)
      /\ \A i \in 1..(Len(p) - 1) : drafter'[i] = drafter[i]
      /\ drafter'[Len(p)] = last
  <2>1. last \in Slots
    BY <1>2, <1>3 DEF Slot, Slots, last
  <2>2. /\ drafter' \in Seq(Slots) /\ Len(drafter') = Len(drafter) + 1
        /\ \A i \in 1..Len(drafter) : drafter'[i] = drafter[i]
        /\ drafter'[Len(drafter) + 1] = last
    BY <1>1, <1>4, <2>1, AppendProperties
  <2>3. Len(drafter) = Len(p) - 1 /\ Len(drafter) + 1 = Len(p)
    BY <1>2, <1>4
  <2> QED
    BY <2>2, <2>3
<1>6. /\ IsPrefix(p, Talk) /\ SubSeq(Talk, 1, Len(p)) = p
  <2>1. IsPrefix(p, p \o emitted)
    BY <1>2, PrefixOfConcat
  <2>2. IsPrefix(p, Talk)
    BY <1>2, <2>1
  <2>3. Len(p) \in 0..Len(p) /\ SubSeq(p, 1, Len(p)) = p
    BY <1>2, SubSeqFull
  <2>4. \A k \in 0..Len(p) : SubSeq(Talk, 1, k) = SubSeq(p, 1, k)
    BY <1>2, <2>2, PrefixParts
  <2> QED
    BY <2>2, <2>3, <2>4
<1>7. Aligned(Talk, Len(p) - 1)
  <2>1. Len(p) - 1 \in Nat /\ Len(p) - 1 < Len(p)
    BY <1>2
  <2> QED
    BY <1>2, <1>4, <1>6, <2>1, AlignedInMore
<1>8. Aligned(Talk, Len(log))'
  <2>1. ASSUME NEW i \in 1..Len(p)
        PROVE  /\ drafter'[i].token = Talk[i + 1]
               /\ drafter'[i].hidden \in {SelfHidden, SubSeq(Talk, 1, i)}
    <3>1. CASE i = Len(p)
      BY <1>2, <1>3, <1>5, <1>6, <3>1 DEF Slot, last
    <3>2. CASE i # Len(p)
      <4>1. i \in 1..(Len(p) - 1)
        BY <1>2, <3>2
      <4> QED
        BY <1>5, <1>7, <4>1 DEF Aligned
    <3> QED
      BY <3>1, <3>2
  <2>2. Len(p) <= Len(drafter')
    BY <1>2, <1>5
  <2> QED
    BY <1>1, <1>2, <1>3, <2>1, <2>2 DEF Aligned
<1>9. TypeOK'
  BY <1>1, <1>5 DEF IInv, TypeOK, Phases
<1>10. CallShape'
  BY <1>1, <1>4 DEF IInv, CallShape, FirstPush
<1>11. LogPlace' /\ RowPlace'
  BY <1>1 DEF IInv, LogPlace, RowPlace, FirstPush, Answer
<1>12. DrafterPlace'
  <2>1. Len(drafter') = Len(log') + Consumed'
    BY <1>1, <1>2, <1>3, <1>4, <1>5 DEF Consumed
  <2> QED
    BY <1>1, <1>8, <2>1 DEF DrafterPlace, FirstPush, RoundPush
<1>13. RoundPlace' /\ Drawn'
  BY <1>1 DEF RoundPlace, Drawn, RoundPush
<1>14. Budget'
  BY <1>1 DEF IInv, Budget
<1>15. TextPlace'
  BY <1>1, TextStays
<1> QED
  BY <1>9, <1>10, <1>11, <1>12, <1>13, <1>14, <1>15 DEF IInv

\* There is room for a round whenever one begins.
LEMMA RoundHasRoom ==
  ASSUME IInv, phase = "round"
  PROVE  /\ Width \in Nat /\ Width > 0 /\ Width <= request.limit - Len(emitted)
         /\ Width <= BlockSize /\ Len(log) + Width <= Context
<1>1. /\ request.limit \in Nat /\ Len(emitted) \in Nat /\ Len(emitted) < request.limit
      /\ Len(request.prompt) + request.limit <= Context
      /\ Len(request.prompt) \in Nat
  BY AllPushed
<1>2. Len(log) + 1 = Len(request.prompt) + Len(emitted) /\ Len(log) \in Nat
  BY PendingAnchor
<1>3. BlockSize \in Nat \ {0} /\ Context \in Nat \ {0}
  BY MtpAssumption
<1> QED
  BY <1>1, <1>2, <1>3, SMTT(30) DEF Width, Smaller

\* The drafter consumes every proposal but the last, with rows of its own.
LEMMA DraftInv ==
  ASSUME IInv, Draft
  PROVE  IInv'
<1>1. PICK ds \in [1..(Width - 1) -> Vocab] :
        /\ drafts' = ds
        /\ drafter' = drafter \o [i \in 1..(Len(ds) - 1) |-> Slot(ds[i], SelfHidden)]
  BY DEF Draft
<1>2. /\ phase = "round" /\ phase' = "verify"
      /\ UNCHANGED <<log, proposal, request, mtp, rows, verified, queue,
                     emitted, finish, text, shown, seen>>
  BY DEF Draft, engineVars, outVars
<1>3. /\ Width \in Nat /\ Width > 0 /\ Width <= request.limit - Len(emitted)
      /\ request.limit \in Nat /\ Len(emitted) \in Nat
  BY <1>2, RoundHasRoom, AllPushed
<1>4. ds \in Seq(Vocab) /\ Len(ds) = Width - 1 /\ Len(ds) \in Nat
  <2>1. Width - 1 \in Nat
    BY <1>3
  <2> QED
    BY <2>1, FunctionIsSeq
<1>5. /\ mtp /\ drafts = <<>> /\ verified = 0 /\ drafter \in Seq(Slots)
      /\ Len(drafter) = Len(log) /\ Aligned(Talk, Len(log)) /\ Len(log) \in Nat
  <2>1. mtp /\ drafts = <<>> /\ verified = 0 /\ drafter \in Seq(Slots) /\ log \in Seq(Vocab)
    BY <1>2 DEF IInv, CallShape, TypeOK
  <2>2. Len(drafter) = Len(log) + Consumed /\ Aligned(Talk, Len(log))
    BY <1>2, <2>1 DEF IInv, DrafterPlace
  <2>3. Len(log) \in Nat /\ Consumed = 0
    BY <2>1, LenProperties DEF Consumed
  <2> QED
    BY <2>1, <2>2, <2>3
<1> DEFINE more == [i \in 1..(Len(ds) - 1) |-> Slot(ds[i], SelfHidden)]
<1>6. /\ more \in Seq(Slots) /\ Len(more) = Consumed'
      /\ \A i \in 1..Len(more) : more[i] = Slot(ds[i], SelfHidden)
  <2>1. \A i \in 1..(Len(ds) - 1) : Slot(ds[i], SelfHidden) \in Slots
    <3>1. \A i \in 1..(Len(ds) - 1) : i \in 1..Len(ds)
      BY <1>4
    <3> QED
      BY <1>4, <3>1, ElementOfSeq DEF Slot, Slots
  <2>2. CASE ds = <<>>
    <3>1. Len(ds) = 0 /\ Consumed' = 0
      BY <1>1, <2>2 DEF Consumed
    <3>2. more = <<>>
      BY <3>1
    <3> QED
      BY <3>1, <3>2, EmptySeq
  <2>3. CASE ds # <<>>
    <3>1. Len(ds) - 1 \in Nat /\ Consumed' = Len(ds) - 1
      BY <1>1, <1>4, <2>3, EmptyOrLonger DEF Consumed
    <3>2. more \in [1..(Len(ds) - 1) -> Slots]
      BY <2>1
    <3>3. \A i \in 1..(Len(ds) - 1) : more[i] = Slot(ds[i], SelfHidden)
      OBVIOUS
    <3> HIDE DEF more
    <3>4. more \in Seq(Slots) /\ Len(more) = Len(ds) - 1
      BY <3>1, <3>2, FunctionIsSeq
    <3> QED
      BY <3>1, <3>3, <3>4
  <2> QED
    BY <2>2, <2>3
<1>7. drafter' = drafter \o more
  BY <1>1
<1> HIDE DEF more
<1>8. /\ drafter' \in Seq(Slots) /\ Len(drafter') = Len(log) + Consumed'
      /\ \A i \in 1..Len(log) : drafter'[i] = drafter[i]
      /\ \A j \in 1..Consumed' : drafter'[Len(log) + j] = Slot(ds[j], SelfHidden)
  <2>1. /\ drafter' \in Seq(Slots) /\ Len(drafter') = Len(drafter) + Len(more)
        /\ \A i \in 1..Len(drafter) + Len(more) :
             drafter'[i] = IF i <= Len(drafter) THEN drafter[i] ELSE more[i - Len(drafter)]
    BY <1>5, <1>6, <1>7, ConcatProperties, ZenonT(30)
  <2>2. Len(more) \in Nat
    BY <1>6, LenProperties
  <2>3. ASSUME NEW j \in 1..Len(more)
        PROVE  drafter'[Len(log) + j] = Slot(ds[j], SelfHidden)
    <3>1. /\ Len(log) + j \in 1..Len(drafter) + Len(more) /\ ~(Len(log) + j <= Len(drafter))
          /\ (Len(log) + j) - Len(drafter) = j
      BY <1>5, <2>2
    <3> QED
      BY <1>6, <2>1, <3>1
  <2>4. \A i \in 1..Len(log) : drafter'[i] = drafter[i]
    BY <1>5, <2>1, <2>2
  <2> QED
    BY <1>5, <1>6, <2>1, <2>3, <2>4
<1>9. Talk' = Talk /\ Len(log) <= Len(drafter')
  <2>1. Consumed' \in Nat
    BY <1>6, LenProperties
  <2> QED
    BY <1>2, <1>5, <1>8, <2>1 DEF Talk, Answer
<1>10. Aligned(Talk, Len(log))'
  BY <1>2, <1>5, <1>8, <1>9 DEF Aligned
<1>11. TypeOK'
  BY <1>1, <1>2, <1>4, <1>8 DEF IInv, TypeOK, Phases
<1>12. CallShape'
  BY <1>2, <1>5 DEF IInv, CallShape, FirstPush
<1>13. LogPlace' /\ RowPlace'
  BY <1>2 DEF IInv, LogPlace, RowPlace, FirstPush, Answer
<1>14. DrafterPlace'
  BY <1>1, <1>2, <1>8, <1>10 DEF DrafterPlace, FirstPush, RoundPush
<1>15. RoundPlace' /\ Drawn'
  BY <1>2 DEF RoundPlace, Drawn, RoundPush
<1>16. Budget'
  BY <1>1, <1>2, <1>3, <1>4 DEF IInv, Budget
<1>17. TextPlace'
  BY <1>2, TextStays
<1> QED
  BY <1>11, <1>12, <1>13, <1>14, <1>15, <1>16, <1>17 DEF IInv

\* The rows of the block are those of the conversation and every draft.
LEMMA VerifyBlockInv ==
  ASSUME IInv, VerifyBlock
  PROVE  IInv'
<1> DEFINE anchor == <<Last(emitted)>>
           block  == anchor \o drafts
<1>1. /\ phase = "verify" /\ phase' = "judge"
      /\ log' = log /\ proposal' = block /\ rows' = Target!RowsAfter(log, block)
      /\ UNCHANGED <<drafter, request, mtp, drafts, verified, queue,
                     emitted, finish, text, shown, seen>>
  BY DEF VerifyBlock, Target!Propose, outVars
<1>2. /\ Last(emitted) \in Vocab /\ log \in Seq(Vocab) /\ log \o anchor = Talk
      /\ Talk' = Talk /\ Talk \in Seq(Vocab)
  BY <1>1, PendingAnchor, AllPushed DEF Talk, Answer
<1>3. anchor \in Seq(Vocab) /\ Len(anchor) = 1 /\ drafts \in Seq(Vocab) /\ Len(drafts) \in Nat
  BY <1>2, OneRow, LenProperties DEF IInv, TypeOK
<1> HIDE DEF anchor
<1>4. block \in Seq(Vocab) /\ Len(block) = Len(drafts) + 1
  BY <1>3, ConcatProperties
<1>5. /\ rows' \in Seq(Seq(Vocab)) /\ Len(rows') = Len(drafts) + 1
      /\ \A j \in 1..Len(rows') : rows'[j] = log \o SubSeq(block, 1, j)
  <2> HIDE DEF block
  <2> QED
    <3>1. log \in Seq(Vocab) /\ block \in Seq(Vocab)
      BY <1>2, <1>4
    <3> DEFINE r == Target!RowsAfter(log, block)
    <3>2. /\ r \in Seq(Seq(Vocab)) /\ Len(r) = Len(block)
          /\ \A j \in 1..Len(block) : r[j] = log \o SubSeq(block, 1, j)
      BY <3>1, RowsOfBlock
    <3> HIDE DEF r
    <3> QED
      BY <1>1, <1>4, <3>2 DEF r
<1>6. ASSUME NEW j \in 1..Len(rows')
      PROVE  rows'[j] = Talk \o SubSeq(drafts, 1, j - 1)
  <2> DEFINE cut == SubSeq(drafts, 1, j - 1)
  <2>1. j - 1 \in 0..Len(drafts) /\ Len(anchor) + (j - 1) = j
    BY <1>3, <1>5
  <2>2. SubSeq(block, 1, Len(anchor) + (j - 1)) = anchor \o cut
    <3>1. anchor \in Seq(Vocab) /\ drafts \in Seq(Vocab) /\ j - 1 \in 0..Len(drafts)
      BY <1>3, <2>1
    <3> HIDE DEF anchor
    <3> QED
      BY <3>1, CutOfConcat, ZenonT(30)
  <2>3. cut \in Seq(Vocab)
    BY <1>3, <2>1, CutType
  <2> HIDE DEF cut, block
  <2>4. log \o (anchor \o cut) = (log \o anchor) \o cut
    <3>1. log \in Seq(Vocab) /\ anchor \in Seq(Vocab)
      BY <1>2, <1>3
    <3> QED
      BY <2>3, <3>1, ConcatAssociative, SMTT(30)
  <2>5. rows'[j] = log \o (anchor \o cut)
    BY <1>5, <2>1, <2>2
  <2> QED
    BY <1>2, <2>4, <2>5 DEF cut
<1>7. TypeOK'
  BY <1>1, <1>5 DEF IInv, TypeOK, Phases
<1>8. CallShape'
  BY <1>1 DEF IInv, CallShape, FirstPush
<1>9. LogPlace' /\ RowPlace'
  BY <1>1 DEF IInv, LogPlace, RowPlace, FirstPush, Answer
<1>10. DrafterPlace'
  BY <1>1, <1>2 DEF IInv, DrafterPlace, FirstPush, RoundPush, Aligned, Consumed
<1>11. RoundPlace'
  BY <1>1, <1>2, <1>5, <1>6 DEF RoundPlace, RoundPush, anchor
<1>12. Budget' /\ Drawn'
  BY <1>1 DEF IInv, Budget, Drawn
<1>13. TextPlace'
  BY <1>1, TextStays
<1> QED
  BY <1>7, <1>8, <1>9, <1>10, <1>11, <1>12, <1>13 DEF IInv

----------------------------------------------------------------------------
\* The verdict needs the laws to be what they are: weights of tokens.
LawsAreWeights ==
  \A h \in Seq(Vocab), s \in Seq(Vocab) :
    Law(h, s) \in [Vocab -> Nat] /\ DraftLaw(h, s) \in [Vocab -> Nat]

\* The weight of a law, one element for each unit of each token.
Units(law) == {u \in Vocab \X Nat : u[2] < law[u[1]]}

\* Laws that are compared have one total, as probabilities have.
LawsShareTotal ==
  /\ IsFiniteSet(Vocab)
  /\ \A h \in Seq(Vocab), s \in Seq(Vocab), g \in Seq(Vocab) :
       Cardinality(Units(Law(h, s))) = Cardinality(Units(DraftLaw(g, s)))

\* A law has finitely many units.
LEMMA UnitsAreFinite ==
  ASSUME IsFiniteSet(Vocab), NEW law \in [Vocab -> Nat]
  PROVE  IsFiniteSet(Units(law))
<1> DEFINE share  == [t \in Vocab |-> {t} \X (0..(law[t] - 1))]
           shares == {share[t] : t \in Vocab}
<1>1. share \in Surjection(Vocab, shares)
  BY DEF Surjection
<1>2. \A t \in Vocab : IsFiniteSet(share[t])
  <2> SUFFICES ASSUME NEW t \in Vocab PROVE IsFiniteSet({t} \X (0..(law[t] - 1)))
    OBVIOUS
  <2>1. law[t] - 1 \in Int /\ 0 \in Int
    OBVIOUS
  <2>2. IsFiniteSet({t}) /\ IsFiniteSet(0..(law[t] - 1))
    BY <2>1, FS_Singleton, FS_Interval
  <2> QED
    BY <2>2, FS_Product
<1>3. Units(law) \subseteq UNION shares
  <2> SUFFICES ASSUME NEW u \in Units(law) PROVE u \in UNION shares
    OBVIOUS
  <2>1. u \in Vocab \X Nat /\ u[1] \in Vocab /\ u[2] \in 0..(law[u[1]] - 1)
    BY DEF Units
  <2>2. u \in share[u[1]]
    BY <2>1
  <2> QED
    BY <2>1, <2>2
<1>4. \A T \in shares : IsFiniteSet(T)
  BY <1>2
<1> HIDE DEF share, shares
<1>5. IsFiniteSet(shares)
  BY <1>1, FS_Surjection
<1>6. IsFiniteSet(UNION shares)
  BY <1>4, <1>5, FS_UNION
<1> QED
  BY <1>3, <1>6, FS_Subset

\* Of two laws of one total, one is above the other at some token if it is
\* below it at another.
LEMMA SomewhereAbove ==
  ASSUME IsFiniteSet(Vocab), NEW p \in [Vocab -> Nat], NEW q \in [Vocab -> Nat],
         Cardinality(Units(p)) = Cardinality(Units(q)),
         NEW x \in Vocab, p[x] < q[x]
  PROVE  \E t \in Vocab : p[t] > q[t]
<1> SUFFICES ASSUME \A t \in Vocab : p[t] <= q[t] PROVE FALSE
  OBVIOUS
<1>1. Units(p) \subseteq Units(q)
  <2> SUFFICES ASSUME NEW u \in Units(p) PROVE u \in Units(q)
    OBVIOUS
  <2>1. u \in Vocab \X Nat /\ u[1] \in Vocab /\ u[2] \in Nat /\ u[2] < p[u[1]]
    BY DEF Units
  <2>2. p[u[1]] \in Nat /\ q[u[1]] \in Nat /\ p[u[1]] <= q[u[1]]
    BY <2>1
  <2> QED
    BY <2>1, <2>2 DEF Units
<1>2. <<x, p[x]>> \in Units(q) /\ <<x, p[x]>> \notin Units(p)
  BY DEF Units
<1>3. Units(p) = Units(q)
  BY <1>1, UnitsAreFinite, FS_Subset
<1> QED
  BY <1>2, <1>3

\* The drafts known when draft i was made.
LEMMA DraftsBefore ==
  ASSUME IInv, phase = "judge", NEW i \in 1..(Len(drafts) + 1)
  PROVE  LET cut == SubSeq(drafts, 1, i - 1)
         IN  /\ cut \in Seq(Vocab) /\ Len(cut) = i - 1
             /\ emitted \o cut \in Seq(Vocab)
             /\ Talk \o cut = request.prompt \o (emitted \o cut)
             /\ rows[i] = request.prompt \o (emitted \o cut)
             /\ rows[i] \in Seq(Vocab)
             /\ TargetLaws[i] = Law(rows[i], emitted \o cut)
             /\ i <= Len(rows) /\ i \in Nat
<1> DEFINE cut == SubSeq(drafts, 1, i - 1)
           p   == request.prompt
<1>1. drafts \in Seq(Vocab) /\ Len(drafts) \in Nat
  BY LenProperties DEF IInv, TypeOK
<1>2. i - 1 \in 0..Len(drafts)
  BY <1>1
<1>3. cut \in Seq(Vocab) /\ Len(cut) = i - 1
  BY <1>1, <1>2, CutType
<1>4. p \in Seq(Vocab) /\ emitted \in Seq(Vocab) /\ Talk = p \o emitted /\ seen = emitted
  BY AllPushed
<1>5. /\ Len(rows) = Len(drafts) + 1 /\ i \in 1..Len(rows)
      /\ rows[i] = Talk \o cut
  BY DEF IInv, RoundPlace
<1>6. TargetLaws[i] = Law(rows[i], emitted \o cut)
  BY <1>4, <1>5 DEF TargetLaws
<1> HIDE DEF cut, p
<1>7. (p \o emitted) \o cut = p \o (emitted \o cut)
  <2>1. p \in Seq(Vocab) /\ emitted \in Seq(Vocab)
    BY <1>4
  <2> QED
    BY <1>3, <2>1, ConcatAssociative, SMTT(30)
<1>8. emitted \o cut \in Seq(Vocab)
  BY <1>3, <1>4, ConcatProperties
<1>9. p \o (emitted \o cut) \in Seq(Vocab)
  BY <1>4, <1>8, ConcatProperties
<1>10. rows[i] = p \o (emitted \o cut) /\ Talk \o cut = p \o (emitted \o cut)
  BY <1>4, <1>5, <1>7
<1>11. i <= Len(rows) /\ i \in Nat
  BY <1>1, <1>5
<1>12. rows[i] \in Seq(Vocab)
  BY <1>9, <1>10
<1> QED
  BY <1>3, <1>6, <1>8, <1>10, <1>11, <1>12, Zenon DEF cut, p

\* The law draft i was drawn from.
LEMMA DraftedLawType ==
  ASSUME LawsAreWeights, IInv, phase = "judge", NEW i \in 1..Len(drafts)
  PROVE  /\ TargetLaws[i] \in [Vocab -> Nat] /\ DraftedLaws[i] \in [Vocab -> Nat]
         /\ \E g \in Seq(Vocab) :
              DraftedLaws[i] = DraftLaw(g, emitted \o SubSeq(drafts, 1, i - 1))
<1> DEFINE cut   == SubSeq(drafts, 1, i - 1)
           known == SubSeq(Tokens(drafter), 1, Len(log))
<1>1. /\ drafts \in Seq(Vocab) /\ Len(drafts) \in Nat /\ drafter \in Seq(Slots)
      /\ i \in 1..(Len(drafts) + 1) /\ log \in Seq(Vocab) /\ Len(log) \in Nat
  BY LenProperties DEF IInv, TypeOK
<1>2. /\ cut \in Seq(Vocab) /\ emitted \o cut \in Seq(Vocab) /\ rows[i] \in Seq(Vocab)
      /\ TargetLaws[i] = Law(rows[i], emitted \o cut) /\ seen = emitted
  BY <1>1, DraftsBefore, AllPushed
<1>3. known \in Seq(Vocab)
  <2>1. \A j \in 1..Len(drafter) : drafter[j].token \in Vocab
    <3> SUFFICES ASSUME NEW j \in 1..Len(drafter) PROVE drafter[j].token \in Vocab
      OBVIOUS
    <3>1. drafter[j] \in Slots
      BY <1>1, ElementOfSeq
    <3> QED
      BY <3>1 DEF Slots
  <2>2. /\ DOMAIN drafter = 1..Len(drafter) /\ Len(drafter) \in Nat
    BY <1>1, LenProperties
  <2>3. Tokens(drafter) \in [1..Len(drafter) -> Vocab]
    BY <2>1, <2>2 DEF Tokens
  <2>4. Tokens(drafter) \in Seq(Vocab) /\ Len(Tokens(drafter)) = Len(drafter)
    BY <2>2, <2>3, FunctionIsSeq
  <2>5. Len(log) \in 0..Len(drafter)
    BY <1>1, <2>2 DEF IInv, DrafterPlace, CallShape, Aligned
  <2> QED
    BY <2>4, <2>5, CutType
<1> HIDE DEF known, cut
<1>4. known \o cut \in Seq(Vocab)
  BY <1>2, <1>3, ConcatProperties
<1>5. DraftedLaws[i] = DraftLaw(known \o cut, emitted \o cut)
  BY <1>2 DEF DraftedLaws, known, cut
<1>6. /\ Law(rows[i], emitted \o cut) \in [Vocab -> Nat]
      /\ DraftLaw(known \o cut, emitted \o cut) \in [Vocab -> Nat]
  BY <1>2, <1>4 DEF LawsAreWeights
<1> QED
  BY <1>2, <1>4, <1>5, <1>6 DEF cut

\* What a verdict consists of: how many drafts it accepts, each of them a
\* token of the target's law, and the token that follows them.
LEMMA Verdict ==
  ASSUME LawsAreWeights, IInv, Judge
  PROVE  \E k \in 0..Len(drafts), t \in Vocab :
           /\ Target!Accept(k + 1) /\ verified' = k
           /\ queue' = Append(SubSeq(drafts, 1, k), t)
           /\ \A i \in 1..k : drafts[i] \in Support(TargetLaws[i])
           /\ t \in Support(TargetLaws[k + 1])
<1> DEFINE n == Len(drafts)
           qs == DraftedLaws
           ps == TargetLaws
<1>1. phase = "judge" /\ drafts \in Seq(Vocab) /\ n \in Nat
  BY LenProperties DEF Judge, IInv, TypeOK
<1>2. PICK v \in Verified(drafts, DraftedLaws, TargetLaws) :
        Target!Accept(v.consumed) /\ verified' = v.accepted /\ queue' = v.tokens
  BY DEF Judge
<1>3. \A i \in 1..n : ps[i] \in [Vocab -> Nat] /\ qs[i] \in [Vocab -> Nat]
  BY <1>1, DraftedLawType
<1> HIDE DEF qs, ps
<1>4. PICK k \in 0..n, t \in Vocab :
        /\ \A i \in 1..k : AcceptMass(ps[i], qs[i], drafts[i]) > 0
        /\ t \in Support(IF k < n THEN Residual(ps[k + 1], qs[k + 1]) ELSE ps[n + 1])
        /\ v = Outcome(drafts, k, t)
  BY <1>2 DEF Verified, Support, ps, qs
<1>5. v.consumed = k + 1 /\ v.accepted = k /\ v.tokens = Append(SubSeq(drafts, 1, k), t)
  BY <1>4 DEF Outcome
<1>6. ASSUME NEW i \in 1..k
      PROVE  drafts[i] \in Support(ps[i])
  <2>1. i \in 1..n
    BY <1>1
  <2>2. drafts[i] \in Vocab
    BY <1>1, <2>1, ElementOfSeq
  <2>3. ps[i][drafts[i]] \in Nat /\ qs[i][drafts[i]] \in Nat
    BY <1>3, <2>1, <2>2
  <2>4. AcceptMass(ps[i], qs[i], drafts[i]) > 0
    BY <1>4
  <2>5. ps[i][drafts[i]] > 0
    BY <2>3, <2>4 DEF AcceptMass, Smaller
  <2> QED
    BY <2>2, <2>5 DEF Support
<1>7. t \in Support(ps[k + 1])
  <2>1. CASE k < n
    <3>1. k + 1 \in 1..n
      BY <1>1, <2>1
    <3>2. ps[k + 1][t] \in Nat /\ qs[k + 1][t] \in Nat
      BY <1>3, <3>1
    <3>3. Residual(ps[k + 1], qs[k + 1])[t] > 0
      BY <1>4, <2>1 DEF Support
    <3>4. ps[k + 1][t] > 0
      BY <3>2, <3>3 DEF Residual
    <3> QED
      BY <3>4 DEF Support
  <2>2. CASE ~(k < n)
    <3>1. k = n
      BY <1>1, <2>2
    <3> QED
      BY <1>4, <3>1
  <2> QED
    BY <2>1, <2>2
<1> QED
  BY <1>2, <1>5, <1>6, <1>7 DEF ps

\* The verdict keeps the accepted drafts in the log and leaves the token
\* after them pending: Talk grows by the accepted drafts and that token.
LEMMA JudgeInv ==
  ASSUME LawsAreWeights, IInv, Judge
  PROVE  IInv'
<1> DEFINE p == request.prompt
<1>1. /\ phase = "judge" /\ phase' = "push"
      /\ UNCHANGED <<drafter, request, mtp, rows, drafts,
                     emitted, finish, text, shown, seen>>
  BY DEF Judge, outVars
<1>2. PICK k \in 0..Len(drafts), t \in Vocab :
        /\ Target!Accept(k + 1) /\ verified' = k
        /\ queue' = Append(SubSeq(drafts, 1, k), t)
        /\ \A i \in 1..k : drafts[i] \in Support(TargetLaws[i])
        /\ t \in Support(TargetLaws[k + 1])
  BY Verdict
<1> DEFINE cut    == SubSeq(drafts, 1, k)
           anchor == <<Last(emitted)>>
<1>3. /\ p \in Seq(Vocab) /\ emitted \in Seq(Vocab) /\ Len(emitted) \in Nat
      /\ Talk = p \o emitted /\ Talk \in Seq(Vocab) /\ Len(Talk) \in Nat
      /\ Len(Talk) = Len(p) + Len(emitted) /\ request.limit \in Nat /\ Answer = emitted
      /\ request # NoRequest
  BY <1>1, AllPushed, LenProperties
<1>4. /\ emitted # <<>> /\ Last(emitted) \in Vocab /\ log \in Seq(Vocab)
      /\ Len(log) \in Nat /\ Len(log) + 1 = Len(Talk) /\ log \o anchor = Talk
  BY <1>1, PendingAnchor
<1>5. drafts \in Seq(Vocab) /\ Len(drafts) \in Nat /\ k \in Nat /\ k <= Len(drafts)
  BY LenProperties DEF IInv, TypeOK
<1>6. /\ cut \in Seq(Vocab) /\ Len(cut) = k
      /\ \A i \in 1..k : cut[i] = drafts[i]
  BY <1>5, CutType
<1>7. anchor \in Seq(Vocab) /\ Len(anchor) = 1
  BY <1>4, OneRow
<1> HIDE DEF p
<1>8. /\ mtp /\ proposal = anchor \o drafts /\ Len(rows) = Len(drafts) + 1
      /\ Len(drafter) = Len(log) + Consumed /\ Aligned(Talk, Len(log))
      /\ \A j \in 1..Consumed : drafter[Len(log) + j] = Slot(drafts[j], SelfHidden)
      /\ Len(emitted) + Len(drafts) < request.limit
  BY <1>1 DEF IInv, CallShape, RoundPlace, DrafterPlace, Budget
\* The log after the verdict.
<1>9. log' = Talk \o cut /\ log' \in Seq(Vocab) /\ Len(log') = Len(Talk) + k
  <2>1. log' = log \o SubSeq(anchor \o drafts, 1, Len(anchor) + k)
    <3>1. Len(anchor) + k = k + 1
      BY <1>5, <1>7
    <3> QED
      BY <1>2, <1>8, <3>1 DEF Target!Accept
  <2>2. SubSeq(anchor \o drafts, 1, Len(anchor) + k) = anchor \o cut
    <3>1. anchor \in Seq(Vocab) /\ drafts \in Seq(Vocab) /\ k \in 0..Len(drafts)
      BY <1>5, <1>7
    <3> HIDE DEF anchor
    <3> QED
      BY <3>1, CutOfConcat
  <2>3. log \o (anchor \o cut) = (log \o anchor) \o cut
    <3>1. log \in Seq(Vocab) /\ anchor \in Seq(Vocab) /\ cut \in Seq(Vocab)
      BY <1>4, <1>6, <1>7
    <3> HIDE DEF anchor, cut
    <3> QED
      BY <3>1, ConcatAssociative, SMTT(30)
  <2>4. log' = Talk \o cut
    BY <1>4, <2>1, <2>2, <2>3
  <2> HIDE DEF cut
  <2> QED
    BY <1>3, <1>6, <2>4, ConcatProperties
<1> HIDE DEF anchor
<1>10. proposal' = <<>>
  BY <1>2 DEF Target!Accept
\* The queue, the answer and the conversation after it.
<1> DEFINE q == Append(cut, t)
<1>11. queue' = q
  BY <1>2
<1> HIDE DEF cut
<1>12. /\ q \in Seq(Vocab) /\ q # <<>> /\ q = cut \o <<t>> /\ Len(q) = k + 1
       /\ q[k + 1] = t /\ \A i \in 1..k : q[i] = drafts[i]
  <2>1. /\ q \in Seq(Vocab) /\ q # <<>> /\ q = cut \o <<t>> /\ Len(q) = k + 1
        /\ Last(q) = t /\ \A i \in 1..k : q[i] = cut[i]
    BY <1>6, AppendEnds
  <2> QED
    BY <1>6, <2>1 DEF Last
<1>13. \A j \in 0..k : SubSeq(q, 1, j) = SubSeq(drafts, 1, j)
  <2> SUFFICES ASSUME NEW j \in 0..k PROVE SubSeq(q, 1, j) = SubSeq(drafts, 1, j)
    OBVIOUS
  <2>1. SubSeq(q, 1, j) = SubSeq(cut, 1, j)
    BY <1>6, CutOfAppend
  <2>2. SubSeq(cut, 1, j) = SubSeq(drafts, 1, j)
    BY <1>5, CutOfCut DEF cut
  <2> QED
    BY <2>1, <2>2
<1> HIDE DEF q
<1>14. /\ Answer' = emitted \o q /\ Answer' \in Seq(Vocab) /\ Answer' # <<>>
       /\ Front(Answer') = emitted \o cut
  <2>1. /\ emitted \o q = (emitted \o cut) \o <<t>> /\ emitted \o cut \in Seq(Vocab)
    <3>1. <<t>> \in Seq(Vocab)
      BY OneRow
    <3>2. emitted \o (cut \o <<t>>) = (emitted \o cut) \o <<t>>
      <4>1. emitted \in Seq(Vocab) /\ cut \in Seq(Vocab)
        BY <1>3, <1>6
      <4> QED
        BY <3>1, <4>1, ConcatAssociative, SMTT(30)
    <3> QED
      BY <1>3, <1>6, <1>12, <3>2, ConcatProperties
  <2> DEFINE b == emitted \o cut
  <2>2. b \in Seq(Vocab)
    BY <2>1
  <2>3. Answer' = b \o <<t>> /\ Answer' = emitted \o q
    BY <1>1, <1>11, <2>1 DEF Answer
  <2> HIDE DEF b
  <2>4. /\ Append(b, t) \in Seq(Vocab) /\ Append(b, t) # <<>> /\ Append(b, t) = b \o <<t>>
        /\ Front(Append(b, t)) = b
    BY <2>2, AppendEnds
  <2> QED
    BY <2>3, <2>4 DEF b
<1>15. /\ Talk' = Talk \o q /\ Talk' \in Seq(Vocab) /\ IsPrefix(Talk, Talk')
       /\ log' = p \o Front(Answer') /\ Len(Talk') = Len(Talk) + k + 1
  <2>1. /\ (p \o emitted) \o q = p \o (emitted \o q)
        /\ (p \o emitted) \o cut = p \o (emitted \o cut)
    <3>1. p \in Seq(Vocab) /\ emitted \in Seq(Vocab) /\ q \in Seq(Vocab) /\ cut \in Seq(Vocab)
      BY <1>3, <1>6, <1>12
    <3>2. (p \o emitted) \o q = p \o (emitted \o q)
      BY <3>1, ConcatAssociative, SMTT(30)
    <3>3. (p \o emitted) \o cut = p \o (emitted \o cut)
      BY <3>1, ConcatAssociative, SMTT(30)
    <3> QED
      BY <3>2, <3>3
  <2>2. Talk' = Talk \o q
    BY <1>1, <1>3, <1>14, <2>1 DEF Talk, p
  <2>3. /\ Talk \o q \in Seq(Vocab) /\ Len(Talk \o q) = Len(Talk) + Len(q)
        /\ IsPrefix(Talk, Talk \o q)
    BY <1>3, <1>12, ConcatProperties, PrefixOfConcat, ZenonT(30)
  <2>4. log' = p \o Front(Answer')
    BY <1>3, <1>9, <1>14, <2>1
  <2>5. Len(Talk) + Len(q) = Len(Talk) + k + 1
    <3>1. Len(Talk) \in Nat
      BY <1>3
    <3>2. Len(q) = k + 1 /\ k \in Nat
      BY <1>5, <1>12
    <3> QED
      BY <3>1, <3>2
  <2> QED
    BY <2>2, <2>3, <2>4, <2>5
<1>16. \A j \in 1..(k + 1) : Talk'[Len(Talk) + j] = q[j]
  <2>1. \A i \in 1..Len(Talk) + Len(q) :
          (Talk \o q)[i] = IF i <= Len(Talk) THEN Talk[i] ELSE q[i - Len(Talk)]
    BY <1>3, <1>12, ConcatProperties
  <2> SUFFICES ASSUME NEW j \in 1..(k + 1) PROVE Talk'[Len(Talk) + j] = q[j]
    OBVIOUS
  <2>2. /\ Len(Talk) + j \in 1..Len(Talk) + Len(q) /\ ~(Len(Talk) + j <= Len(Talk))
        /\ (Len(Talk) + j) - Len(Talk) = j
    BY <1>3, <1>5, <1>12
  <2> QED
    BY <1>15, <2>1, <2>2
<1>17. \A j \in 0..(k + 1) : SubSeq(Talk', 1, Len(Talk) + j) = Talk \o SubSeq(q, 1, j)
  <2> SUFFICES ASSUME NEW j \in 0..(k + 1)
               PROVE  SubSeq(Talk \o q, 1, Len(Talk) + j) = Talk \o SubSeq(q, 1, j)
    BY <1>15
  <2>1. Talk \in Seq(Vocab) /\ q \in Seq(Vocab) /\ j \in 0..Len(q)
    BY <1>3, <1>12
  <2> HIDE DEF Talk
  <2> QED
    BY <2>1, CutOfConcat
<1>18. /\ Base' = Len(log) /\ Consumed' = Consumed /\ Consumed \in Nat
  <2>1. (Len(Talk) + k) - k - 1 = Len(log)
    BY <1>3, <1>4, <1>5
  <2>2. Consumed \in Nat
    BY <1>5, EmptyOrLonger DEF Consumed
  <2> QED
    BY <1>1, <1>2, <1>9, <2>1, <2>2 DEF Base, Consumed
<1> DEFINE lenLog == Len(log)
           lenTalk == Len(Talk)
           lenDrafts == Len(drafts)
<1>19. /\ lenLog \in Nat /\ lenTalk = lenLog + 1 /\ lenDrafts \in Nat
       /\ k \in Nat /\ k <= lenDrafts /\ Consumed \in Nat /\ Len(rows) = lenDrafts + 1
  BY <1>3, <1>4, <1>5, <1>8, <1>18
<1>20. TypeOK'
  BY <1>1, <1>2, <1>5, <1>9, <1>11, <1>12 DEF IInv, TypeOK, Phases
<1>21. CallShape'
  BY <1>1, <1>3, <1>4, <1>10 DEF IInv, CallShape, FirstPush
<1>22. LogPlace'
  BY <1>1, <1>14, <1>15 DEF LogPlace, p
<1>23. RowPlace'
  BY <1>1, <1>4 DEF RowPlace, FirstPush
<1>24. DrafterPlace'
  <2> DEFINE m == Smaller(k, Consumed)
  <2>1. m \in Nat /\ m <= k /\ m <= Consumed
    BY <1>5, <1>18 DEF Smaller
  <2> HIDE DEF m
  <2>2. Aligned(Talk', Len(log))
    <3>1. Len(log) < Len(Talk)
      BY <1>4
    <3> QED
      BY <1>3, <1>4, <1>8, <1>15, <3>1, AlignedInMore
  <2>3. ASSUME NEW i \in 1..(Len(log) + m)
        PROVE  /\ drafter[i].token = Talk'[i + 1]
               /\ drafter[i].hidden \in {SelfHidden, SubSeq(Talk', 1, i)}
    <3>1. CASE i <= Len(log)
      <4>1. i \in 1..Len(log)
        BY <1>4, <3>1
      <4> QED
        BY <2>2, <4>1 DEF Aligned
    <3>2. CASE ~(i <= Len(log))
      <4> DEFINE j == i - Len(log)
      <4>1. /\ j \in 1..m /\ j \in 1..Consumed /\ j \in 1..k /\ j \in 1..(k + 1)
            /\ Len(log) + j = i /\ Len(Talk) + j = i + 1
        <5> HIDE DEF lenLog, lenTalk, lenDrafts
        <5>1. i - lenLog \in 1..m /\ lenLog + (i - lenLog) = i /\ lenTalk + (i - lenLog) = i + 1
          BY <1>19, <2>1, <3>2 DEF lenLog
        <5> QED
          BY <1>19, <2>1, <5>1 DEF lenLog, lenTalk
      <4>2. drafter[i] = Slot(drafts[j], SelfHidden)
        BY <1>8, <4>1
      <4>3. Talk'[i + 1] = drafts[j]
        BY <1>12, <1>16, <4>1
      <4> QED
        BY <4>2, <4>3 DEF Slot
    <3> QED
      BY <3>1, <3>2
  <2>4. Len(log) + m <= Len(drafter)
    BY <1>4, <1>8, <1>18, <2>1
  <2>5. Aligned(Talk, Base + Smaller(verified, Consumed))'
    BY <1>1, <1>2, <1>18, <2>3, <2>4 DEF Aligned, m
  <2> QED
    BY <1>1, <1>4, <1>8, <1>18, <2>5 DEF DrafterPlace, FirstPush, RoundPush
<1>25. RoundPlace'
  <2>1. verified' <= Len(drafts') /\ verified' < Len(rows')
    BY <1>1, <1>2, <1>5, <1>8
  <2>2. ASSUME NEW j \in 1..k
        PROVE  drafts[j] = Talk'[Len(log) + 1 + j]
    <3> HIDE DEF lenLog, lenTalk, lenDrafts
    <3>1. j \in 1..(k + 1) /\ lenLog + 1 + j = lenTalk + j
      BY <1>19
    <3>2. j \in 1..(k + 1) /\ Len(log) + 1 + j = Len(Talk) + j
      BY <3>1 DEF lenLog, lenTalk
    <3> QED
      BY <1>12, <1>16, <3>2
  <2>3. ASSUME NEW j \in 1..(k + 1)
        PROVE  rows[j] = SubSeq(Talk', 1, Len(log) + j)
    <3>1. /\ j - 1 \in 0..k /\ j - 1 \in 0..(k + 1)
          /\ Len(log) + j = Len(Talk) + (j - 1)
          /\ j \in 1..(Len(drafts) + 1) /\ j \in 1..Len(rows)
      <4> HIDE DEF lenLog, lenTalk, lenDrafts
      <4>1. /\ j - 1 \in 0..k /\ j - 1 \in 0..(k + 1) /\ lenLog + j = lenTalk + (j - 1)
            /\ j \in 1..(lenDrafts + 1) /\ j \in 1..Len(rows)
        BY <1>19
      <4> QED
        BY <4>1 DEF lenLog, lenTalk, lenDrafts
    <3>2. rows[j] = Talk \o SubSeq(drafts, 1, j - 1)
      BY <1>1, <3>1 DEF IInv, RoundPlace
    <3>3. SubSeq(Talk', 1, Len(Talk) + (j - 1)) = Talk \o SubSeq(q, 1, j - 1)
      BY <1>17, <3>1
    <3>4. SubSeq(q, 1, j - 1) = SubSeq(drafts, 1, j - 1)
      BY <1>13, <3>1
    <3> QED
      BY <3>1, <3>2, <3>3, <3>4
  <2> QED
    BY <1>1, <1>2, <1>18, <2>1, <2>2, <2>3 DEF RoundPlace
<1>26. Budget'
  <2>1. Len(emitted) + Len(q) <= request.limit
    BY <1>3, <1>5, <1>8, <1>12
  <2> QED
    BY <1>1, <1>11, <2>1 DEF IInv, Budget
<1>27. Drawn'
  <2>1. ASSUME NEW i \in 1..(k + 1)
        PROVE  q[i] \in Support(Law(p \o Before(i)', Before(i)'))
    <3> DEFINE c == SubSeq(drafts, 1, i - 1)
    <3>1. /\ i \in 1..(Len(drafts) + 1) /\ i - 1 \in 0..k /\ i - 1 \in 0..Len(q)
          /\ Len(emitted) + i - 1 = Len(emitted) + (i - 1)
      BY <1>3, <1>5, <1>12
    <3>2. Before(i)' = emitted \o c
      <4>1. SubSeq(emitted \o q, 1, Len(emitted) + (i - 1)) = emitted \o SubSeq(q, 1, i - 1)
        <5>1. emitted \in Seq(Vocab) /\ q \in Seq(Vocab) /\ i - 1 \in 0..Len(q)
          BY <1>3, <1>12, <3>1
        <5> QED
          BY <5>1, CutOfConcat
      <4>2. SubSeq(q, 1, i - 1) = c
        BY <1>13, <3>1
      <4> QED
        BY <1>1, <1>14, <3>1, <4>1, <4>2 DEF Before
    <3>3. TargetLaws[i] = Law(p \o (emitted \o c), emitted \o c)
      BY <1>1, <3>1, DraftsBefore DEF p
    <3>4. q[i] \in Support(TargetLaws[i])
      <4>1. CASE i <= k
        <5>1. i \in 1..k
          BY <1>5, <4>1
        <5> QED
          BY <1>2, <1>12, <5>1
      <4>2. CASE ~(i <= k)
        <5>1. i = k + 1
          BY <1>5, <4>2
        <5> QED
          BY <1>2, <1>12, <5>1
      <4> QED
        BY <4>1, <4>2
    <3> QED
      BY <3>2, <3>3, <3>4
  <2> QED
    BY <1>1, <1>11, <1>12, <2>1 DEF Drawn, p
<1>28. TextPlace'
  BY <1>1, TextStays
<1> QED
  BY <1>20, <1>21, <1>22, <1>23, <1>24, <1>25, <1>26, <1>27, <1>28 DEF IInv

\* The repair cuts the drafter back to what it holds of the conversation,
\* replays the accepted drafts it has not consumed, and consumes the anchor.
LEMMA RepairInv ==
  ASSUME IInv, Repair
  PROVE  IInv'
<1> DEFINE kept   == Smaller(verified, Consumed)
           cut    == SubSeq(drafter, 1, Base + kept)
           replay == Replay(kept)
           anchor == Slot(Last(emitted), rows[verified + 1])
           n      == Len(log)
<1>1. /\ phase = "repair" /\ phase' = "round"
      /\ drafter' = cut \o replay \o <<anchor>>
      /\ drafts' = <<>> /\ verified' = 0 /\ rows' = <<>>
      /\ UNCHANGED <<log, proposal, request, mtp, queue,
                     emitted, finish, text, shown, seen>>
  BY DEF Repair, Base, Consumed, engineVars, outVars
<1>2. /\ Talk \in Seq(Vocab) /\ Talk' = Talk /\ Last(emitted) \in Vocab
      /\ n \in Nat /\ n + 1 = Len(Talk) /\ Talk[Len(Talk)] = Last(emitted)
  BY <1>1, AllPushed, PendingAnchor DEF Talk, Answer
<1>3. /\ mtp /\ Base \in Nat /\ Len(drafter) = Base + Consumed
      /\ Aligned(Talk, Base + kept) /\ verified \in Nat /\ drafter \in Seq(Slots)
      /\ rows \in Seq(Seq(Vocab)) /\ drafts \in Seq(Vocab)
  BY <1>1 DEF IInv, CallShape, DrafterPlace, TypeOK
<1>4. /\ verified <= Len(drafts) /\ verified < Len(rows)
      /\ \A j \in 1..verified : drafts[j] = Talk[Base + 1 + j]
      /\ \A j \in 1..(verified + 1) : rows[j] = SubSeq(Talk, 1, Base + j)
  BY <1>1 DEF IInv, RoundPlace
<1>5. Len(drafts) \in Nat /\ Len(rows) \in Nat /\ Consumed \in Nat
  BY <1>3, LenProperties, EmptyOrLonger DEF Consumed
<1>6. kept \in Nat /\ kept <= verified /\ kept <= Consumed /\ n = Base + verified + 1
  BY <1>2, <1>3, <1>5 DEF Smaller, Base
<1> HIDE DEF kept, n
\* The three parts of the drafter.
<1>7. cut \in Seq(Slots) /\ Len(cut) = Base + kept /\ \A i \in 1..(Base + kept) : cut[i] = drafter[i]
  <2>1. Base + kept \in 0..Len(drafter)
    BY <1>3, <1>5, <1>6
  <2> QED
    BY <1>3, <2>1, CutType
<1>8. /\ replay \in Seq(Slots) /\ Len(replay) = verified - kept
      /\ \A j \in 1..(verified - kept) : replay[j] = Slot(drafts[kept + j], rows[kept + j])
  <2>1. ASSUME NEW j \in 1..(verified - kept)
        PROVE  Slot(drafts[kept + j], rows[kept + j]) \in Slots
    <3>1. kept + j \in 1..Len(drafts) /\ kept + j \in 1..Len(rows)
      BY <1>3, <1>4, <1>5, <1>6
    <3>2. drafts[kept + j] \in Vocab
      BY <1>3, <3>1, ElementOfSeq
    <3>3. rows[kept + j] \in Seq(Vocab)
      BY <1>3, <3>1, ElementOfSeq
    <3> QED
      BY <3>2, <3>3 DEF Slot, Slots
  <2>2. verified - kept \in Nat
    BY <1>3, <1>6
  <2>3. /\ replay \in [1..(verified - kept) -> Slots]
        /\ \A j \in 1..(verified - kept) : replay[j] = Slot(drafts[kept + j], rows[kept + j])
    BY <2>1 DEF Replay
  <2> HIDE DEF replay
  <2> QED
    BY <2>2, <2>3, FunctionIsSeq
<1>9. anchor \in Slots /\ anchor.token = Last(emitted) /\ anchor.hidden = SubSeq(Talk, 1, n)
  <2>1. verified + 1 \in 1..Len(rows) /\ verified + 1 \in 1..(verified + 1)
    BY <1>3, <1>4, <1>5
  <2>2. rows[verified + 1] \in Seq(Vocab)
    BY <1>3, <2>1, ElementOfSeq
  <2>3. rows[verified + 1] = SubSeq(Talk, 1, Base + (verified + 1))
    BY <1>4, <2>1
  <2>4. Base + (verified + 1) = n
    BY <1>3, <1>6
  <2> QED
    BY <1>2, <2>2, <2>3, <2>4 DEF Slot, Slots
<1> HIDE DEF cut, replay, anchor
<1> DEFINE most == cut \o replay
<1>10. /\ most \in Seq(Slots) /\ Len(most) = Base + verified
       /\ \A i \in 1..(Base + verified) :
            most[i] = IF i <= Base + kept THEN cut[i] ELSE replay[i - (Base + kept)]
  <2>1. /\ most \in Seq(Slots) /\ Len(most) = Len(cut) + Len(replay)
        /\ \A i \in 1..Len(cut) + Len(replay) :
             most[i] = IF i <= Len(cut) THEN cut[i] ELSE replay[i - Len(cut)]
    BY <1>7, <1>8, ConcatProperties
  <2>2. (Base + kept) + (verified - kept) = Base + verified
    BY <1>3, <1>6
  <2> HIDE DEF most
  <2> QED
    BY <1>7, <1>8, <2>1, <2>2
<1>11. drafter' = most \o <<anchor>>
  BY <1>1
<1> HIDE DEF most
<1>12. /\ drafter' \in Seq(Slots) /\ Len(drafter') = n
       /\ \A i \in 1..(Base + verified) : drafter'[i] = most[i]
       /\ drafter'[n] = anchor
  <2>1. /\ most \o <<anchor>> = Append(most, anchor)
    BY <1>9, <1>10, AppendIsConcat
  <2>2. /\ Append(most, anchor) \in Seq(Slots) /\ Len(Append(most, anchor)) = Len(most) + 1
        /\ \A i \in 1..Len(most) : Append(most, anchor)[i] = most[i]
        /\ Append(most, anchor)[Len(most) + 1] = anchor
    BY <1>9, <1>10, AppendProperties
  <2>3. Len(most) + 1 = n /\ Len(most) = Base + verified
    BY <1>6, <1>10
  <2> QED
    BY <1>11, <2>1, <2>2, <2>3
<1>13. ASSUME NEW i \in 1..n
       PROVE  /\ drafter'[i].token = Talk[i + 1]
              /\ drafter'[i].hidden \in {SelfHidden, SubSeq(Talk, 1, i)}
  <2>1. CASE i <= Base + kept
    <3>1. i \in 1..(Base + kept) /\ i \in 1..(Base + verified)
      BY <1>2, <1>3, <1>6, <2>1
    <3>2. drafter'[i] = drafter[i]
      BY <1>7, <1>10, <1>12, <2>1, <3>1
    <3> QED
      BY <1>3, <3>1, <3>2 DEF Aligned
  <2>2. CASE ~(i <= Base + kept) /\ i # n
    <3> DEFINE j == i - (Base + kept)
    <3>1. /\ i \in 1..(Base + verified) /\ j \in 1..(verified - kept)
          /\ kept + j \in 1..verified /\ kept + j \in 1..(verified + 1)
          /\ Base + 1 + (kept + j) = i + 1 /\ Base + (kept + j) = i
      BY <1>2, <1>3, <1>6, <2>2
    <3>2. drafter'[i] = replay[j]
      BY <1>10, <1>12, <2>2, <3>1
    <3> HIDE DEF j
    <3>3. drafter'[i] = Slot(drafts[kept + j], rows[kept + j])
      BY <1>8, <3>1, <3>2
    <3>4. drafts[kept + j] = Talk[i + 1] /\ rows[kept + j] = SubSeq(Talk, 1, i)
      BY <1>4, <3>1
    <3> QED
      BY <3>3, <3>4 DEF Slot
  <2>3. CASE i = n
    BY <1>2, <1>9, <1>12, <2>3
  <2> QED
    BY <2>1, <2>2, <2>3
<1>14. Aligned(Talk, Len(log))'
  BY <1>1, <1>2, <1>12, <1>13, SMTT(30) DEF Aligned, n
<1>15. TypeOK'
  BY <1>1, <1>12, EmptySeq DEF IInv, TypeOK, Phases
<1>16. CallShape'
  BY <1>1, <1>3 DEF IInv, CallShape, FirstPush
<1>17. LogPlace' /\ RowPlace'
  BY <1>1 DEF IInv, LogPlace, RowPlace, FirstPush, Answer
<1>18. DrafterPlace'
  <2>1. Len(drafter') = Len(log') + Consumed'
    BY <1>1, <1>2, <1>12 DEF Consumed, n
  <2> QED
    BY <1>1, <1>14, <2>1 DEF DrafterPlace, FirstPush, RoundPush
<1>19. RoundPlace' /\ Drawn'
  BY <1>1 DEF RoundPlace, Drawn, RoundPush
<1>20. Budget'
  BY <1>1 DEF IInv, Budget
<1>21. TextPlace'
  BY <1>1, TextStays
<1> QED
  BY <1>15, <1>16, <1>17, <1>18, <1>19, <1>20, <1>21 DEF IInv

\* The call returns, in time or with an error, and clears the caches.
LEMMA ReturnInv ==
  ASSUME IInv
  PROVE  /\ \A go \in BOOLEAN : Flush(go) => IInv'
         /\ Fail => IInv'
<1>1. \A r : Return(r) => IInv'
  <2> SUFFICES ASSUME NEW r, Return(r) PROVE IInv'
    OBVIOUS
  <2>1. /\ log' = <<>> /\ drafter' = <<>> /\ proposal' = <<>> /\ request' = NoRequest
        /\ phase' = "idle" /\ queue' = <<>> /\ drafts' = <<>> /\ verified' = 0
        /\ rows' = <<>> /\ mtp' = mtp /\ emitted' = emitted
    BY DEF Return, ClearCache, Target!Forget, outVars
  <2>2. rows' \in Seq(Seq(Vocab)) /\ mtp' \in BOOLEAN /\ emitted' \in Seq(Vocab)
    BY <2>1, EmptySeq DEF IInv, TypeOK
  <2> QED
    BY <2>1, <2>2, EndsCall
<1>2. ASSUME NEW go \in BOOLEAN, Flush(go)
      PROVE  IInv'
  <2>1. CASE finish = "cancelled"
    BY <1>1, <1>2, <2>1 DEF Flush
  <2>2. CASE finish # "cancelled"
    <3>1. /\ log' = <<>> /\ drafter' = <<>> /\ proposal' = <<>> /\ request' = NoRequest
          /\ phase' = "idle" /\ queue' = <<>> /\ drafts' = <<>> /\ verified' = 0
          /\ rows' = <<>> /\ mtp' = mtp /\ emitted' = emitted
      BY <1>2, <2>2 DEF Flush, ClearCache, Target!Forget
    <3>2. rows' \in Seq(Seq(Vocab)) /\ mtp' \in BOOLEAN /\ emitted' \in Seq(Vocab)
      BY <3>1, EmptySeq DEF IInv, TypeOK
    <3> QED
      BY <3>1, <3>2, EndsCall
  <2> QED
    BY <2>1, <2>2
<1>3. Fail => IInv'
  BY <1>1 DEF Fail
<1> QED
  BY <1>2, <1>3

\* Nothing the generator does leaves the invariant.
LEMMA NextInv ==
  ASSUME LawsAreWeights
  PROVE  IInv /\ [Next]_vars => IInv'
<1> SUFFICES ASSUME IInv, [Next]_vars PROVE IInv'
  OBVIOUS
<1>1. ASSUME NEW r \in Requests, NEW use \in BOOLEAN, Start(r, use)
      PROVE  IInv'
  BY <1>1, StartInv
<1>2. CASE PrefillChunk
  BY <1>2, PrefillChunkInv
<1>3. CASE PrefillToken
  BY <1>3, PrefillTokenInv
<1>4. CASE SampleRow
  BY <1>4, SampleRowInv
<1>5. ASSUME NEW go \in BOOLEAN, Push(go) \/ Flush(go)
      PROVE  IInv'
  BY <1>5, PushInv, ReturnInv
<1>6. CASE Decline
  BY <1>6, DeclineInv
<1>7. CASE Step
  BY <1>7, StepInv
<1>8. CASE Seed
  BY <1>8, SeedInv
<1>9. CASE Draft
  BY <1>9, DraftInv
<1>10. CASE VerifyBlock
  BY <1>10, VerifyBlockInv
<1>11. CASE Judge
  BY <1>11, JudgeInv
<1>12. CASE Repair
  BY <1>12, RepairInv
<1>13. CASE Fail
  BY <1>13, ReturnInv
<1>14. CASE UNCHANGED vars
  <2>1. UNCHANGED <<log, proposal, answer, drafter, request, mtp, phase, rows, drafts,
                    verified, queue, emitted, finish, text, shown, seen, result>>
    BY <1>14 DEF vars, engineVars, roundVars, outVars
  <2>2. TypeOK' /\ CallShape' /\ LogPlace' /\ RowPlace'
    BY <2>1 DEF IInv, TypeOK, CallShape, LogPlace, RowPlace, FirstPush, Answer, Talk
  <2>3. DrafterPlace' /\ RoundPlace'
    BY <2>1 DEF IInv, DrafterPlace, RoundPlace, FirstPush, RoundPush, Aligned, Consumed,
                Base, Talk, Answer
  <2>4. Budget' /\ Drawn'
    BY <2>1 DEF IInv, Budget, Drawn, Before, Answer
  <2>5. TextPlace'
    BY <2>1 DEF IInv, TextPlace, Complete
  <2> QED
    BY <2>2, <2>3, <2>4, <2>5 DEF IInv
<1> QED
  BY <1>1, <1>2, <1>3, <1>4, <1>5, <1>6, <1>7, <1>8, <1>9, <1>10, <1>11, <1>12, <1>13,
     <1>14 DEF Next

\* The inductive invariant holds for every vocabulary, pair of models, block
\* size, context, prompt and limit.
LEMMA InvHolds ==
  ASSUME LawsAreWeights
  PROVE  Spec => []IInv
<1>1. IInv /\ [Next]_vars => IInv'
  BY NextInv
<1> QED
  BY <1>1, InitInv, PTL DEF Spec

----------------------------------------------------------------------------
\* What follows.

\* However much of the last draft was rejected, a round starts with both
\* models at the same place: the target has consumed the conversation but
\* for its last token, the drafter holds it shifted by one, and no slot was
\* joined with a row of another history.
THEOREM BothModelsAligned ==
  ASSUME LawsAreWeights
  PROVE  Spec => []ModelsAligned
<1>1. IInv => ModelsAligned
  <2> SUFFICES ASSUME IInv, phase = "round" PROVE ModelsAligned
    BY DEF ModelsAligned
  <2> DEFINE x == request.prompt \o emitted
  <2>1. x = Talk /\ x \in Seq(Vocab)
    BY AllPushed
  <2>2. /\ emitted # <<>> /\ log \in Seq(Vocab) /\ Len(log) \in Nat
        /\ Last(emitted) \in Vocab /\ Append(log, Last(emitted)) = Talk
        /\ Len(log) + 1 = Len(Talk)
    BY PendingAnchor
  <2> HIDE DEF x
  <2>3. log = Front(x)
    <3>1. Front(Append(log, Last(emitted))) = log
      <4> DEFINE last == Last(emitted)
      <4>1. last \in Vocab
        BY <2>2
      <4> HIDE DEF last
      <4>2. Front(Append(log, last)) = log
        BY <2>2, <4>1, AppendEnds
      <4> QED
        BY <4>2 DEF last
    <3> QED
      BY <2>1, <2>2, <3>1
  <2>4. /\ drafts = <<>> /\ Len(drafter) = Len(log) /\ Aligned(Talk, Len(log))
        /\ drafter \in Seq(Slots)
    <3>1. mtp /\ drafts = <<>> /\ drafter \in Seq(Slots)
      BY DEF IInv, CallShape, TypeOK
    <3>2. Len(drafter) = Len(log) + Consumed /\ Aligned(Talk, Len(log)) /\ Consumed = 0
      BY <3>1 DEF IInv, DrafterPlace, Consumed
    <3> QED
      BY <2>2, <3>1, <3>2
  <2>5. /\ DOMAIN drafter = 1..Len(log)
        /\ \A i \in 1..Len(log) : /\ drafter[i].token = x[i + 1]
                                  /\ drafter[i].hidden \in {SelfHidden, SubSeq(x, 1, i)}
    BY <2>1, <2>4, LenProperties DEF Aligned
  <2>6. Tokens(drafter) = Tail(x)
    <3>1. /\ Len(x) \in Nat /\ Len(x) = Len(log) + 1 /\ x # <<>>
      <4>1. x \in Seq(Vocab) /\ Len(x) = Len(log) + 1 /\ Len(log) \in Nat
        BY <2>1, <2>2
      <4> QED
        BY <4>1, EmptyOrLonger
    <3>2. Tail(x) \in Seq(Vocab) /\ Len(Tail(x)) = Len(log) /\ \A i \in 1..Len(log) : Tail(x)[i] = x[i + 1]
      BY <2>1, <2>2, <3>1, HeadTailProperties
    <3>3. Tokens(drafter) = [i \in 1..Len(log) |-> x[i + 1]]
      BY <2>5 DEF Tokens
    <3>4. \A i \in 1..Len(log) : x[i + 1] \in Vocab
      <4>1. \A i \in 1..Len(log) : i + 1 \in 1..Len(x)
        BY <2>2, <3>1
      <4> QED
        BY <2>1, <4>1, ElementOfSeq
    <3>5. Tokens(drafter) \in [1..Len(log) -> Vocab]
      BY <3>3, <3>4
    <3>6. /\ Tokens(drafter) \in Seq(Vocab) /\ Len(Tokens(drafter)) = Len(log)
      BY <2>2, <3>5, FunctionIsSeq
    <3>7. \A i \in 1..Len(log) : Tokens(drafter)[i] = x[i + 1]
      BY <3>3
    <3> QED
      BY <3>2, <3>6, <3>7, SeqEqual
  <2> QED
    BY <2>3, <2>5, <2>6 DEF ModelsAligned, x
<1> QED
  BY <1>1, InvHolds, PTL

\* The checks inside the loop never fire: a round has room for its block in
\* both caches and in the request, and a rejection always leaves something
\* to draw the correction from.
THEOREM ThereIsRoom ==
  ASSUME LawsAreWeights, LawsShareTotal
  PROVE  Spec => []RoundsHaveRoom
<1>1. IInv => RoundsHaveRoom
  <2> SUFFICES ASSUME IInv PROVE RoundsHaveRoom
    OBVIOUS
  <2>1. phase = "round" => Width > 0
    BY RoundHasRoom
  <2>2. phase = "push" => Len(emitted) + Len(queue) <= request.limit
    BY DEF IInv, Budget
  <2>3. ASSUME phase = "judge", NEW i \in DOMAIN drafts,
               RejectMass(TargetLaws[i], DraftedLaws[i], drafts[i]) > 0
        PROVE  Support(Residual(TargetLaws[i], DraftedLaws[i])) # {}
    <3> DEFINE p   == TargetLaws[i]
               q   == DraftedLaws[i]
               cut == SubSeq(drafts, 1, i - 1)
               x   == drafts[i]
    <3>1. drafts \in Seq(Vocab) /\ Len(drafts) \in Nat
      BY LenProperties DEF IInv, TypeOK
    <3>2. i \in 1..Len(drafts) /\ i \in 1..(Len(drafts) + 1)
      BY <3>1, LenProperties
    <3>3. x \in Vocab
      BY <3>1, <3>2, ElementOfSeq
    <3>4. /\ p \in [Vocab -> Nat] /\ q \in [Vocab -> Nat]
          /\ \E g \in Seq(Vocab) : q = DraftLaw(g, emitted \o cut)
      BY <2>3, <3>2, DraftedLawType
    <3>5. /\ p = Law(rows[i], emitted \o cut)
          /\ rows[i] \in Seq(Vocab) /\ emitted \o cut \in Seq(Vocab)
      BY <2>3, <3>2, DraftsBefore
    <3>6. RejectMass(p, q, x) > 0
      BY <2>3
    <3> HIDE DEF p, q, cut, x
    <3>7. p[x] < q[x]
      <4>1. p[x] \in Nat /\ q[x] \in Nat
        BY <3>3, <3>4
      <4> QED
        BY <3>6, <4>1 DEF RejectMass, AcceptMass, Smaller
    <3>8. Cardinality(Units(p)) = Cardinality(Units(q)) /\ IsFiniteSet(Vocab)
      BY <3>4, <3>5 DEF LawsShareTotal
    <3>9. PICK t \in Vocab : p[t] > q[t] /\ p[t] \in Nat /\ q[t] \in Nat
      BY <3>3, <3>4, <3>7, <3>8, SomewhereAbove
    <3>10. Residual(p, q)[t] > 0
      BY <3>9 DEF Residual
    <3> QED
      BY <3>9, <3>10 DEF Support, p, q
  <2> QED
    BY <2>1, <2>2, <2>3 DEF RoundsHaveRoom
<1> QED
  BY <1>1, InvHolds, PTL

----------------------------------------------------------------------------
\* The generator keeps the promise of Generation.

\* Generation speaks of the same tokenizer and law.
LEMMA SameLanguage ==
  /\ \A ts : Promise!Decode(ts) = Decode(ts)
  /\ \A ts : Promise!TextTokens(ts) = TextTokens(ts)
  /\ \A law : Promise!Support(law) = Support(law)
  /\ \A s, t : Promise!IsPrefix(s, t) <=> IsPrefix(s, t)
  /\ \A s : Promise!Last(s) = Last(s)
  /\ Promise!Requests = Requests /\ Promise!NoRequest = NoRequest
  /\ Promise!NoResult = NoResult /\ Promise!Failure = Failure
  /\ Promise!FullText = Decode(TextTokens(emitted))
  BY DEF Decode, Promise!Decode, FlattenSeq, Promise!FlattenSeq, Piece, Promise!Piece,
     TextTokens, Promise!TextTokens, Support, Promise!Support, Requests, Promise!Requests,
     NoRequest, Promise!NoRequest, NoResult, Promise!NoResult, Failure, Promise!Failure,
     Promise!FullText, Last, Promise!Last, Front, Promise!Front, IsPrefix, Promise!IsPrefix

\* The text shown and accepted during a call is a part of its answer.
LEMMA TextOfCall ==
  ASSUME IInv, phase # "idle"
  PROVE  /\ IsPrefix(shown, shown) /\ IsPrefix(text, shown)
         /\ IsPrefix(shown, Decode(TextTokens(emitted)))
<1>1. emitted \in Seq(Vocab)
  BY DEF IInv, TypeOK
<1>2. PICK k \in 0..Len(emitted) :
        /\ k = 0 \/ emitted[k] \notin Lead \cup Eos
        /\ shown = Decode(SubSeq(emitted, 1, k))
        /\ IF finish = "cancelled" THEN IsPrefix(text, shown) ELSE text = shown
  BY DEF IInv, TextPlace, Complete
<1>3. SubSeq(emitted, 1, k) \in Seq(Vocab)
  BY <1>1, CutType
<1>4. shown \in Seq(Characters)
  BY <1>2, <1>3, DecodeType
<1>5. IsPrefix(shown, shown)
  BY <1>4, PrefixEnds
<1>6. IsPrefix(shown, Decode(TextTokens(emitted)))
  BY <1>1, <1>2, ShownIsPrefix
<1> QED
  BY <1>2, <1>5, <1>6

\* A call that is cut short hands out nothing more.
LEMMA CutShort ==
  ASSUME IInv, phase # "idle", request' = NoRequest, UNCHANGED <<emitted, shown>>,
         result' = Failure \/ result' = [finish |-> "cancelled", text |-> text]
  PROVE  Promise!Abandon
<1>1. request # NoRequest
  BY DEF IInv, CallShape
<1>2. IsPrefix(shown, shown) /\ IsPrefix(text, shown)
  BY TextOfCall
<1>3. Promise!ShowMore(Promise!FullText)
  BY <1>2, SameLanguage DEF Promise!ShowMore
<1>4. \/ result' = Promise!Failure
      \/ result'.finish = "cancelled" /\ Promise!IsPrefix(result'.text, shown')
  BY <1>2, SameLanguage
<1> QED
  BY <1>1, <1>3, <1>4, SameLanguage DEF Promise!Abandon, Promise!Busy

\* A pushed token, drafted or not, is a token of the target's law for the
\* conversation, and the text shown with it extends the text shown before.
LEMMA PushEmits ==
  ASSUME IInv, NEW go \in BOOLEAN, Push(go)
  PROVE  Promise!Emit(queue[1])
<1>1. phase = "push" /\ UNCHANGED <<request, result>>
  BY DEF Push
<1>2. /\ queue # <<>> /\ emitted' = Append(emitted, queue[1]) /\ queue[1] \in Vocab
      /\ Len(emitted) \in Nat /\ Len(queue) \in Nat /\ Len(queue) > 0
      /\ emitted' \in Seq(Vocab) /\ Len(emitted') = Len(emitted) + 1
  BY <1>1, PushOutput
<1>3. /\ request # NoRequest /\ Len(emitted) + Len(queue) <= request.limit
      /\ \A i \in DOMAIN emitted : emitted[i] \notin Eos
      /\ emitted \in Seq(Vocab) /\ queue \in Seq(Vocab) /\ request.limit \in Nat
  BY <1>1, TalkType DEF IInv, CallShape, Budget, TypeOK
<1>4. Len(emitted) < request.limit
  BY <1>2, <1>3
<1>5. queue[1] \in Support(Law(request.prompt \o emitted, emitted))
  <2>1. 1 \in 1..Len(queue) /\ Len(emitted) + 1 - 1 = Len(emitted) /\ Len(emitted) \in 0..Len(emitted)
    BY <1>2
  <2>2. IsPrefix(emitted, emitted \o queue) /\ emitted \o queue \in Seq(Vocab)
    BY <1>3, PrefixOfConcat, ConcatProperties
  <2>3. SubSeq(emitted \o queue, 1, Len(emitted)) = SubSeq(emitted, 1, Len(emitted))
    BY <1>3, <2>1, <2>2, PrefixParts
  <2>4. SubSeq(emitted, 1, Len(emitted)) = emitted
    BY <1>3, SubSeqFull
  <2>5. Before(1) = emitted
    BY <2>1, <2>3, <2>4 DEF Before, Answer
  <2> QED
    BY <1>1, <2>1, <2>5 DEF IInv, Drawn
<1>6. shown' \in {shown, Decode(TextTokens(emitted'))}
  BY DEF Push
<1>7. IsPrefix(shown, shown')
  <2>1. PICK k \in 0..Len(emitted) :
          /\ k = 0 \/ emitted[k] \notin Lead \cup Eos
          /\ shown = Decode(SubSeq(emitted, 1, k))
    BY <1>1 DEF IInv, TextPlace, Complete
  <2> DEFINE x == queue[1]
  <2>2. x \in Vocab /\ emitted' = Append(emitted, x)
    BY <1>2
  <2> HIDE DEF x
  <2>3. /\ \A i \in 1..Len(emitted) : emitted'[i] = emitted[i]
        /\ SubSeq(emitted', 1, k) = SubSeq(emitted, 1, k)
    BY <1>3, <2>2, AppendEnds, CutOfAppend
  <2>4. k \in 0..Len(emitted') /\ (k # 0 => k \in 1..Len(emitted))
    BY <1>2
  <2>5. k = 0 \/ emitted'[k] \notin Lead \cup Eos
    BY <2>1, <2>3, <2>4
  <2>6. IsPrefix(shown, Decode(TextTokens(emitted')))
    BY <1>2, <2>1, <2>3, <2>4, <2>5, ShownIsPrefix
  <2>7. IsPrefix(shown, shown)
    BY <1>1, TextOfCall
  <2> QED
    BY <1>6, <2>6, <2>7
<1>8. Promise!ShowMore(Promise!Decode(Promise!TextTokens(emitted')))
  BY <1>6, <1>7, SameLanguage DEF Promise!ShowMore
<1> QED
  BY <1>1, <1>2, <1>3, <1>4, <1>5, <1>8, SameLanguage DEF Promise!Emit, Promise!Busy

\* A flush completes the answer, or hands out the rest of a call cut short.
LEMMA FlushEnds ==
  ASSUME IInv, NEW go \in BOOLEAN, Flush(go)
  PROVE  Promise!Complete \/ Promise!Abandon
<1> DEFINE full == Decode(TextTokens(emitted))
<1>1. phase = "flush" /\ request # NoRequest
  BY DEF Flush, IInv, CallShape
<1>2. IsPrefix(shown, full) /\ IsPrefix(text, shown)
  BY <1>1, TextOfCall
<1>3. Promise!FullText = full
  BY SameLanguage
<1>4. CASE finish = "cancelled"
  BY <1>1, <1>4, CutShort DEF Flush, Return, outVars
<1>5. CASE finish # "cancelled"
  <2>1. /\ shown' = full /\ request' = NoRequest /\ emitted' = emitted
        /\ text' = IF full # text /\ ~go THEN text ELSE full
        /\ finish' = IF full # text /\ ~go THEN "cancelled" ELSE finish
        /\ result' = [finish |-> finish', text |-> text']
    BY <1>5 DEF Flush
  <2>2. text = shown
    BY <1>1, <1>5 DEF IInv, TextPlace
  <2> HIDE DEF full
  <2>3. Promise!ShowMore(Promise!FullText)
    BY <1>2, <1>3, <2>1, SameLanguage DEF Promise!ShowMore
  <2>4. CASE full # text /\ ~go
    <3>1. result'.finish = "cancelled" /\ result'.text = text
      BY <2>1, <2>4
    <3>2. Promise!IsPrefix(result'.text, shown')
      BY <1>2, <2>1, <2>2, <3>1, SameLanguage
    <3> QED
      BY <1>1, <2>1, <2>3, <3>1, <3>2, SameLanguage DEF Promise!Abandon, Promise!Busy
  <2>5. CASE ~(full # text /\ ~go)
    <3>1. result'.finish = finish /\ result'.text = full
      BY <2>1, <2>5
    <3>2. /\ emitted # <<>>
          /\ \/ finish = "stop" /\ Last(emitted) \in Eos
             \/ /\ finish = "length" /\ Last(emitted) \notin Eos
                /\ Len(emitted) = request.limit
      BY <1>1, <1>5 DEF IInv, Budget
    <3> QED
      BY <1>1, <1>3, <2>1, <2>3, <3>1, <3>2, SameLanguage
      DEF Promise!Complete, Promise!Busy
  <2> QED
    BY <2>4, <2>5
<1> QED
  BY <1>4, <1>5

\* A call begins, or is refused at once.
LEMMA StartBegins ==
  ASSUME IInv, NEW r \in Requests, NEW use \in BOOLEAN, Start(r, use)
  PROVE  Promise!Begin(r) \/ Promise!Reject
<1>1. phase = "idle" /\ request = NoRequest /\ emitted' = <<>> /\ shown' = <<>>
  BY DEF Start, IInv, CallShape
<1>2. CASE Len(r.prompt) + r.limit <= Context
  <2>1. request' = r /\ result' = NoResult
    BY <1>2 DEF Start
  <2> QED
    BY <1>1, <2>1, SameLanguage DEF Promise!Begin, Promise!Busy
<1>3. CASE ~(Len(r.prompt) + r.limit <= Context)
  <2>1. request' = request /\ result' = Failure
    BY <1>3 DEF Start
  <2> QED
    BY <1>1, <2>1, SameLanguage DEF Promise!Reject, Promise!Busy
<1> QED
  BY <1>2, <1>3

\* Every step of the generator is a step of its promise, or nothing a caller
\* sees: drafting, verification and repair are invisible.
LEMMA StepKeeps ==
  IInv /\ [Next]_vars => [Promise!Next]_<<request, emitted, shown, result>>
<1> SUFFICES ASSUME IInv, [Next]_vars
             PROVE  [Promise!Next]_<<request, emitted, shown, result>>
  OBVIOUS
<1>1. ASSUME NEW r \in Requests, NEW use \in BOOLEAN, Start(r, use)
      PROVE  Promise!Next
  BY <1>1, StartBegins, SameLanguage DEF Promise!Next
<1>2. ASSUME NEW go \in BOOLEAN, Push(go)
      PROVE  Promise!Next
  <2>1. queue[1] \in Vocab
    BY <1>2, PushOutput DEF Push
  <2> QED
    BY <1>2, <2>1, PushEmits DEF Promise!Next
<1>3. ASSUME NEW go \in BOOLEAN, Flush(go)
      PROVE  Promise!Next
  BY <1>3, FlushEnds DEF Promise!Next
<1>4. CASE Fail
  BY <1>4, CutShort DEF Fail, Return, outVars, Promise!Next
<1>5. CASE PrefillChunk \/ PrefillToken \/ SampleRow \/ Decline \/ Step \/ Seed
           \/ Draft \/ VerifyBlock \/ Judge \/ Repair \/ UNCHANGED vars
  <2>1. UNCHANGED <<request, emitted, shown, result>>
    BY <1>5 DEF PrefillChunk, PrefillToken, SampleRow, Decline, Step, Seed, Draft,
                VerifyBlock, Judge, Repair, vars, outVars
  <2> QED
    BY <2>1
<1> QED
  BY <1>1, <1>2, <1>3, <1>4, <1>5 DEF Next

\* Drafting changes nothing a caller can see: whatever the drafter proposes,
\* each token is drawn from the target's law of the conversation so far,
\* text is never taken back, and the answer is what its finish reason says.
THEOREM DraftingKeepsPromise ==
  ASSUME LawsAreWeights
  PROVE  Spec => KeepsPromise
<1>1. Init => Promise!Init
  BY SameLanguage DEF Init, Promise!Init
<1> QED
  BY <1>1, StepKeeps, InvHolds, PTL DEF Spec, KeepsPromise, Promise!Spec
=============================================================================
