--------------------------- MODULE LanguageProofs ---------------------------
(***************************************************************************)
(* Facts about the shared vocabulary of the generators, for every set of   *)
(* tokens and every tokenizer that joins Lead tokens with their successor: *)
(* prefixes of conversations, and what decoding a longer answer does to    *)
(* the text already handed out.  And about searching a text for markers,   *)
(* for every text and all markers.                                         *)
(***************************************************************************)
EXTENDS Language, Markers, SequenceTheorems, WellFoundedInduction, TLAPS

----------------------------------------------------------------------------
\* Induction over the natural numbers, in the form the provers can use: the
\* property is a set.

\* A set of numbers with 0 and the successor of each of its members is Nat.
LEMMA Induction ==
  ASSUME NEW T \in SUBSET Nat, 0 \in T, \A n \in T : n + 1 \in T
  PROVE  T = Nat
<1> DEFINE Missing == Nat \ T
<1> SUFFICES ASSUME Missing # {} PROVE FALSE
  OBVIOUS
<1>1. PICK x \in Missing : \A y \in Missing : ~ (<<y, x>> \in OpToRel(<, Nat))
  BY WFMin, NatLessThanWellFounded
<1>2. \A y \in Missing : ~ (y < x)
  BY <1>1 DEF OpToRel
<1>3. x # 0 /\ x \in Nat
  OBVIOUS
<1>4. x - 1 \in T
  BY <1>2, <1>3
<1> QED
  BY <1>3, <1>4

----------------------------------------------------------------------------
\* Prefixes.

\* A sequence is empty when it has no elements.
LEMMA EmptyOrLonger ==
  ASSUME NEW S, NEW s \in Seq(S)
  PROVE  /\ Len(s) \in Nat
         /\ s = <<>> <=> Len(s) = 0
         /\ s # <<>> <=> Len(s) \in 1..Len(s)
<1>1. Len(s) \in Nat /\ (s # <<>> => Len(s) \in Nat \ {0})
  BY LenProperties, EmptySeq
<1>2. s = <<>> => Len(s) = 0
  OBVIOUS
<1> QED
  BY <1>1, <1>2

\* A sequence cut after n elements.
LEMMA CutType ==
  ASSUME NEW S, NEW s \in Seq(S), NEW n \in 0..Len(s)
  PROVE  /\ SubSeq(s, 1, n) \in Seq(S)
         /\ Len(SubSeq(s, 1, n)) = n
         /\ \A i \in 1..n : SubSeq(s, 1, n)[i] = s[i]
<1>1. Len(s) \in Nat
  BY LenProperties
<1>2. \A i \in 1..n : s[i] \in S
  BY <1>1, ElementOfSeq
<1> QED
  BY <1>1, <1>2, SubSeqProperties

\* A cut of a cut is a cut of the whole.
LEMMA CutOfCut ==
  ASSUME NEW S, NEW s \in Seq(S), NEW n \in 0..Len(s), NEW m \in 0..n
  PROVE  SubSeq(SubSeq(s, 1, n), 1, m) = SubSeq(s, 1, m)
<1> DEFINE c == SubSeq(s, 1, n)
           d == SubSeq(c, 1, m)
           e == SubSeq(s, 1, m)
<1>1. c \in Seq(S) /\ Len(c) = n /\ \A i \in 1..n : c[i] = s[i]
  BY CutType
<1>2. m \in 0..Len(s) /\ n \in Nat
  BY LenProperties
<1>3. e \in Seq(S) /\ Len(e) = m /\ \A i \in 1..m : e[i] = s[i]
  BY <1>2, CutType
<1> HIDE DEF c, e
<1>4. d \in Seq(S) /\ Len(d) = m /\ \A i \in 1..m : d[i] = c[i]
  BY <1>1, CutType
<1> HIDE DEF d
<1>5. d = e
  BY <1>1, <1>2, <1>3, <1>4, SeqEqual
<1> QED
  BY <1>5 DEF c, d, e

\* A prefix is a sequence that agrees with the longer one element by element.
LEMMA PrefixElementwise ==
  ASSUME NEW S, NEW s \in Seq(S), NEW t \in Seq(S)
  PROVE  IsPrefix(s, t) <=>
           Len(s) <= Len(t) /\ \A i \in 1..Len(s) : s[i] = t[i]
<1>1. SubSeq(s, 1, Len(s)) = s /\ Len(s) \in Nat /\ Len(t) \in Nat
  BY SubSeqFull, LenProperties
<1>2. ASSUME Len(s) <= Len(t)
      PROVE  (s = SubSeq(t, 1, Len(s))) <=> \A i \in 1..Len(s) : s[i] = t[i]
  <2> DEFINE c == SubSeq(t, 1, Len(s))
  <2>1. c \in Seq(S) /\ Len(c) = Len(s) /\ \A i \in 1..Len(s) : c[i] = t[i]
    BY <1>1, <1>2, CutType
  <2> HIDE DEF c
  <2>2. (\A i \in 1..Len(s) : s[i] = t[i]) => s = c
    BY <2>1, SeqEqual
  <2>3. (s = c) <=> \A i \in 1..Len(s) : s[i] = t[i]
    BY <2>1, <2>2
  <2> QED
    BY <2>3 DEF c
<1> QED
  BY <1>1, <1>2 DEF IsPrefix

\* The prefixes of a sequence begin with the empty one and end with itself.
LEMMA PrefixEnds ==
  ASSUME NEW S, NEW s \in Seq(S)
  PROVE  IsPrefix(<<>>, s) /\ IsPrefix(s, s)
<1> DEFINE e == <<>>
<1>1. e \in Seq(S) /\ Len(e) = 0 /\ Len(s) \in Nat
  BY EmptySeq, LenProperties
<1> HIDE DEF e
<1>2. Len(e) <= Len(s) /\ \A i \in 1..Len(e) : e[i] = s[i]
  BY <1>1
<1>3. IsPrefix(e, s)
  BY <1>1, <1>2, PrefixElementwise
<1>4. IsPrefix(s, s)
  BY <1>1, PrefixElementwise
<1> QED
  BY <1>3, <1>4 DEF e

\* A prefix of a prefix is a prefix.
LEMMA PrefixTransitive ==
  ASSUME NEW S, NEW s \in Seq(S), NEW t \in Seq(S), NEW u \in Seq(S),
         IsPrefix(s, t), IsPrefix(t, u)
  PROVE  IsPrefix(s, u)
<1>1. /\ Len(s) <= Len(t) /\ \A i \in 1..Len(s) : s[i] = t[i]
      /\ Len(t) <= Len(u) /\ \A i \in 1..Len(t) : t[i] = u[i]
  BY PrefixElementwise
<1>2. Len(s) \in Nat /\ Len(t) \in Nat /\ Len(u) \in Nat
  BY LenProperties
<1>3. Len(s) <= Len(u) /\ \A i \in 1..Len(s) : s[i] = u[i]
  BY <1>1, <1>2
<1> QED
  BY <1>3, PrefixElementwise

\* What is appended leaves a prefix behind.
LEMMA PrefixOfConcat ==
  ASSUME NEW S, NEW s \in Seq(S), NEW t \in Seq(S)
  PROVE  IsPrefix(s, s \o t)
<1>1. Len(s) \in Nat /\ Len(t) \in Nat
  BY LenProperties
<1>2. /\ s \o t \in Seq(S) /\ Len(s \o t) = Len(s) + Len(t)
      /\ \A i \in 1..Len(s) + Len(t) :
           (s \o t)[i] = IF i <= Len(s) THEN s[i] ELSE t[i - Len(s)]
  BY ConcatProperties
<1> DEFINE st == s \o t
<1>3. st \in Seq(S) /\ Len(s) <= Len(st) /\ \A i \in 1..Len(s) : s[i] = st[i]
  BY <1>1, <1>2
<1> HIDE DEF st
<1>4. IsPrefix(s, st)
  BY <1>3, PrefixElementwise
<1> QED
  BY <1>4 DEF st

\* A sequence cut anywhere is a prefix of itself.
LEMMA PrefixOfCut ==
  ASSUME NEW S, NEW s \in Seq(S), NEW n \in 0..Len(s)
  PROVE  IsPrefix(SubSeq(s, 1, n), s)
<1> DEFINE c == SubSeq(s, 1, n)
<1>1. c \in Seq(S) /\ Len(c) = n /\ (\A i \in 1..n : c[i] = s[i]) /\ n <= Len(s)
  BY CutType, LenProperties
<1> HIDE DEF c
<1>2. IsPrefix(c, s)
  BY <1>1, PrefixElementwise
<1> QED
  BY <1>2 DEF c

----------------------------------------------------------------------------
\* Joining pieces: FlattenSeq of the community modules.

\* f[i] joins the first i of the sequences ps, for i up to n.
JoinsTo(f, ps, n) ==
  \A i \in 1..n : f[i] = IF i = 1 THEN ps[i] ELSE f[i - 1] \o ps[i]

Joins(f, ps) ==
  f = [i \in 1..Len(ps) |-> IF i = 1 THEN ps[i] ELSE f[i - 1] \o ps[i]]

\* The elements of a join.
LEMMA JoinsValue ==
  ASSUME NEW f, NEW ps, Joins(f, ps), NEW i \in 1..Len(ps)
  PROVE  f[i] = IF i = 1 THEN ps[i] ELSE f[i - 1] \o ps[i]
  BY DEF Joins

\* A join of n pieces extends to one of n + 1.
LEMMA JoinOneMore ==
  ASSUME NEW S, NEW ps \in Seq(Seq(S)), NEW n \in Nat, n + 1 <= Len(ps),
         NEW f \in [1..n -> Seq(S)], JoinsTo(f, ps, n)
  PROVE  \E g \in [1..(n + 1) -> Seq(S)] : JoinsTo(g, ps, n + 1)
<1> DEFINE x == IF n = 0 THEN ps[n + 1] ELSE f[n] \o ps[n + 1]
           g == [i \in 1..(n + 1) |-> IF i <= n THEN f[i] ELSE x]
<1>1. Len(ps) \in Nat /\ ps[n + 1] \in Seq(S)
  BY LenProperties, ElementOfSeq
<1>2. x \in Seq(S)
  <2>1. CASE n = 0
    BY <1>1, <2>1
  <2>2. CASE n # 0
    <3>1. f[n] \in Seq(S)
      BY <2>2
    <3>2. f[n] \o ps[n + 1] \in Seq(S)
      BY <1>1, <3>1, ConcatProperties
    <3> QED
      BY <2>2, <3>2
  <2> QED
    BY <2>1, <2>2
<1>3. x = IF n + 1 = 1 THEN ps[n + 1] ELSE f[n] \o ps[n + 1]
  OBVIOUS
<1> HIDE DEF x
<1>4. g \in [1..(n + 1) -> Seq(S)]
  BY <1>2
<1>5. \A i \in 1..n : g[i] = f[i]
  OBVIOUS
<1>6. g[n + 1] = x
  OBVIOUS
<1> HIDE DEF g
<1>7. ASSUME NEW i \in 1..(n + 1)
      PROVE  g[i] = IF i = 1 THEN ps[i] ELSE g[i - 1] \o ps[i]
  <2>1. CASE i = n + 1
    <3>1. i # 1 => g[n] = f[n]
      BY <1>5, <2>1
    <3> QED
      BY <1>3, <1>6, <2>1, <3>1
  <2>2. CASE i \in 1..n
    <3>1. i # 1 => i - 1 \in 1..n
      BY <2>2
    <3>2. f[i] = IF i = 1 THEN ps[i] ELSE f[i - 1] \o ps[i]
      BY <2>2 DEF JoinsTo
    <3> QED
      BY <1>5, <2>2, <3>1, <3>2
  <2> QED
    BY <2>1, <2>2
<1> QED
  BY <1>4, <1>7 DEF JoinsTo

\* Any sequence of sequences can be joined.
LEMMA JoinExists ==
  ASSUME NEW S, NEW ps \in Seq(Seq(S))
  PROVE  \E f \in [1..Len(ps) -> Seq(S)] : Joins(f, ps)
<1> DEFINE Partly(n) == \E f \in [1..n -> Seq(S)] : JoinsTo(f, ps, n)
           T == {n \in Nat : n <= Len(ps) => Partly(n)}
<1>1. Len(ps) \in Nat
  BY LenProperties
<1>2. Partly(0)
  <2> DEFINE f == [i \in 1..0 |-> <<>>]
  <2>1. f \in [1..0 -> Seq(S)]
    OBVIOUS
  <2> HIDE DEF f
  <2>2. JoinsTo(f, ps, 0)
    BY DEF JoinsTo
  <2> QED
    BY <2>1, <2>2
<1>3. ASSUME NEW n \in Nat, n + 1 <= Len(ps), Partly(n) PROVE Partly(n + 1)
  BY <1>3, JoinOneMore
<1> HIDE DEF Partly
<1>4. 0 \in T
  BY <1>2
<1>5. ASSUME NEW n \in T PROVE n + 1 \in T
  BY <1>1, <1>3
<1>6. T = Nat
  <2>1. T \in SUBSET Nat
    OBVIOUS
  <2> HIDE DEF T
  <2> QED
    BY <1>4, <1>5, <2>1, Induction
<1>7. Partly(Len(ps))
  <2>1. Len(ps) \in T
    BY <1>1, <1>6
  <2> QED
    BY <1>1, <2>1
<1>8. PICK f \in [1..Len(ps) -> Seq(S)] : JoinsTo(f, ps, Len(ps))
  BY <1>7 DEF Partly
<1>9. Joins(f, ps)
  BY <1>8 DEF Joins, JoinsTo
<1> QED
  BY <1>9

\* There is one way to join: the pieces decide.
LEMMA JoinUnique ==
  ASSUME NEW S, NEW ps \in Seq(Seq(S)), NEW f, NEW g, Joins(f, ps), Joins(g, ps)
  PROVE  f = g
<1>1. Len(ps) \in Nat
  BY LenProperties
<1>2. /\ DOMAIN f = 1..Len(ps) /\ DOMAIN g = 1..Len(ps)
      /\ JoinsTo(f, ps, Len(ps)) /\ JoinsTo(g, ps, Len(ps))
      /\ f = [i \in DOMAIN f |-> f[i]] /\ g = [i \in DOMAIN g |-> g[i]]
  BY DEF Joins, JoinsTo
<1> DEFINE T == {i \in Nat : i \in 1..Len(ps) => f[i] = g[i]}
<1>3. 0 \in T
  OBVIOUS
<1>4. ASSUME NEW i \in T PROVE i + 1 \in T
  <2> SUFFICES ASSUME i + 1 \in 1..Len(ps) PROVE f[i + 1] = g[i + 1]
    OBVIOUS
  <2>1. i + 1 # 1 => f[i] = g[i]
    BY <1>1
  <2>2. (i + 1) - 1 = i
    OBVIOUS
  <2>3. /\ f[i + 1] = IF i + 1 = 1 THEN ps[i + 1] ELSE f[i] \o ps[i + 1]
        /\ g[i + 1] = IF i + 1 = 1 THEN ps[i + 1] ELSE g[i] \o ps[i + 1]
    BY <1>2, <2>2 DEF JoinsTo
  <2> QED
    BY <2>1, <2>3
<1>5. T = Nat
  <2>1. T \in SUBSET Nat
    OBVIOUS
  <2> HIDE DEF T
  <2> QED
    BY <1>3, <1>4, <2>1, Induction
<1>6. \A i \in 1..Len(ps) : f[i] = g[i]
  BY <1>1, <1>5
<1> QED
  BY <1>2, <1>6

\* What FlattenSeq returns is the last of the joins.
LEMMA FlattenIsJoin ==
  ASSUME NEW S, NEW ps \in Seq(Seq(S)), NEW f, Joins(f, ps), ps # <<>>
  PROVE  FlattenSeq(ps) = f[Len(ps)]
<1> DEFINE flatten == CHOOSE h :
      h = [i \in 1..Len(ps) |-> IF i = 1 THEN ps[i] ELSE h[i - 1] \o ps[i]]
<1>1. Joins(flatten, ps)
  BY DEF Joins
<1>2. flatten = f
  BY <1>1, JoinUnique
<1>3. Len(ps) # 0
  BY EmptySeq
<1>4. FlattenSeq(ps) = flatten[Len(ps)]
  BY <1>3 DEF FlattenSeq
<1> QED
  BY <1>2, <1>4

\* The join of the first k pieces is what FlattenSeq returns for them.
LEMMA FlattenCut ==
  ASSUME NEW S, NEW ps \in Seq(Seq(S)), NEW f, Joins(f, ps), NEW k \in 1..Len(ps)
  PROVE  FlattenSeq(SubSeq(ps, 1, k)) = f[k]
<1> DEFINE c == SubSeq(ps, 1, k)
           g == [i \in 1..k |-> f[i]]
<1>1. Len(ps) \in Nat /\ k \in 0..Len(ps)
  BY LenProperties
<1>2. c \in Seq(Seq(S)) /\ Len(c) = k /\ \A i \in 1..k : c[i] = ps[i]
  BY <1>1, CutType
<1> HIDE DEF c
<1>3. c # <<>>
  BY <1>1, <1>2, EmptyOrLonger
<1>4. ASSUME NEW i \in 1..k
      PROVE  f[i] = IF i = 1 THEN ps[i] ELSE f[i - 1] \o ps[i]
  <2>1. i \in 1..Len(ps)
    BY <1>1
  <2> QED
    BY <2>1, JoinsValue
<1>5. ASSUME NEW i \in 1..k
      PROVE  f[i] = IF i = 1 THEN c[i] ELSE g[i - 1] \o c[i]
  <2>1. i # 1 => i - 1 \in 1..k
    BY <1>1
  <2> QED
    BY <1>2, <1>4, <2>1
<1>6. Joins(g, c)
  BY <1>2, <1>5 DEF Joins
<1>7. FlattenSeq(c) = g[Len(c)]
  BY <1>2, <1>3, <1>6, FlattenIsJoin
<1> QED
  BY <1>2, <1>7 DEF c

\* Joining sequences over S makes a sequence over S.
LEMMA FlattenType ==
  ASSUME NEW S, NEW ps \in Seq(Seq(S))
  PROVE  FlattenSeq(ps) \in Seq(S)
<1>1. Len(ps) \in Nat
  BY LenProperties
<1>2. CASE ps = <<>>
  <2>1. FlattenSeq(ps) = <<>>
    BY <1>2 DEF FlattenSeq
  <2> QED
    BY <2>1, EmptySeq
<1>3. CASE ps # <<>>
  <2>1. PICK f \in [1..Len(ps) -> Seq(S)] : Joins(f, ps)
    BY JoinExists
  <2>2. Len(ps) \in 1..Len(ps)
    BY <1>1, <1>3, EmptySeq
  <2>3. FlattenSeq(ps) = f[Len(ps)]
    BY <1>3, <2>1, FlattenIsJoin
  <2> QED
    BY <2>2, <2>3
<1> QED
  BY <1>2, <1>3

\* Joining more pieces extends what fewer make.
LEMMA FlattenPrefix ==
  ASSUME NEW S, NEW ps \in Seq(Seq(S)), NEW k \in 0..Len(ps)
  PROVE  IsPrefix(FlattenSeq(SubSeq(ps, 1, k)), FlattenSeq(ps))
<1>1. Len(ps) \in Nat /\ k \in Nat /\ k <= Len(ps)
  BY LenProperties
<1>2. CASE k = 0
  <2>1. SubSeq(ps, 1, k) = <<>>
    BY <1>2, SubSeqEmpty
  <2>2. FlattenSeq(SubSeq(ps, 1, k)) = <<>>
    BY <2>1 DEF FlattenSeq
  <2>3. FlattenSeq(ps) \in Seq(S)
    BY FlattenType
  <2> QED
    BY <2>2, <2>3, PrefixEnds
<1>3. CASE k # 0
  <2>1. PICK f \in [1..Len(ps) -> Seq(S)] : Joins(f, ps)
    BY JoinExists
  <2>2. \A i \in 1..Len(ps) : f[i] \in Seq(S) /\ ps[i] \in Seq(S)
    BY ElementOfSeq
  <2> DEFINE T == {i \in Nat : k + i <= Len(ps) => IsPrefix(f[k], f[k + i])}
  <2>3. 0 \in T
    <3>1. f[k] \in Seq(S) /\ k + 0 = k
      BY <1>1, <1>3, <2>2
    <3>2. IsPrefix(f[k], f[k])
      BY <3>1, PrefixEnds
    <3> QED
      BY <3>1, <3>2
  <2>4. ASSUME NEW i \in T PROVE i + 1 \in T
    <3> SUFFICES ASSUME k + (i + 1) <= Len(ps)
                 PROVE  IsPrefix(f[k], f[k + (i + 1)])
      OBVIOUS
    <3> DEFINE j == k + i
    <3>1. /\ j \in 1..Len(ps) /\ j + 1 \in 1..Len(ps) /\ j + 1 # 1
          /\ k \in 1..Len(ps) /\ (j + 1) - 1 = j /\ k + (i + 1) = j + 1
      BY <1>1, <1>3
    <3>2. IsPrefix(f[k], f[j])
      BY <1>1
    <3> HIDE DEF j
    <3>3. f[j + 1] = f[j] \o ps[j + 1]
      BY <2>1, <3>1 DEF Joins
    <3>4. /\ f[k] \in Seq(S) /\ f[j] \in Seq(S)
          /\ ps[j + 1] \in Seq(S) /\ f[j + 1] \in Seq(S)
      BY <2>2, <3>1
    <3>5. IsPrefix(f[j], f[j + 1])
      BY <3>3, <3>4, PrefixOfConcat
    <3>6. IsPrefix(f[k], f[j + 1])
      BY <3>2, <3>4, <3>5, PrefixTransitive
    <3> QED
      BY <3>1, <3>6
  <2>5. T = Nat
    <3>1. T \in SUBSET Nat
      OBVIOUS
    <3> HIDE DEF T
    <3> QED
      BY <2>3, <2>4, <3>1, Induction
  <2>6. IsPrefix(f[k], f[Len(ps)])
    <3>1. Len(ps) - k \in Nat /\ k + (Len(ps) - k) = Len(ps)
      BY <1>1
    <3>2. \A i \in Nat : k + i <= Len(ps) => IsPrefix(f[k], f[k + i])
      BY <2>5, Zenon
    <3>3. k + (Len(ps) - k) <= Len(ps)
      BY <1>1
    <3>4. IsPrefix(f[k], f[k + (Len(ps) - k)])
      BY <3>1, <3>2, <3>3, Zenon
    <3> QED
      BY <3>1, <3>4, Zenon
  <2>7. ps # <<>>
    BY <1>1, <1>3, EmptySeq
  <2>8. FlattenSeq(ps) = f[Len(ps)]
    BY <2>1, <2>7, FlattenIsJoin
  <2>9. FlattenSeq(SubSeq(ps, 1, k)) = f[k]
    BY <1>1, <1>3, <2>1, FlattenCut
  <2> QED
    BY <2>6, <2>8, <2>9
<1> QED
  BY <1>2, <1>3

\* The last piece comes last.
LEMMA FlattenSplit ==
  ASSUME NEW S, NEW ps \in Seq(Seq(S)), ps # <<>>
  PROVE  \E h \in Seq(S) : FlattenSeq(ps) = h \o ps[Len(ps)]
<1> DEFINE n == Len(ps)
<1>1. n \in Nat /\ n \in 1..Len(ps) /\ ps[n] \in Seq(S)
  BY EmptyOrLonger, ElementOfSeq
<1>2. PICK f : f \in [1..n -> Seq(S)] /\ Joins(f, ps)
  BY JoinExists
<1>3. FlattenSeq(ps) = f[n]
  BY <1>2, FlattenIsJoin
<1> HIDE DEF n
<1>4. f[n] = IF n = 1 THEN ps[n] ELSE f[n - 1] \o ps[n]
  BY <1>1, <1>2, JoinsValue, ZenonT(30)
<1>5. CASE n = 1
  <2>1. f[n] = <<>> \o ps[n]
    BY <1>1, <1>4, <1>5, ConcatEmptySeq
  <2> QED
    BY <1>3, <2>1, EmptySeq DEF n
<1>6. CASE n # 1
  <2>1. f[n - 1] \in Seq(S)
    BY <1>1, <1>2, <1>6
  <2> QED
    BY <1>3, <1>4, <1>6, <2>1 DEF n
<1> QED
  BY <1>5, <1>6

\* If the last piece is one character, it ends what the pieces make.
LEMMA FlattenLast ==
  ASSUME NEW S, NEW ps \in Seq(Seq(S)), NEW x \in S,
         ps # <<>>, ps[Len(ps)] = <<x>>
  PROVE  FlattenSeq(ps) # <<>> /\ Last(FlattenSeq(ps)) = x
<1>1. PICK h \in Seq(S) : FlattenSeq(ps) = h \o <<x>>
  BY FlattenSplit
<1>2. /\ <<x>> \in Seq(S) /\ Len(<<x>>) = 1 /\ <<x>>[1] = x
      /\ Len(h) \in Nat
  BY LenProperties
<1>3. Len(h \o <<x>>) = Len(h) + 1 /\ (h \o <<x>>)[Len(h) + 1] = x
  BY <1>2, ConcatProperties
<1>4. h \o <<x>> # <<>>
  BY <1>2, <1>3
<1> QED
  BY <1>1, <1>3, <1>4 DEF Last

----------------------------------------------------------------------------
\* Text.

\* What a tokenizer can show: a token, two tokens joined, or U+FFFD.
Characters == {Replacement} \cup Seq(Vocab)

Pieces(ts) == [i \in 1..Len(ts) |-> Piece(ts, i)]

\* Every token makes a short text.
LEMMA PieceType ==
  ASSUME NEW ts \in Seq(Vocab), NEW i \in 1..Len(ts)
  PROVE  Piece(ts, i) \in Seq(Characters)
<1>1. Len(ts) \in Nat
  BY LenProperties
<1>2. ts[i] \in Vocab
  BY ElementOfSeq
<1>3. i > 1 => ts[i - 1] \in Vocab
  <2>1. i > 1 => i - 1 \in 1..Len(ts)
    BY <1>1
  <2> QED
    BY <2>1, ElementOfSeq
<1>4. <<Replacement>> \in Seq(Characters) /\ <<>> \in Seq(Characters)
  BY DEF Characters
<1>5. << <<ts[i]>> >> \in Seq(Characters)
  BY <1>2 DEF Characters
<1>6. i > 1 => << <<ts[i - 1], ts[i]>> >> \in Seq(Characters)
  BY <1>2, <1>3 DEF Characters
<1> QED
  BY <1>4, <1>5, <1>6 DEF Piece

\* The pieces of an answer, and the text they join to.
LEMMA DecodeType ==
  ASSUME NEW ts \in Seq(Vocab)
  PROVE  /\ Pieces(ts) \in Seq(Seq(Characters))
         /\ Len(Pieces(ts)) = Len(ts)
         /\ Decode(ts) = FlattenSeq(Pieces(ts))
         /\ Decode(ts) \in Seq(Characters)
<1>1. Len(ts) \in Nat
  BY LenProperties
<1>2. \A i \in 1..Len(ts) : Piece(ts, i) \in Seq(Characters)
  BY PieceType
<1>3. Pieces(ts) \in [1..Len(ts) -> Seq(Characters)]
  BY <1>2 DEF Pieces
<1>4. Pieces(ts) \in Seq(Seq(Characters)) /\ Len(Pieces(ts)) = Len(ts)
  BY <1>1, <1>3 DEF Pieces
<1>5. Decode(ts) = FlattenSeq(Pieces(ts))
  BY DEF Decode, Pieces
<1>6. FlattenSeq(Pieces(ts)) \in Seq(Characters)
  BY <1>4, FlattenType
<1> QED
  BY <1>4, <1>5, <1>6

\* Tokens that come later change no piece before a character is complete.
LEMMA PiecesCut ==
  ASSUME NEW ts \in Seq(Vocab), NEW k \in 0..Len(ts),
         k = 0 \/ ts[k] \notin Lead
  PROVE  Pieces(SubSeq(ts, 1, k)) = SubSeq(Pieces(ts), 1, k)
<1> DEFINE c == SubSeq(ts, 1, k)
<1>1. Len(ts) \in Nat /\ k \in Nat /\ k <= Len(ts)
  BY LenProperties
<1>2. c \in Seq(Vocab) /\ Len(c) = k /\ \A i \in 1..k : c[i] = ts[i]
  BY CutType
<1> HIDE DEF c
<1>3. ASSUME NEW i \in 1..k
      PROVE  Piece(c, i) = Piece(ts, i)
  <2>1. c[i] = ts[i] /\ (i > 1 => c[i - 1] = ts[i - 1])
    BY <1>1, <1>2
  <2>2. i # k => c[i + 1] = ts[i + 1] /\ i # Len(ts) /\ i # Len(c)
    BY <1>1, <1>2
  <2>3. i = k => ts[i] \notin Lead
    BY <1>1
  <2> QED
    BY <2>1, <2>2, <2>3 DEF Piece
<1> DEFINE ps == Pieces(ts)
           pc == Pieces(c)
           cp == SubSeq(ps, 1, k)
<1>4. /\ ps \in Seq(Seq(Characters)) /\ Len(ps) = Len(ts)
      /\ pc \in Seq(Seq(Characters)) /\ Len(pc) = k
  BY <1>2, DecodeType
<1>5. \A i \in 1..k : ps[i] = Piece(ts, i) /\ pc[i] = Piece(c, i)
  BY <1>1, <1>2 DEF Pieces
<1> HIDE DEF ps, pc
<1>6. cp \in Seq(Seq(Characters)) /\ Len(cp) = k /\ \A i \in 1..k : cp[i] = ps[i]
  BY <1>1, <1>4, CutType
<1> HIDE DEF cp
<1>7. \A i \in 1..Len(pc) : pc[i] = cp[i]
  BY <1>3, <1>4, <1>5, <1>6
<1>8. pc = cp
  BY <1>4, <1>6, <1>7, SeqEqual
<1> QED
  BY <1>8 DEF pc, cp, ps, c

\* Text shown at the end of a character stays what it is, whatever follows.
LEMMA TextGrows ==
  ASSUME NEW ts \in Seq(Vocab), NEW k \in 0..Len(ts),
         k = 0 \/ ts[k] \notin Lead
  PROVE  IsPrefix(Decode(SubSeq(ts, 1, k)), Decode(ts))
<1>1. SubSeq(ts, 1, k) \in Seq(Vocab)
  BY CutType
<1>2. Decode(SubSeq(ts, 1, k)) = FlattenSeq(SubSeq(Pieces(ts), 1, k))
  BY <1>1, DecodeType, PiecesCut
<1>3. /\ Pieces(ts) \in Seq(Seq(Characters)) /\ k \in 0..Len(Pieces(ts))
      /\ Decode(ts) = FlattenSeq(Pieces(ts))
  BY DecodeType
<1>4. IsPrefix(FlattenSeq(SubSeq(Pieces(ts), 1, k)), FlattenSeq(Pieces(ts)))
  BY <1>3, FlattenPrefix
<1> QED
  BY <1>2, <1>3, <1>4

\* Text that ends inside a character ends in U+FFFD, so it is held back.
LEMMA DanglingIsPartial ==
  ASSUME NEW ts \in Seq(Vocab), ts # <<>>, Last(ts) \in Lead
  PROVE  Partial(Decode(ts))
<1> DEFINE n == Len(ts)
<1>1. n \in 1..n /\ ts[n] \in Lead
  BY EmptyOrLonger DEF Last
<1>2. /\ Pieces(ts) \in Seq(Seq(Characters)) /\ Len(Pieces(ts)) = n
      /\ Decode(ts) = FlattenSeq(Pieces(ts))
  BY DecodeType
<1>3. Pieces(ts)[n] = <<Replacement>>
  BY <1>1 DEF Pieces, Piece
<1>4. Pieces(ts) # <<>> /\ Replacement \in Characters
  BY <1>1, <1>2, EmptyOrLonger DEF Characters
<1>5. FlattenSeq(Pieces(ts)) # <<>> /\ Last(FlattenSeq(Pieces(ts))) = Replacement
  BY <1>2, <1>3, <1>4, FlattenLast
<1> QED
  BY <1>2, <1>5 DEF Partial

\* No token makes no text.
LEMMA DecodeNothing == Decode(<<>>) = <<>>
<1>1. Pieces(<<>>) \in Seq(Seq(Characters)) /\ Len(Pieces(<<>>)) = 0
  BY EmptySeq, DecodeType
<1>2. Pieces(<<>>) = <<>>
  BY <1>1, EmptyOrLonger
<1>3. Decode(<<>>) = FlattenSeq(<<>>)
  BY <1>2, EmptySeq, DecodeType
<1> QED
  BY <1>3 DEF FlattenSeq

----------------------------------------------------------------------------
\* Conversations.

\* The ends of a sequence that is not empty.
LEMMA FrontAndLast ==
  ASSUME NEW S, NEW s \in Seq(S), s # <<>>
  PROVE  /\ Front(s) \in Seq(S) /\ Len(Front(s)) = Len(s) - 1
         /\ Last(s) \in S
         /\ Front(s) \o <<Last(s)>> = s
<1>1. Len(s) \in Nat /\ Len(s) \in 1..Len(s) /\ Len(s) - 1 \in 0..Len(s)
  BY EmptyOrLonger
<1>2. Last(s) \in S
  BY <1>1, ElementOfSeq DEF Last
<1>3. Front(s) \in Seq(S) /\ Len(Front(s)) = Len(s) - 1
  BY <1>1, CutType DEF Front
<1>4. SubSeq(s, 1, Len(s)) = SubSeq(s, 1, Len(s) - 1) \o <<s[Len(s)]>>
  <2>1. 1 \in 1..Len(s) /\ Len(s) \in 1..Len(s)
    BY <1>1
  <2> QED
    BY <2>1, SubSeqRecursiveSecond
<1>5. SubSeq(s, 1, Len(s)) = s
  BY SubSeqFull
<1> QED
  BY <1>2, <1>3, <1>4, <1>5 DEF Front, Last

\* The last token of an answer completes the conversation that lacked it.
LEMMA ConversationEnds ==
  ASSUME NEW S, NEW p \in Seq(S), NEW s \in Seq(S), s # <<>>
  PROVE  /\ p \o Front(s) \in Seq(S)
         /\ Append(p \o Front(s), Last(s)) = p \o s
         /\ IsPrefix(p \o Front(s), p \o s)
<1> DEFINE f == Front(s)
           pf == p \o f
           x == Last(s)
           a == Append(pf, x)
           b == p \o s
<1>1. /\ f \in Seq(S) /\ Len(f) = Len(s) - 1 /\ x \in S
      /\ Len(s) \in Nat /\ Len(p) \in Nat /\ Len(s) \in 1..Len(s)
  BY FrontAndLast, EmptyOrLonger
<1>2. \A i \in 1..(Len(s) - 1) : f[i] = s[i]
  <2>1. Len(s) - 1 \in 0..Len(s)
    BY <1>1
  <2> QED
    BY <2>1, CutType DEF Front
<1>3. x = s[Len(s)]
  BY DEF Last
<1> HIDE DEF f, x
<1>4. /\ pf \in Seq(S) /\ Len(pf) = Len(p) + (Len(s) - 1)
      /\ \A i \in 1..(Len(p) + (Len(s) - 1)) :
           pf[i] = IF i <= Len(p) THEN p[i] ELSE f[i - Len(p)]
  <2>1. /\ pf \in Seq(S) /\ Len(pf) = Len(p) + Len(f)
        /\ \A i \in 1..(Len(p) + Len(f)) :
             pf[i] = IF i <= Len(p) THEN p[i] ELSE f[i - Len(p)]
    BY <1>1, ConcatProperties
  <2> HIDE DEF pf
  <2> QED
    BY <1>1, <2>1
<1>5. /\ b \in Seq(S) /\ Len(b) = Len(p) + Len(s)
      /\ \A i \in 1..(Len(p) + Len(s)) :
           b[i] = IF i <= Len(p) THEN p[i] ELSE s[i - Len(p)]
  BY <1>1, ConcatProperties
<1> HIDE DEF pf, b
<1>6. /\ a \in Seq(S) /\ Len(a) = Len(p) + Len(s) /\ a[Len(p) + Len(s)] = x
      /\ \A i \in 1..(Len(p) + (Len(s) - 1)) : a[i] = pf[i]
  <2>1. /\ a \in Seq(S) /\ Len(a) = Len(pf) + 1 /\ a[Len(pf) + 1] = x
        /\ \A i \in 1..Len(pf) : a[i] = pf[i]
    BY <1>1, <1>4, AppendProperties
  <2> HIDE DEF a
  <2>2. Len(pf) + 1 = Len(p) + Len(s)
    BY <1>1, <1>4
  <2> QED
    BY <1>4, <2>1, <2>2
<1> HIDE DEF a
<1>7. ASSUME NEW i \in 1..(Len(p) + (Len(s) - 1)) PROVE pf[i] = b[i]
  <2>1. i \in 1..(Len(p) + Len(s))
    BY <1>1
  <2>2. CASE i <= Len(p)
    BY <1>4, <1>5, <2>1, <2>2
  <2>3. CASE ~(i <= Len(p))
    <3>1. i - Len(p) \in 1..(Len(s) - 1)
      BY <1>1, <2>3
    <3> QED
      BY <1>2, <1>4, <1>5, <2>1, <2>3, <3>1
  <2> QED
    BY <2>2, <2>3
<1>8. b[Len(p) + Len(s)] = x
  <2>1. /\ Len(p) + Len(s) \in 1..(Len(p) + Len(s)) /\ ~(Len(p) + Len(s) <= Len(p))
        /\ (Len(p) + Len(s)) - Len(p) = Len(s)
    BY <1>1
  <2> QED
    BY <1>3, <1>5, <2>1
<1>9. a = b
  <2>1. ASSUME NEW i \in 1..Len(a) PROVE a[i] = b[i]
    <3>1. i = Len(p) + Len(s) \/ i \in 1..(Len(p) + (Len(s) - 1))
      <4>1. i \in 1..(Len(p) + Len(s))
        BY <1>6
      <4> QED
        BY <1>1, <4>1
    <3> QED
      BY <1>6, <1>7, <1>8, <3>1
  <2> QED
    BY <1>5, <1>6, <2>1, SeqEqual
<1>10. IsPrefix(pf, b)
  <2>1. Len(pf) <= Len(b) /\ \A i \in 1..Len(pf) : pf[i] = b[i]
    BY <1>1, <1>4, <1>5, <1>7
  <2> QED
    BY <1>4, <1>5, <2>1, PrefixElementwise
<1> QED
  BY <1>4, <1>9, <1>10 DEF a, b, pf, f, x

\* One more element.
LEMMA AppendEnds ==
  ASSUME NEW S, NEW s \in Seq(S), NEW x \in S
  PROVE  /\ Append(s, x) \in Seq(S) /\ Append(s, x) # <<>>
         /\ Append(s, x) = s \o <<x>>
         /\ Len(Append(s, x)) = Len(s) + 1
         /\ Front(Append(s, x)) = s /\ Last(Append(s, x)) = x
         /\ \A i \in 1..Len(s) : Append(s, x)[i] = s[i]
<1> DEFINE a == Append(s, x)
<1>1. /\ a \in Seq(S) /\ a # <<>> /\ Len(a) = Len(s) + 1
      /\ (\A i \in 1..Len(s) : a[i] = s[i]) /\ a[Len(s) + 1] = x
  BY AppendProperties
<1>2. a = s \o <<x>>
  BY AppendIsConcat
<1>3. Len(s) \in Nat
  BY LenProperties
<1> HIDE DEF a
<1>4. Last(a) = x
  BY <1>1 DEF Last
<1>5. Front(a) = s
  <2> DEFINE f == SubSeq(a, 1, Len(s))
  <2>1. Len(s) \in 0..Len(a)
    BY <1>1, <1>3
  <2>2. f \in Seq(S) /\ Len(f) = Len(s) /\ \A i \in 1..Len(s) : f[i] = a[i]
    BY <1>1, <2>1, CutType
  <2>3. Front(a) = f
    BY <1>1, <1>3 DEF Front
  <2> HIDE DEF f
  <2>4. f = s
    BY <1>1, <2>2, SeqEqual
  <2> QED
    BY <2>3, <2>4
<1> QED
  BY <1>1, <1>2, <1>4, <1>5 DEF a

\* What an append leaves of a cut.
LEMMA CutOfAppend ==
  ASSUME NEW S, NEW s \in Seq(S), NEW x \in S, NEW k \in 0..Len(s)
  PROVE  SubSeq(Append(s, x), 1, k) = SubSeq(s, 1, k)
<1> DEFINE a == Append(s, x)
           ca == SubSeq(a, 1, k)
           cs == SubSeq(s, 1, k)
<1>1. /\ a \in Seq(S) /\ Len(a) = Len(s) + 1 /\ Len(s) \in Nat
      /\ \A i \in 1..Len(s) : a[i] = s[i]
  BY AppendEnds, LenProperties
<1> HIDE DEF a
<1>2. k \in 0..Len(a)
  BY <1>1
<1>3. ca \in Seq(S) /\ Len(ca) = k /\ \A i \in 1..k : ca[i] = a[i]
  BY <1>1, <1>2, CutType
<1>4. cs \in Seq(S) /\ Len(cs) = k /\ \A i \in 1..k : cs[i] = s[i]
  BY CutType
<1> HIDE DEF ca, cs
<1>5. \A i \in 1..Len(ca) : ca[i] = cs[i]
  BY <1>1, <1>3, <1>4
<1>6. ca = cs
  BY <1>3, <1>4, <1>5, SeqEqual
<1> QED
  BY <1>6 DEF a, ca, cs

\* What a prefix and the whole have in common.
LEMMA PrefixParts ==
  ASSUME NEW S, NEW s \in Seq(S), NEW t \in Seq(S), IsPrefix(s, t)
  PROVE  /\ Len(s) <= Len(t)
         /\ \A i \in 1..Len(s) : t[i] = s[i]
         /\ \A k \in 0..Len(s) : SubSeq(t, 1, k) = SubSeq(s, 1, k)
<1>1. Len(s) <= Len(t) /\ \A i \in 1..Len(s) : t[i] = s[i]
  BY PrefixElementwise
<1>2. Len(s) \in Nat /\ Len(t) \in Nat
  BY LenProperties
<1>3. ASSUME NEW k \in 0..Len(s) PROVE SubSeq(t, 1, k) = SubSeq(s, 1, k)
  <2> DEFINE a == SubSeq(t, 1, k)
             b == SubSeq(s, 1, k)
  <2>1. k \in 0..Len(t)
    BY <1>1, <1>2
  <2>2. a \in Seq(S) /\ Len(a) = k /\ \A i \in 1..k : a[i] = t[i]
    BY <2>1, CutType
  <2>3. b \in Seq(S) /\ Len(b) = k /\ \A i \in 1..k : b[i] = s[i]
    BY CutType
  <2> HIDE DEF a, b
  <2>4. \A i \in 1..Len(a) : a[i] = b[i]
    BY <1>1, <1>2, <2>2, <2>3
  <2>5. a = b
    BY <2>2, <2>3, <2>4, SeqEqual
  <2> QED
    BY <2>5 DEF a, b
<1> QED
  BY <1>1, <1>3

\* Cutting behind the first part of a concatenation.
LEMMA CutOfConcat ==
  ASSUME NEW S, NEW s \in Seq(S), NEW t \in Seq(S), NEW k \in 0..Len(t)
  PROVE  SubSeq(s \o t, 1, Len(s) + k) = s \o SubSeq(t, 1, k)
<1> DEFINE st == s \o t
           c == SubSeq(t, 1, k)
           a == SubSeq(st, 1, Len(s) + k)
           b == s \o c
<1>1. Len(s) \in Nat /\ Len(t) \in Nat
  BY LenProperties
<1>2. /\ st \in Seq(S) /\ Len(st) = Len(s) + Len(t)
      /\ \A i \in 1..Len(s) + Len(t) : st[i] = IF i <= Len(s) THEN s[i] ELSE t[i - Len(s)]
  BY ConcatProperties
<1>3. c \in Seq(S) /\ Len(c) = k /\ \A i \in 1..k : c[i] = t[i]
  BY CutType
<1> HIDE DEF st, c
<1>4. Len(s) + k \in 0..Len(st)
  BY <1>1, <1>2
<1>5. /\ a \in Seq(S) /\ Len(a) = Len(s) + k
      /\ \A i \in 1..(Len(s) + k) : a[i] = st[i]
  BY <1>2, <1>4, CutType
<1>6. /\ b \in Seq(S) /\ Len(b) = Len(s) + Len(c)
      /\ \A i \in 1..Len(s) + Len(c) : b[i] = IF i <= Len(s) THEN s[i] ELSE c[i - Len(s)]
  BY <1>3, ConcatProperties
<1> HIDE DEF a, b
<1>7. ASSUME NEW i \in 1..(Len(s) + k) PROVE a[i] = b[i]
  <2>1. i \in 1..(Len(s) + Len(t))
    BY <1>1
  <2>2. CASE i <= Len(s)
    BY <1>2, <1>3, <1>5, <1>6, <2>1, <2>2
  <2>3. CASE ~(i <= Len(s))
    <3>1. i - Len(s) \in 1..k
      BY <1>1, <2>3
    <3> QED
      BY <1>2, <1>3, <1>5, <1>6, <2>1, <2>3, <3>1
  <2> QED
    BY <2>2, <2>3
<1>8. a = b
  BY <1>3, <1>5, <1>6, <1>7, SeqEqual
<1> QED
  BY <1>8 DEF a, b, st, c

\* A token that moves from a queue to the output leaves both together as
\* they were.
LEMMA MoveHead ==
  ASSUME NEW S, NEW s \in Seq(S), NEW q \in Seq(S), q # <<>>
  PROVE  /\ Append(s, Head(q)) \o Tail(q) = s \o q
         /\ Head(q) \in S /\ Head(q) = q[1]
         /\ Tail(q) \in Seq(S) /\ Len(Tail(q)) = Len(q) - 1
         /\ \A i \in 1..(Len(q) - 1) : Tail(q)[i] = q[i + 1]
<1> DEFINE h == Head(q)
           l == Tail(q)
           a == Append(s, h)
           al == a \o l
           sq == s \o q
<1>1. Len(s) \in Nat /\ Len(q) \in Nat /\ Len(q) >= 1
  BY EmptyOrLonger
<1>2. /\ h \in S /\ h = q[1] /\ l \in Seq(S) /\ Len(l) = Len(q) - 1
      /\ \A i \in 1..(Len(q) - 1) : l[i] = q[i + 1]
  BY <1>1, HeadTailProperties
<1> HIDE DEF h, l
<1>3. /\ a \in Seq(S) /\ Len(a) = Len(s) + 1 /\ a[Len(s) + 1] = h
      /\ \A i \in 1..Len(s) : a[i] = s[i]
  BY <1>2, AppendProperties
<1> HIDE DEF a
<1>4. /\ al \in Seq(S) /\ Len(al) = Len(a) + Len(l)
      /\ \A i \in 1..Len(a) + Len(l) : al[i] = IF i <= Len(a) THEN a[i] ELSE l[i - Len(a)]
  BY <1>2, <1>3, ConcatProperties
<1>5. /\ sq \in Seq(S) /\ Len(sq) = Len(s) + Len(q)
      /\ \A i \in 1..Len(s) + Len(q) : sq[i] = IF i <= Len(s) THEN s[i] ELSE q[i - Len(s)]
  BY ConcatProperties
<1> HIDE DEF al, sq
<1>6. Len(al) = Len(sq)
  BY <1>1, <1>2, <1>3, <1>4, <1>5
<1>7. ASSUME NEW i \in 1..(Len(s) + Len(q)) PROVE al[i] = sq[i]
  <2>1. i \in 1..(Len(a) + Len(l))
    BY <1>1, <1>2, <1>3
  <2>2. CASE i <= Len(s)
    BY <1>1, <1>3, <1>4, <1>5, <2>1, <2>2
  <2>3. CASE i = Len(s) + 1
    <3>1. i <= Len(a) /\ ~(i <= Len(s)) /\ i - Len(s) = 1
      BY <1>1, <1>3, <2>3
    <3> QED
      BY <1>2, <1>3, <1>4, <1>5, <2>1, <2>3, <3>1
  <2>4. CASE i > Len(s) + 1
    <3>1. /\ ~(i <= Len(a)) /\ ~(i <= Len(s)) /\ i - Len(a) \in 1..(Len(q) - 1)
          /\ (i - Len(a)) + 1 = i - Len(s)
      BY <1>1, <1>3, <2>4
    <3> QED
      BY <1>2, <1>4, <1>5, <2>1, <3>1
  <2> QED
    BY <1>1, <2>2, <2>3, <2>4
<1>8. al = sq
  BY <1>4, <1>5, <1>6, <1>7, SeqEqual
<1> QED
  BY <1>2, <1>8 DEF al, a, h, l, sq

\* A sequence of one element.
LEMMA OneRow ==
  ASSUME NEW S
  PROVE  /\ \A x \in S : <<x>> \in Seq(S) /\ Len(<<x>>) = 1 /\ <<x>>[1] = x /\ <<x>> # <<>>
         /\ \A r \in Seq(S) : Len(r) = 1 => r # <<>> /\ r[1] = Last(r) /\ r[1] \in S
<1>1. ASSUME NEW r \in Seq(S), Len(r) = 1
      PROVE  r # <<>> /\ r[1] = Last(r) /\ r[1] \in S
  <2>1. r # <<>>
    BY <1>1
  <2>2. r[1] \in S
    BY <1>1, ElementOfSeq
  <2> QED
    BY <1>1, <2>1, <2>2 DEF Last
<1> QED
  BY <1>1

\* A function on 1..n is a sequence of length n.
LEMMA FunctionIsSeq ==
  ASSUME NEW S, NEW n \in Nat, NEW f \in [1..n -> S]
  PROVE  f \in Seq(S) /\ Len(f) = n
OBVIOUS

\* The text of the tokens emitted, an EOS left out, starts with all that was
\* shown.
LEMMA ShownIsPrefix ==
  ASSUME NEW ts \in Seq(Vocab), NEW k \in 0..Len(ts), k = 0 \/ ts[k] \notin Lead \cup Eos
  PROVE  /\ TextTokens(ts) \in Seq(Vocab)
         /\ IsPrefix(Decode(SubSeq(ts, 1, k)), Decode(TextTokens(ts)))
<1>1. Len(ts) \in Nat
  BY LenProperties
<1>2. CASE ts # <<>> /\ Last(ts) \in Eos
  <2>1. /\ TextTokens(ts) = SubSeq(ts, 1, Len(ts) - 1)
        /\ Len(ts) - 1 \in 0..Len(ts)
    BY <1>2, EmptyOrLonger DEF TextTokens, Front
  <2>2. k \in 0..(Len(ts) - 1)
    BY <1>1, <1>2, <2>1 DEF Last
  <2> DEFINE c == SubSeq(ts, 1, Len(ts) - 1)
  <2>3. c \in Seq(Vocab) /\ Len(c) = Len(ts) - 1 /\ \A i \in 1..(Len(ts) - 1) : c[i] = ts[i]
    BY <2>1, CutType
  <2>4. SubSeq(c, 1, k) = SubSeq(ts, 1, k)
    BY <2>1, <2>2, CutOfCut
  <2> HIDE DEF c
  <2>5. k \in 0..Len(c) /\ (k = 0 \/ c[k] \notin Lead)
    BY <1>1, <2>2, <2>3
  <2>6. IsPrefix(Decode(SubSeq(c, 1, k)), Decode(c))
    BY <2>3, <2>5, TextGrows
  <2> QED
    BY <2>1, <2>3, <2>4, <2>6 DEF c
<1>3. CASE ~(ts # <<>> /\ Last(ts) \in Eos)
  BY <1>3, TextGrows DEF TextTokens
<1> QED
  BY <1>2, <1>3

----------------------------------------------------------------------------
\* Searching a text: cuts, places of markers, and what is held back.

\* A set of numbers has a least member.
LEMMA MinIs ==
  ASSUME NEW P \in SUBSET Nat, P # {}
  PROVE  Min(P) \in P /\ \A x \in P : Min(P) <= x
<1>1. PICK x \in P : \A y \in P : ~ (<<y, x>> \in OpToRel(<, Nat))
  BY WFMin, NatLessThanWellFounded
<1>0. \A y \in P : ~(y < x)
  BY <1>1 DEF OpToRel
<1>2. \A y \in P : x <= y
  <2> TAKE y \in P
  <2>1. x \in Nat /\ y \in Nat
    OBVIOUS
  <2> QED
    BY <1>0, <2>1
<1>3. \E z \in P : \A y \in P : z <= y
  BY <1>2
<1> QED
  BY <1>3 DEF Min

\* A bounded set of numbers has a greatest member.
LEMMA MaxIs ==
  ASSUME NEW n \in Nat, NEW P \in SUBSET (0..n), P # {}
  PROVE  Max(P) \in P /\ \A x \in P : x <= Max(P)
<1> DEFINE Q == {n - x : x \in P}
<1>1. Q \in SUBSET Nat /\ Q # {}
  <2>1. \A x \in P : x \in Nat /\ n - x \in Nat
    OBVIOUS
  <2>2. PICK x \in P : TRUE
    OBVIOUS
  <2> QED
    BY <2>1, <2>2
<1>2. Min(Q) \in Q /\ \A x \in Q : Min(Q) <= x
  BY <1>1, MinIs
<1>3. PICK z \in P : Min(Q) = n - z
  BY <1>2
<1>4. \A y \in P : z >= y
  <2> TAKE y \in P
  <2>1. n - z <= n - y
    BY <1>2, <1>3
  <2> QED
    BY <2>1
<1>5. \E v \in P : \A y \in P : v >= y
  BY <1>4
<1>6. Max(P) \in P /\ \A x \in P : Max(P) >= x
  BY <1>5 DEF Max
<1> QED
  BY <1>6

\* The first symbols of a text.
LEMMA TakeIs ==
  ASSUME NEW S, NEW t \in Seq(S), NEW n \in 0..Len(t)
  PROVE  /\ Take(t, n) \in Seq(S)
         /\ Len(Take(t, n)) = n
         /\ \A i \in 1..n : Take(t, n)[i] = t[i]
<1>1. \A i \in 1..n : t[i] \in S
  BY ElementOfSeq
<1> QED
  BY <1>1, SubSeqProperties DEF Take

\* The rest of a text.
LEMMA DropIs ==
  ASSUME NEW S, NEW t \in Seq(S), NEW n \in 0..Len(t)
  PROVE  /\ Drop(t, n) \in Seq(S)
         /\ Len(Drop(t, n)) = Len(t) - n
         /\ \A i \in 1..(Len(t) - n) : Drop(t, n)[i] = t[n + i]
<1>1. \A i \in (n + 1)..Len(t) : t[i] \in S
  BY ElementOfSeq
<1>2. n + 1 \in Int /\ Len(t) \in Int /\ n \in Nat
  OBVIOUS
<1>3. /\ SubSeq(t, n + 1, Len(t)) \in Seq(S)
      /\ Len(SubSeq(t, n + 1, Len(t))) = IF n + 1 <= Len(t) THEN Len(t) - (n + 1) + 1 ELSE 0
      /\ \A i \in 1..(Len(t) - (n + 1) + 1) : SubSeq(t, n + 1, Len(t))[i] = t[(n + 1) + i - 1]
  BY <1>1, <1>2, SubSeqProperties
<1>4. \A i \in 1..(Len(t) - n) : (n + 1) + i - 1 = n + i /\ i \in 1..(Len(t) - (n + 1) + 1)
  BY <1>2
<1> QED
  BY <1>2, <1>3, <1>4 DEF Drop

\* The two parts of a text are the text.
LEMMA TakeAndDrop ==
  ASSUME NEW S, NEW t \in Seq(S), NEW n \in 0..Len(t)
  PROVE  Take(t, n) \o Drop(t, n) = t
<1>1. Take(t, n) \in Seq(S) /\ Drop(t, n) \in Seq(S)
  BY TakeIs, DropIs
<1>2. Take(t, n) \o Drop(t, n) \in Seq(S)
  BY <1>1, ConcatProperties
<1>0. n \in Nat /\ Len(t) \in Nat /\ n <= Len(t)
  OBVIOUS
<1>3. /\ Len(Take(t, n)) = n /\ Len(Drop(t, n)) = Len(t) - n
      /\ Len(Take(t, n) \o Drop(t, n)) = Len(t)
  BY <1>0, <1>1, ConcatProperties, TakeIs, DropIs
<1>4. ASSUME NEW i \in 1..Len(t) PROVE (Take(t, n) \o Drop(t, n))[i] = t[i]
  <2>0. i \in Nat /\ i <= Len(t) /\ i \in 1..(Len(Take(t, n)) + Len(Drop(t, n)))
    BY <1>0, <1>3
  <2>1. CASE i <= n
    <3>1. (Take(t, n) \o Drop(t, n))[i] = Take(t, n)[i]
      BY <2>0, <2>1, <1>1, <1>3, ConcatProperties
    <3>2. i \in 1..n
      BY <2>0, <2>1, <1>0
    <3> QED
      BY <3>1, <3>2, TakeIs
  <2>2. CASE i > n
    <3>1. (Take(t, n) \o Drop(t, n))[i] = Drop(t, n)[i - n]
      BY <2>0, <2>2, <1>0, <1>1, <1>3, ConcatProperties
    <3>2. i - n \in 1..(Len(t) - n) /\ n + (i - n) = i
      BY <2>0, <2>2, <1>0
    <3>3. PICK k \in 1..(Len(t) - n) : k = i - n
      BY <3>2
    <3>4. Drop(t, n)[k] = t[n + k]
      BY DropIs
    <3> QED
      BY <3>1, <3>2, <3>3, <3>4
  <2> QED
    BY <2>0, <2>1, <2>2, <1>0
<1> QED
  BY <1>2, <1>3, <1>4, SeqEqual

\* A marker stands where its symbols do.
LEMMA StandsIs ==
  ASSUME NEW S, NEW t \in Seq(S), NEW m \in Seq(S), NEW i \in Nat \ {0}
  PROVE  Stands(t, m, i) <=>
           /\ i + Len(m) <= Len(t) + 1
           /\ \A k \in 1..Len(m) : t[i + k - 1] = m[k]
<1> DEFINE j == i + Len(m) - 1
<1>1. Len(m) \in Nat /\ Len(t) \in Nat /\ j \in Int
  OBVIOUS
<1>2. SUFFICES ASSUME j <= Len(t)
               PROVE  SubSeq(t, i, j) = m <=> \A k \in 1..Len(m) : t[i + k - 1] = m[k]
  BY <1>1 DEF Stands
<1>3. \A k \in i..j : t[k] \in S
  BY <1>1, <1>2, ElementOfSeq
<1>4. /\ SubSeq(t, i, j) \in Seq(S)
      /\ Len(SubSeq(t, i, j)) = IF i <= j THEN j - i + 1 ELSE 0
      /\ \A k \in 1..(j - i + 1) : SubSeq(t, i, j)[k] = t[i + k - 1]
  BY <1>1, <1>3, SubSeqProperties
<1>5. Len(SubSeq(t, i, j)) = Len(m) /\ j - i + 1 = Len(m)
  BY <1>1, <1>4
<1> HIDE DEF j
<1> QED
  BY <1>4, <1>5, SeqEqual

\* Find is the first place, or 0.
LEMMA FindIs ==
  ASSUME NEW S, NEW t \in Seq(S), NEW M \in SUBSET Seq(S)
  PROVE  /\ Find(t, M) \in 0..Len(t)
         /\ Find(t, M) = 0 => \A i \in 1..Len(t) : \A m \in M : ~Stands(t, m, i)
         /\ Find(t, M) # 0 =>
              /\ \E m \in M : Stands(t, m, Find(t, M))
              /\ \A i \in 1..(Find(t, M) - 1) : \A m \in M : ~Stands(t, m, i)
<1>1. CASE Places(t, M) = {}
  BY <1>1 DEF Find, First, Places
<1>2. CASE Places(t, M) # {}
  <2>1. Places(t, M) \in SUBSET Nat
    BY DEF Places
  <2>2. Min(Places(t, M)) \in Places(t, M) /\ \A x \in Places(t, M) : Min(Places(t, M)) <= x
    BY <1>2, <2>1, MinIs
  <2>3. Find(t, M) = Min(Places(t, M))
    BY <1>2 DEF Find, First
  <2> DEFINE f == Find(t, M)
  <2>4. f \in Places(t, M) /\ \A x \in Places(t, M) : f <= x
    BY <2>2, <2>3
  <2> HIDE DEF f
  <2>5. f \in 1..Len(t) /\ \E m \in M : Stands(t, m, f)
    BY <2>4 DEF Places
  <2>6. ASSUME NEW i \in 1..(f - 1), NEW m \in M, Stands(t, m, i) PROVE FALSE
    <3>1. i \in 1..Len(t) /\ ~(f <= i)
      BY <2>5
    <3>2. i \in Places(t, M)
      BY <3>1, <2>6 DEF Places
    <3> QED
      BY <3>1, <3>2, <2>4
  <2> QED
    BY <2>5, <2>6 DEF f
<1> QED
  BY <1>1, <1>2

\* A place with none before it is the first.
LEMMA FoundAt ==
  ASSUME NEW S, NEW t \in Seq(S), NEW M \in SUBSET Seq(S),
         NEW i \in 1..Len(t), NEW m \in M, Stands(t, m, i),
         \A j \in 1..(i - 1) : \A k \in M : ~Stands(t, k, j)
  PROVE  Find(t, M) = i
<1>1. Find(t, M) # 0 /\ Find(t, M) \in 1..Len(t)
  BY FindIs
<1>2. ~(i < Find(t, M))
  <2> SUFFICES ASSUME i < Find(t, M) PROVE FALSE
    OBVIOUS
  <2>1. i \in 1..(Find(t, M) - 1)
    BY <1>1
  <2> QED
    BY <2>1, <1>1, FindIs
<1>3. ~(Find(t, M) < i)
  <2> SUFFICES ASSUME Find(t, M) < i PROVE FALSE
    OBVIOUS
  <2>1. Find(t, M) \in 1..(i - 1)
    BY <1>1
  <2> QED
    BY <2>1, <1>1, FindIs
<1> QED
  BY <1>1, <1>2, <1>3

\* Nothing is found where nothing stands.
LEMMA NotFound ==
  ASSUME NEW S, NEW t \in Seq(S), NEW M \in SUBSET Seq(S),
         \A j \in 1..Len(t) : \A k \in M : ~Stands(t, k, j)
  PROVE  Find(t, M) = 0
<1> QED
  BY FindIs

\* The last n symbols of a text begin a marker.
Begun(t, m, n) == n < Len(m) /\ \A k \in 1..n : t[Len(t) - n + k] = m[k]

\* What is held back is the longest such ending.
LEMMA HeldIs ==
  ASSUME NEW S, NEW t \in Seq(S), NEW M \in SUBSET Seq(S)
  PROVE  /\ Held(t, M) \in 0..Len(t)
         /\ Held(t, M) # 0 => \E m \in M : Begun(t, m, Held(t, M))
         /\ \A n \in 1..Len(t) : \A m \in M : Begun(t, m, n) => n <= Held(t, M)
<1> DEFINE P == {n \in 1..Len(t) : \E m \in M : n < Len(m) /\ Suffix(t, n) = Take(m, n)}
<1>1. ASSUME NEW n \in 1..Len(t), NEW m \in M, n < Len(m)
      PROVE  Suffix(t, n) = Take(m, n) <=> \A k \in 1..n : t[Len(t) - n + k] = m[k]
  <2>1. Take(m, n) \in Seq(S) /\ Len(Take(m, n)) = n /\ \A k \in 1..n : Take(m, n)[k] = m[k]
    <3>1. n \in 0..Len(m)
      BY <1>1
    <3> QED
      BY <3>1, TakeIs
  <2>2. Suffix(t, n) \in Seq(S) /\ Len(Suffix(t, n)) = n
        /\ \A k \in 1..n : Suffix(t, n)[k] = t[Len(t) - n + k]
    <3> DEFINE a == Len(t) - n + 1
    <3>1. \A i \in a..Len(t) : t[i] \in S
      BY ElementOfSeq
    <3>2. a \in Int /\ a <= Len(t) /\ Len(t) - a + 1 = n
      OBVIOUS
    <3>3. \A k \in 1..n : a + k - 1 = Len(t) - n + k
      OBVIOUS
    <3>4. /\ SubSeq(t, a, Len(t)) \in Seq(S)
          /\ Len(SubSeq(t, a, Len(t))) = IF a <= Len(t) THEN Len(t) - a + 1 ELSE 0
          /\ \A i \in 1..(Len(t) - a + 1) : SubSeq(t, a, Len(t))[i] = t[a + i - 1]
      BY <3>1, <3>2, SubSeqProperties
    <3> HIDE DEF a
    <3>5. SubSeq(t, a, Len(t)) = Suffix(t, n)
      BY DEF a, Suffix
    <3> QED
      BY <3>2, <3>3, <3>4, <3>5
  <2> QED
    BY <2>1, <2>2, SeqEqual
<1>2. \A n \in 1..Len(t) : n \in P <=> \E m \in M : Begun(t, m, n)
  BY <1>1 DEF Begun
<1> DEFINE Q == {0} \cup P
<1>3. Q \in SUBSET (0..Len(t)) /\ Q # {} /\ Len(t) \in Nat
  OBVIOUS
<1>4. Max(Q) \in Q /\ \A x \in Q : x <= Max(Q)
  BY <1>3, MaxIs
<1>5. Held(t, M) = Max(Q)
  BY DEF Held
<1>6. Q = {0} \cup P /\ P \subseteq 1..Len(t)
  OBVIOUS
<1> HIDE DEF Q, P
<1> QED
  BY <1>2, <1>3, <1>4, <1>5, <1>6

\* Cutting a longer text.
LEMMA CutOfJoined ==
  ASSUME NEW S, NEW t \in Seq(S), NEW b \in Seq(S), NEW n \in 0..Len(t)
  PROVE  /\ t \o b \in Seq(S) /\ Len(t \o b) = Len(t) + Len(b)
         /\ n \in 0..Len(t \o b)
         /\ Take(t \o b, n) = Take(t, n)
         /\ Drop(t \o b, n) = Drop(t, n) \o b
<1>1. /\ t \o b \in Seq(S) /\ Len(t \o b) = Len(t) + Len(b)
      /\ \A i \in 1..(Len(t) + Len(b)) : (t \o b)[i] = IF i <= Len(t) THEN t[i] ELSE b[i - Len(t)]
  BY ConcatProperties
<1>2. Len(t) \in Nat /\ Len(b) \in Nat /\ n \in Nat /\ n <= Len(t) /\ n \in 0..Len(t \o b)
  BY <1>1
<1>3. Take(t \o b, n) = Take(t, n)
  <2>1. /\ Take(t \o b, n) \in Seq(S) /\ Len(Take(t \o b, n)) = n
        /\ \A i \in 1..n : Take(t \o b, n)[i] = (t \o b)[i]
    BY <1>1, <1>2, TakeIs
  <2>2. Take(t, n) \in Seq(S) /\ Len(Take(t, n)) = n /\ \A i \in 1..n : Take(t, n)[i] = t[i]
    BY TakeIs
  <2>3. \A i \in 1..n : (t \o b)[i] = t[i]
    BY <1>1, <1>2
  <2> QED
    BY <2>1, <2>2, <2>3, SeqEqual
<1>4. Drop(t \o b, n) = Drop(t, n) \o b
  <2>1. /\ Drop(t \o b, n) \in Seq(S) /\ Len(Drop(t \o b, n)) = Len(t \o b) - n
        /\ \A i \in 1..(Len(t \o b) - n) : Drop(t \o b, n)[i] = (t \o b)[n + i]
    BY <1>1, <1>2, DropIs
  <2>2. /\ Drop(t, n) \in Seq(S) /\ Len(Drop(t, n)) = Len(t) - n
        /\ \A i \in 1..(Len(t) - n) : Drop(t, n)[i] = t[n + i]
    BY DropIs
  <2>3. /\ Drop(t, n) \o b \in Seq(S) /\ Len(Drop(t, n) \o b) = Len(Drop(t, n)) + Len(b)
        /\ \A i \in 1..(Len(Drop(t, n)) + Len(b)) :
             (Drop(t, n) \o b)[i] =
               IF i <= Len(Drop(t, n)) THEN Drop(t, n)[i] ELSE b[i - Len(Drop(t, n))]
    BY <2>2, ConcatProperties
  <2>4. Len(Drop(t \o b, n)) = Len(Drop(t, n) \o b)
    BY <1>1, <1>2, <2>1, <2>2, <2>3
  <2>5. ASSUME NEW i \in 1..Len(Drop(t \o b, n))
        PROVE  Drop(t \o b, n)[i] = (Drop(t, n) \o b)[i]
    <3>1. i \in Nat /\ i >= 1 /\ i <= Len(t) + Len(b) - n
      BY <1>1, <1>2, <2>1
    <3>2. Drop(t \o b, n)[i] = (t \o b)[n + i] /\ n + i \in 1..(Len(t) + Len(b))
      BY <1>1, <1>2, <2>1, <3>1
    <3>3. CASE i <= Len(t) - n
      <4>1. (t \o b)[n + i] = t[n + i]
        BY <1>1, <1>2, <3>1, <3>2, <3>3
      <4>2. (Drop(t, n) \o b)[i] = Drop(t, n)[i] /\ Drop(t, n)[i] = t[n + i]
        BY <1>2, <2>2, <2>3, <3>1, <3>3
      <4> QED
        BY <3>2, <4>1, <4>2
    <3>4. CASE i > Len(t) - n
      <4>1. (t \o b)[n + i] = b[n + i - Len(t)]
        BY <1>1, <1>2, <3>1, <3>2, <3>4
      <4>2. (Drop(t, n) \o b)[i] = b[i - (Len(t) - n)]
        BY <1>2, <2>2, <2>3, <3>1, <3>4
      <4>3. i - (Len(t) - n) = n + i - Len(t)
        BY <1>2, <3>1
      <4> QED
        BY <3>2, <4>1, <4>2, <4>3
    <3>5. i <= Len(t) - n \/ i > Len(t) - n
      BY <1>2, <3>1
    <3> QED
      BY <3>3, <3>4, <3>5
  <2> QED
    BY <2>1, <2>3, <2>4, <2>5, SeqEqual
<1> QED
  BY <1>1, <1>2, <1>3, <1>4

\* The same, for every text and place.
StandsBy(S, m) ==
  \A u \in Seq(S), q \in Nat \ {0} :
    Stands(u, m, q) <=>
      /\ q + Len(m) <= Len(u) + 1
      /\ \A k \in 1..Len(m) : u[q + k - 1] = m[k]

LEMMA StandsEach ==
  ASSUME NEW S, NEW m \in Seq(S)
  PROVE  StandsBy(S, m)
<1> SUFFICES ASSUME NEW u \in Seq(S), NEW q \in Nat \ {0}
             PROVE  Stands(u, m, q) <=>
                      /\ q + Len(m) <= Len(u) + 1
                      /\ \A k \in 1..Len(m) : u[q + k - 1] = m[k]
  BY DEF StandsBy
<1> QED
  BY StandsIs

\* A marker that ends in the first part of a text stands there.
LEMMA StandsInConcat ==
  ASSUME NEW S, NEW t \in Seq(S), NEW b \in Seq(S), NEW m \in Seq(S), NEW i \in Nat \ {0},
         i + Len(m) <= Len(t) + 1
  PROVE  Stands(t \o b, m, i) <=> Stands(t, m, i)
<1>0. \A u \in Seq(S), q \in Nat \ {0} :
        Stands(u, m, q) <=>
          /\ q + Len(m) <= Len(u) + 1
          /\ \A k \in 1..Len(m) : u[q + k - 1] = m[k]
  <2>1. StandsBy(S, m)
    BY StandsEach
  <2> QED
    BY <2>1 DEF StandsBy
<1>1. /\ t \o b \in Seq(S) /\ Len(t \o b) = Len(t) + Len(b)
      /\ \A k \in 1..(Len(t) + Len(b)) : (t \o b)[k] = IF k <= Len(t) THEN t[k] ELSE b[k - Len(t)]
  BY ConcatProperties
<1>2. Len(t) \in Nat /\ Len(b) \in Nat /\ Len(m) \in Nat
  OBVIOUS
<1>3. \A k \in 1..Len(m) : (t \o b)[i + k - 1] = t[i + k - 1]
  <2> TAKE k \in 1..Len(m)
  <2>1. i + k - 1 \in 1..(Len(t) + Len(b)) /\ i + k - 1 <= Len(t)
    BY <1>2
  <2> QED
    BY <1>1, <2>1
<1>4. i + Len(m) <= Len(t \o b) + 1
  BY <1>1, <1>2
<1>5. Stands(t \o b, m, i) <=> \A k \in 1..Len(m) : (t \o b)[i + k - 1] = m[k]
  BY <1>1, <1>4, <1>0
<1>6. Stands(t, m, i) <=> \A k \in 1..Len(m) : t[i + k - 1] = m[k]
  BY <1>0
<1> QED
  BY <1>3, <1>5, <1>6

\* Places in the rest of a text are those in the text, moved.
LEMMA StandsInDrop ==
  ASSUME NEW S, NEW t \in Seq(S), NEW m \in Seq(S), NEW n \in 0..Len(t), NEW i \in Nat \ {0}
  PROVE  Stands(Drop(t, n), m, i) <=> Stands(t, m, n + i)
<1>0. \A u \in Seq(S), q \in Nat \ {0} :
        Stands(u, m, q) <=>
          /\ q + Len(m) <= Len(u) + 1
          /\ \A k \in 1..Len(m) : u[q + k - 1] = m[k]
  <2>1. StandsBy(S, m)
    BY StandsEach
  <2> QED
    BY <2>1 DEF StandsBy
<1>1. /\ Drop(t, n) \in Seq(S) /\ Len(Drop(t, n)) = Len(t) - n
      /\ \A k \in 1..(Len(t) - n) : Drop(t, n)[k] = t[n + k]
  BY DropIs
<1>2. Len(t) \in Nat /\ Len(m) \in Nat /\ n \in Nat /\ n + i \in Nat \ {0}
  OBVIOUS
<1>3. i + Len(m) <= Len(Drop(t, n)) + 1 <=> (n + i) + Len(m) <= Len(t) + 1
  BY <1>1, <1>2
<1>4. ASSUME i + Len(m) <= Len(Drop(t, n)) + 1
      PROVE  \A k \in 1..Len(m) : Drop(t, n)[i + k - 1] = t[(n + i) + k - 1]
  <2> TAKE k \in 1..Len(m)
  <2>1. i + k - 1 \in 1..(Len(t) - n) /\ n + (i + k - 1) = (n + i) + k - 1
    BY <1>1, <1>2, <1>4
  <2> QED
    BY <1>1, <2>1
<1>5. Stands(Drop(t, n), m, i) <=>
        /\ i + Len(m) <= Len(Drop(t, n)) + 1
        /\ \A k \in 1..Len(m) : Drop(t, n)[i + k - 1] = m[k]
  BY <1>1, <1>0
<1>6. Stands(t, m, n + i) <=>
        /\ (n + i) + Len(m) <= Len(t) + 1
        /\ \A k \in 1..Len(m) : t[(n + i) + k - 1] = m[k]
  BY <1>2, <1>0
<1> QED
  BY <1>3, <1>4, <1>5, <1>6

\* Places in the beginning of a text are those in the text that end there.
LEMMA StandsInTake ==
  ASSUME NEW S, NEW t \in Seq(S), NEW m \in Seq(S), NEW n \in 0..Len(t), NEW i \in Nat \ {0}
  PROVE  Stands(Take(t, n), m, i) <=> Stands(t, m, i) /\ i + Len(m) <= n + 1
<1>0. \A u \in Seq(S), q \in Nat \ {0} :
        Stands(u, m, q) <=>
          /\ q + Len(m) <= Len(u) + 1
          /\ \A k \in 1..Len(m) : u[q + k - 1] = m[k]
  <2>1. StandsBy(S, m)
    BY StandsEach
  <2> QED
    BY <2>1 DEF StandsBy
<1>1. Take(t, n) \in Seq(S) /\ Len(Take(t, n)) = n /\ \A k \in 1..n : Take(t, n)[k] = t[k]
  BY TakeIs
<1>2. Len(t) \in Nat /\ Len(m) \in Nat /\ n \in Nat /\ n <= Len(t)
  OBVIOUS
<1>3. i + Len(m) <= n + 1 => i + Len(m) <= Len(t) + 1
  BY <1>2
<1>4. ASSUME i + Len(m) <= n + 1
      PROVE  \A k \in 1..Len(m) : Take(t, n)[i + k - 1] = t[i + k - 1]
  <2> TAKE k \in 1..Len(m)
  <2>1. i + k - 1 \in 1..n
    BY <1>2, <1>4
  <2> QED
    BY <1>1, <2>1
<1>5. Stands(Take(t, n), m, i) <=>
        /\ i + Len(m) <= n + 1
        /\ \A k \in 1..Len(m) : Take(t, n)[i + k - 1] = m[k]
  BY <1>1, <1>0
<1>6. Stands(t, m, i) <=>
        /\ i + Len(m) <= Len(t) + 1
        /\ \A k \in 1..Len(m) : t[i + k - 1] = m[k]
  BY <1>0
<1> QED
  BY <1>3, <1>4, <1>5, <1>6

\* A marker across the end of a text is begun there.
LEMMA StandsAcross ==
  ASSUME NEW S, NEW t \in Seq(S), NEW b \in Seq(S), NEW m \in Seq(S), NEW i \in 1..Len(t),
         Stands(t \o b, m, i), i + Len(m) > Len(t) + 1
  PROVE  Begun(t, m, Len(t) - i + 1)
<1>0. \A u \in Seq(S), q \in Nat \ {0} :
        Stands(u, m, q) <=>
          /\ q + Len(m) <= Len(u) + 1
          /\ \A k \in 1..Len(m) : u[q + k - 1] = m[k]
  <2>1. StandsBy(S, m)
    BY StandsEach
  <2> QED
    BY <2>1 DEF StandsBy
<1>1. /\ t \o b \in Seq(S) /\ Len(t \o b) = Len(t) + Len(b)
      /\ \A k \in 1..(Len(t) + Len(b)) : (t \o b)[k] = IF k <= Len(t) THEN t[k] ELSE b[k - Len(t)]
  BY ConcatProperties
<1>2. Len(t) \in Nat /\ Len(b) \in Nat /\ Len(m) \in Nat /\ i \in Nat \ {0} /\ i <= Len(t)
  OBVIOUS
<1>3. \A k \in 1..Len(m) : (t \o b)[i + k - 1] = m[k]
  BY <1>1, <1>2, <1>0
<1>4. ASSUME NEW k \in 1..(Len(t) - i + 1)
      PROVE  t[Len(t) - (Len(t) - i + 1) + k] = m[k]
  <2>1. k \in 1..Len(m) /\ i + k - 1 \in 1..(Len(t) + Len(b)) /\ i + k - 1 <= Len(t)
    BY <1>2
  <2>2. Len(t) - (Len(t) - i + 1) + k = i + k - 1
    BY <1>2
  <2>3. (t \o b)[i + k - 1] = t[i + k - 1]
    BY <1>1, <2>1
  <2> QED
    BY <1>3, <2>1, <2>2, <2>3
<1>5. Len(t) - i + 1 < Len(m)
  BY <1>2
<1> QED
  BY <1>4, <1>5 DEF Begun

\* An ending longer than what was added was begun before.
LEMMA BegunBefore ==
  ASSUME NEW S, NEW t \in Seq(S), NEW b \in Seq(S), NEW m \in Seq(S),
         NEW n \in 1..(Len(t) + Len(b)), n > Len(b), Begun(t \o b, m, n)
  PROVE  n - Len(b) \in 1..Len(t) /\ Begun(t, m, n - Len(b))
<1>1. /\ t \o b \in Seq(S) /\ Len(t \o b) = Len(t) + Len(b)
      /\ \A k \in 1..(Len(t) + Len(b)) : (t \o b)[k] = IF k <= Len(t) THEN t[k] ELSE b[k - Len(t)]
  BY ConcatProperties
<1>2. Len(t) \in Nat /\ Len(b) \in Nat /\ Len(m) \in Nat /\ n \in Nat
  OBVIOUS
<1>3. n < Len(m) /\ \A k \in 1..n : (t \o b)[Len(t) + Len(b) - n + k] = m[k]
  BY <1>1 DEF Begun
<1>4. ASSUME NEW k \in 1..(n - Len(b)) PROVE t[Len(t) - (n - Len(b)) + k] = m[k]
  <2>1. k \in 1..n /\ Len(t) + Len(b) - n + k \in 1..(Len(t) + Len(b))
        /\ Len(t) + Len(b) - n + k <= Len(t)
    BY <1>2
  <2>2. Len(t) - (n - Len(b)) + k = Len(t) + Len(b) - n + k
    BY <1>2
  <2>3. (t \o b)[Len(t) + Len(b) - n + k] = t[Len(t) + Len(b) - n + k]
    BY <1>1, <2>1
  <2> QED
    BY <1>3, <2>1, <2>2, <2>3
<1>5. n - Len(b) < Len(m) /\ n - Len(b) \in 1..Len(t)
  BY <1>2, <1>3
<1> QED
  BY <1>4, <1>5 DEF Begun

\* The rest of a text ends as the text does.
LEMMA BegunInDrop ==
  ASSUME NEW S, NEW t \in Seq(S), NEW m \in Seq(S), NEW n \in 0..Len(t),
         NEW k \in 1..(Len(t) - n)
  PROVE  Begun(Drop(t, n), m, k) <=> Begun(t, m, k)
<1>1. /\ Drop(t, n) \in Seq(S) /\ Len(Drop(t, n)) = Len(t) - n
      /\ \A i \in 1..(Len(t) - n) : Drop(t, n)[i] = t[n + i]
  BY DropIs
<1>2. Len(t) \in Nat /\ n \in Nat /\ n <= Len(t) /\ k \in Nat /\ k <= Len(t) - n
  OBVIOUS
<1>3. \A i \in 1..k : Drop(t, n)[Len(Drop(t, n)) - k + i] = t[Len(t) - k + i]
  <2> TAKE i \in 1..k
  <2>1. Len(t) - n - k + i \in 1..(Len(t) - n) /\ n + (Len(t) - n - k + i) = Len(t) - k + i
    BY <1>2
  <2> QED
    BY <1>1, <2>1
<1> QED
  BY <1>3 DEF Begun

\* The texts that may be markers.
MarkerTexts(S) == {m \in Seq(S) : m # <<>>}

\* What is kept of a text in which nothing was found: its ending from there is
\* all that may still become a marker.
LEMMA FoundBehindCut ==
  ASSUME NEW S, NEW t \in Seq(S), NEW b \in Seq(S), NEW M \in SUBSET MarkerTexts(S),
         Find(t, M) = 0,
         NEW n \in 0..Len(t), n = Len(t) - Held(t, M)
  PROVE  Find(t \o b, M) =
           IF Find(Drop(t, n) \o b, M) = 0 THEN 0 ELSE n + Find(Drop(t, n) \o b, M)
<1> DEFINE u == t \o b
           v == Drop(t, n) \o b
<1>1. /\ u \in Seq(S) /\ Len(u) = Len(t) + Len(b) /\ n \in 0..Len(u) /\ v = Drop(u, n)
      /\ v \in Seq(S) /\ Len(v) = Len(u) - n
  <2>1. /\ u \in Seq(S) /\ Len(u) = Len(t) + Len(b) /\ n \in 0..Len(u) /\ v = Drop(u, n)
    BY CutOfJoined
  <2> HIDE DEF u, v
  <2> QED
    BY <2>1, DropIs
<1>2. M \in SUBSET Seq(S) /\ \A m \in M : m \in Seq(S) /\ Len(m) \in Nat \ {0}
  BY EmptySeq DEF MarkerTexts
<1>3. Len(t) \in Nat /\ Len(b) \in Nat /\ n \in Nat /\ n <= Len(t)
  OBVIOUS
<1>4. ASSUME NEW i \in 1..Len(u), NEW m \in M, Stands(u, m, i) PROVE i > n
  <2> SUFFICES ASSUME i <= n PROVE FALSE
    BY <1>3
  <2>1. i \in 1..Len(t) /\ i \in Nat \ {0}
    BY <1>3
  <2>2. CASE i + Len(m) <= Len(t) + 1
    <3>1. Stands(t, m, i)
      BY <1>2, <1>4, <2>1, <2>2, StandsInConcat
    <3> QED
      BY <1>2, <2>1, <3>1, FindIs
  <2>3. CASE i + Len(m) > Len(t) + 1
    <3>1. Begun(t, m, Len(t) - i + 1)
      BY <1>2, <1>4, <2>1, <2>3, StandsAcross
    <3>2. Len(t) - i + 1 \in 1..Len(t)
      BY <1>3, <2>1
    <3>3. /\ Held(t, M) \in 0..Len(t)
          /\ \A k \in 1..Len(t) : \A l \in M : Begun(t, l, k) => k <= Held(t, M)
      BY <1>2, HeldIs
    <3>4. Len(t) - i + 1 <= Held(t, M)
      BY <3>1, <3>2, <3>3
    <3> QED
      BY <1>3, <2>1, <3>3, <3>4
  <2> QED
    BY <1>2, <1>3, <2>1, <2>2, <2>3
<1>5. \A i \in Nat \ {0} : \A m \in M : Stands(v, m, i) <=> Stands(u, m, n + i)
  BY <1>1, <1>2, StandsInDrop
<1> HIDE DEF u, v
<1>6. CASE Find(v, M) = 0
  <2>1. ASSUME NEW i \in 1..Len(u), NEW m \in M, Stands(u, m, i) PROVE FALSE
    <3>1. i > n
      BY <1>4, <2>1
    <3>2. i - n \in 1..Len(v) /\ n + (i - n) = i /\ i - n \in Nat \ {0}
      BY <1>1, <1>3, <3>1
    <3>3. Stands(v, m, i - n)
      BY <1>5, <2>1, <3>2
    <3> QED
      BY <1>1, <1>2, <1>6, <3>2, <3>3, FindIs
  <2>2. Find(u, M) = 0
    BY <1>1, <1>2, <2>1, NotFound
  <2> QED
    BY <1>6, <2>2 DEF u, v
<1>7. CASE Find(v, M) # 0
  <2> DEFINE f == Find(v, M)
  <2>1. /\ f \in 1..Len(v)
        /\ \E m \in M : Stands(v, m, f)
        /\ \A i \in 1..(f - 1) : \A m \in M : ~Stands(v, m, i)
    BY <1>1, <1>2, <1>7, FindIs
  <2> HIDE DEF f
  <2>2. PICK m \in M : Stands(v, m, f)
    BY <2>1
  <2>3. n + f \in 1..Len(u) /\ f \in Nat \ {0} /\ Stands(u, m, n + f)
    <3>1. f \in Nat \ {0} /\ n + f \in 1..Len(u)
      BY <1>1, <1>3, <2>1
    <3> QED
      BY <1>5, <2>2, <3>1
  <2>4. ASSUME NEW i \in 1..(n + f - 1), NEW k \in M, Stands(u, k, i) PROVE FALSE
    <3>1. i \in 1..Len(u) /\ i > n
      BY <1>4, <2>3, <2>4, <1>3
    <3>2. i - n \in 1..(f - 1) /\ n + (i - n) = i /\ i - n \in Nat \ {0}
      BY <1>3, <2>3, <3>1
    <3>3. Stands(v, k, i - n)
      BY <1>5, <2>4, <3>2
    <3> QED
      BY <2>1, <3>2, <3>3
  <2>5. \A i \in 1..(n + f - 1) : \A k \in M : ~Stands(u, k, i)
    BY <2>4
  <2>6. Find(u, M) = n + f
    BY <1>1, <1>2, <2>2, <2>3, <2>5, FoundAt, SMTT(30)
  <2> QED
    BY <1>7, <2>6 DEF f, u, v
<1> QED
  BY <1>6, <1>7

\* What is held of the longer text is held of the shorter one.
LEMMA HeldBehindCut ==
  ASSUME NEW S, NEW t \in Seq(S), NEW b \in Seq(S), NEW M \in SUBSET MarkerTexts(S),
         NEW n \in 0..Len(t), n = Len(t) - Held(t, M)
  PROVE  Held(t \o b, M) = Held(Drop(t, n) \o b, M)
<1> DEFINE u == t \o b
           v == Drop(t, n) \o b
           h == Held(u, M)
           g == Held(v, M)
<1>1. /\ u \in Seq(S) /\ Len(u) = Len(t) + Len(b) /\ n \in 0..Len(u) /\ v = Drop(u, n)
      /\ v \in Seq(S) /\ Len(v) = Len(u) - n
  <2>1. /\ u \in Seq(S) /\ Len(u) = Len(t) + Len(b) /\ n \in 0..Len(u) /\ v = Drop(u, n)
    BY CutOfJoined
  <2> HIDE DEF u, v
  <2> QED
    BY <2>1, DropIs
<1>2. M \in SUBSET Seq(S) /\ \A m \in M : m \in Seq(S)
  BY DEF MarkerTexts
<1>3. /\ Len(t) \in Nat /\ Len(b) \in Nat /\ n \in Nat /\ n <= Len(t)
      /\ Held(t, M) \in 0..Len(t)
      /\ \A k \in 1..Len(t) : \A m \in M : Begun(t, m, k) => k <= Held(t, M)
  BY <1>2, HeldIs
<1>4. \A k \in 1..(Len(u) - n) : \A m \in M : Begun(v, m, k) <=> Begun(u, m, k)
  <2>1. \A w \in Seq(S) : \A q \in 0..Len(w) : \A k \in 1..(Len(w) - q) : \A m \in Seq(S) :
          Begun(Drop(w, q), m, k) <=> Begun(w, m, k)
    BY BegunInDrop
  <2> HIDE DEF u, v
  <2> QED
    BY <1>1, <1>2, <2>1
<1>5. /\ h \in 0..Len(u)
      /\ h # 0 => \E m \in M : Begun(u, m, h)
      /\ \A k \in 1..Len(u) : \A m \in M : Begun(u, m, k) => k <= h
  BY <1>1, <1>2, HeldIs
<1>6. /\ g \in 0..Len(v)
      /\ g # 0 => \E m \in M : Begun(v, m, g)
      /\ \A k \in 1..Len(v) : \A m \in M : Begun(v, m, k) => k <= g
  BY <1>1, <1>2, HeldIs
<1> HIDE DEF h, g
<1>7. h <= Len(v)
  <2> SUFFICES ASSUME h > Len(v) PROVE FALSE
    BY <1>1, <1>5, <1>3
  <2>1. h \in 1..(Len(t) + Len(b)) /\ h > Len(b) /\ h - Len(b) > Held(t, M)
    BY <1>1, <1>3, <1>5
  <2>2. PICK m \in M : Begun(u, m, h)
    BY <1>5, <2>1
  <2>3. h - Len(b) \in 1..Len(t) /\ Begun(t, m, h - Len(b))
    BY <1>2, <2>1, <2>2, BegunBefore
  <2>4. h - Len(b) <= Held(t, M)
    BY <1>3, <2>3
  <2> QED
    BY <1>3, <2>1, <2>4
<1>8. h <= g
  <2>1. CASE h = 0
    BY <1>6, <2>1, <1>1
  <2>2. CASE h # 0
    <3>1. PICK m \in M : Begun(u, m, h)
      BY <1>5, <2>2
    <3>2. h \in 1..Len(v) /\ h \in 1..(Len(u) - n)
      BY <1>1, <1>3, <1>5, <1>7, <2>2
    <3> QED
      BY <1>4, <1>6, <3>1, <3>2
  <2> QED
    BY <2>1, <2>2
<1>9. g <= h
  <2>1. CASE g = 0
    BY <1>5, <2>1, <1>1
  <2>2. CASE g # 0
    <3>1. PICK m \in M : Begun(v, m, g)
      BY <1>6, <2>2
    <3>2. g \in 1..Len(u) /\ g \in 1..(Len(u) - n)
      BY <1>1, <1>3, <1>6, <2>2
    <3> QED
      BY <1>4, <1>5, <3>1, <3>2
  <2> QED
    BY <2>1, <2>2
<1>10. h \in Nat /\ g \in Nat
  BY <1>1, <1>5, <1>6
<1> QED
  BY <1>8, <1>9, <1>10 DEF h, g

\* A text of which all is held back.
Settled(t, M) == Find(t, M) = 0 /\ Held(t, M) = Len(t)

\* What is held back of a text in which nothing was found is settled.
LEMMA HeldIsSettled ==
  ASSUME NEW S, NEW t \in Seq(S), NEW M \in SUBSET MarkerTexts(S), Find(t, M) = 0,
         NEW n \in 0..Len(t), n = Len(t) - Held(t, M)
  PROVE  Settled(Drop(t, n), M)
<1>0. Drop(t, n) \in Seq(S) /\ Len(Drop(t, n)) = Len(t) - n
  BY DropIs
<1>1. <<>> \in Seq(S) /\ t \o <<>> = t /\ Drop(t, n) \in Seq(S) /\ Len(Drop(t, n)) = Len(t) - n
  <2>1. <<>> \in Seq(S) /\ t \o <<>> = t
    BY EmptySeq, ConcatEmptySeq
  <2> QED
    BY <1>0, <2>1
<1>2. Drop(t, n) \o <<>> = Drop(t, n)
  BY <1>1, ConcatEmptySeq
<1>3. Held(t, M) \in 0..Len(t)
  <2>1. M \in SUBSET Seq(S)
    BY DEF MarkerTexts
  <2> QED
    BY <2>1, HeldIs
<1>4. Held(t \o <<>>, M) = Held(Drop(t, n) \o <<>>, M)
  <2>1. \A c \in Seq(S) : Held(t \o c, M) = Held(Drop(t, n) \o c, M)
    BY HeldBehindCut
  <2> QED
    BY <1>1, <2>1
<1>5. Find(t \o <<>>, M) =
        IF Find(Drop(t, n) \o <<>>, M) = 0 THEN 0 ELSE n + Find(Drop(t, n) \o <<>>, M)
  <2>1. \A c \in Seq(S) :
          Find(t \o c, M) =
            IF Find(Drop(t, n) \o c, M) = 0 THEN 0 ELSE n + Find(Drop(t, n) \o c, M)
    BY FoundBehindCut
  <2> QED
    BY <1>1, <2>1
<1>6. Find(Drop(t, n), M) \in Nat
  <2>1. M \in SUBSET Seq(S)
    BY DEF MarkerTexts
  <2>2. Find(Drop(t, n), M) \in 0..Len(Drop(t, n))
    BY <1>1, <2>1, FindIs
  <2> QED
    BY <1>1, <2>2
<1>7. Find(Drop(t, n), M) = 0
  BY <1>1, <1>2, <1>5, <1>6
<1>8. Held(Drop(t, n), M) = Held(t, M)
  BY <1>1, <1>2, <1>4
<1> QED
  BY <1>1, <1>3, <1>7, <1>8 DEF Settled

\* What was found stays, or an earlier place is found across the end; with
\* markers apart it stays the first.
LEMMA FoundStays ==
  ASSUME NEW S, NEW t \in Seq(S), NEW b \in Seq(S), NEW M \in SUBSET MarkerTexts(S),
         Find(t, M) # 0
  PROVE  /\ Find(t \o b, M) \in 1..Find(t, M)
         /\ Apart(M) => Find(t \o b, M) = Find(t, M)
<1> DEFINE u == t \o b
           f == Find(t, M)
           e == Find(u, M)
<1>1. u \in Seq(S) /\ Len(u) = Len(t) + Len(b)
  BY ConcatProperties
<1>2. M \in SUBSET Seq(S) /\ \A m \in M : m \in Seq(S) /\ Len(m) \in Nat \ {0}
  BY EmptySeq DEF MarkerTexts
<1>3. /\ f \in 1..Len(t)
      /\ \E m \in M : Stands(t, m, f)
      /\ \A i \in 1..(f - 1) : \A m \in M : ~Stands(t, m, i)
  BY <1>2, FindIs
<1>4. /\ e \in 0..Len(u)
      /\ e = 0 => \A i \in 1..Len(u) : \A m \in M : ~Stands(u, m, i)
      /\ e # 0 =>
           /\ \E m \in M : Stands(u, m, e)
           /\ \A i \in 1..(e - 1) : \A m \in M : ~Stands(u, m, i)
  BY <1>1, <1>2, FindIs
<1> HIDE DEF f, e
<1>5. Len(t) \in Nat /\ Len(b) \in Nat /\ f \in Nat \ {0} /\ e \in Nat /\ f <= Len(t)
  BY <1>1, <1>3, <1>4
<1>6. PICK m \in M : Stands(t, m, f)
  BY <1>3
<1>7. f + Len(m) <= Len(t) + 1 /\ (\A k \in 1..Len(m) : t[f + k - 1] = m[k])
      /\ Stands(u, m, f)
  <2>1. f + Len(m) <= Len(t) + 1 /\ \A k \in 1..Len(m) : t[f + k - 1] = m[k]
    BY <1>2, <1>5, <1>6, StandsIs
  <2>2. Stands(u, m, f)
    BY <1>2, <1>5, <1>6, <2>1, StandsInConcat
  <2> QED
    BY <2>1, <2>2
<1>8. e # 0 /\ e <= f
  <2>1. f \in 1..Len(u)
    BY <1>1, <1>5
  <2>2. e # 0
    BY <1>4, <1>7, <2>1
  <2>3. ~(f < e)
    <3> SUFFICES ASSUME f < e PROVE FALSE
      OBVIOUS
    <3>1. f \in 1..(e - 1)
      BY <1>5
    <3> QED
      BY <1>4, <1>7, <2>2, <3>1
  <2> QED
    BY <1>5, <2>2, <2>3
<1>9. ASSUME Apart(M), e < f PROVE FALSE
  <2>1. PICK k \in M : Stands(u, k, e)
    BY <1>4, <1>8
  <2>2. e \in 1..(f - 1) /\ e \in 1..Len(t) /\ e \in Nat \ {0}
    BY <1>5, <1>8, <1>9
  <2>3. ~(e + Len(k) <= Len(t) + 1)
    <3> SUFFICES ASSUME e + Len(k) <= Len(t) + 1 PROVE FALSE
      OBVIOUS
    <3>1. Stands(t, k, e)
      BY <1>2, <2>1, <2>2, StandsInConcat
    <3> QED
      BY <1>3, <2>2, <3>1
  <2>4. \A i \in 1..Len(k) : u[e + i - 1] = k[i]
    <3>1. \A w \in Seq(S) : \A x \in Seq(S) : \A y \in Nat \ {0} :
            Stands(w, x, y) => \A i \in 1..Len(x) : w[y + i - 1] = x[i]
      BY StandsIs
    <3> HIDE DEF u
    <3> QED
      BY <1>1, <1>2, <2>1, <2>2, <3>1
  <2> DEFINE q == f - e + 1
  <2>5. q \in 2..Len(k) /\ q + Len(m) <= Len(k) + 1 /\ q \in Nat \ {0}
    BY <1>2, <1>5, <1>7, <1>9, <2>2, <2>3
  <2>6. ASSUME NEW i \in 1..Len(m) PROVE k[q + i - 1] = m[i]
    <3>1. q + i - 1 \in 1..Len(k) /\ e + (q + i - 1) - 1 = f + i - 1
          /\ f + i - 1 \in 1..Len(t)
      BY <1>2, <1>5, <1>7, <2>2, <2>5
    <3>2. u[f + i - 1] = k[q + i - 1]
      BY <2>4, <3>1
    <3>3. u[f + i - 1] = t[f + i - 1]
      <4>1. \A x \in 1..(Len(t) + Len(b)) : u[x] = IF x <= Len(t) THEN t[x] ELSE b[x - Len(t)]
        BY ConcatProperties
      <4> QED
        BY <1>5, <3>1, <4>1
    <3> QED
      BY <1>7, <3>2, <3>3
  <2>7. Stands(k, m, q)
    <3> HIDE DEF q
    <3> QED
      BY <1>2, <2>5, <2>6, StandsIs
  <2> QED
    BY <1>9, <2>5, <2>7 DEF Apart
<1> QED
  BY <1>5, <1>8, <1>9 DEF f, e

\* A marker alone is apart from itself.
LEMMA OneIsApart ==
  ASSUME NEW S, NEW m \in MarkerTexts(S)
  PROVE  Apart({m})
<1> SUFFICES ASSUME NEW i \in 2..Len(m), Stands(m, m, i) PROVE FALSE
  BY DEF Apart
<1>1. m \in Seq(S) /\ Len(m) \in Nat
  BY DEF MarkerTexts
<1>2. i \in Nat \ {0} /\ i >= 2
  BY <1>1
<1>3. i + Len(m) <= Len(m) + 1
  BY <1>1, <1>2, StandsIs
<1> QED
  BY <1>1, <1>2, <1>3

\* Cutting in two steps.
LEMMA CutFurther ==
  ASSUME NEW S, NEW t \in Seq(S), NEW n \in 0..Len(t), NEW k \in 0..(Len(t) - n)
  PROVE  /\ n + k \in 0..Len(t)
         /\ Take(t, n) \o Take(Drop(t, n), k) = Take(t, n + k)
         /\ Drop(Drop(t, n), k) = Drop(t, n + k)
<1>1. Len(t) \in Nat /\ n \in Nat /\ k \in Nat /\ n + k \in 0..Len(t)
  OBVIOUS
<1>2. /\ Drop(t, n) \in Seq(S) /\ Len(Drop(t, n)) = Len(t) - n
      /\ \A i \in 1..(Len(t) - n) : Drop(t, n)[i] = t[n + i]
  BY DropIs
<1>3. Take(t, n) \in Seq(S) /\ Len(Take(t, n)) = n /\ \A i \in 1..n : Take(t, n)[i] = t[i]
  BY TakeIs
<1>4. /\ Take(t, n + k) \in Seq(S) /\ Len(Take(t, n + k)) = n + k
      /\ \A i \in 1..(n + k) : Take(t, n + k)[i] = t[i]
  BY <1>1, TakeIs
<1>5. /\ Drop(t, n + k) \in Seq(S) /\ Len(Drop(t, n + k)) = Len(t) - (n + k)
      /\ \A i \in 1..(Len(t) - (n + k)) : Drop(t, n + k)[i] = t[(n + k) + i]
  BY <1>1, DropIs
<1> DEFINE d == Drop(t, n)
<1>6. k \in 0..Len(d)
  BY <1>1, <1>2
<1>7. /\ Take(d, k) \in Seq(S) /\ Len(Take(d, k)) = k
      /\ \A i \in 1..k : Take(d, k)[i] = d[i]
      /\ Drop(d, k) \in Seq(S) /\ Len(Drop(d, k)) = Len(d) - k
      /\ \A i \in 1..(Len(d) - k) : Drop(d, k)[i] = d[k + i]
  <2> HIDE DEF d
  <2>1. d \in Seq(S)
    BY <1>2 DEF d
  <2> QED
    BY <1>6, <2>1, TakeIs, DropIs
<1>8. Take(t, n) \o Take(d, k) = Take(t, n + k)
  <2> DEFINE x == Take(t, n)
             y == Take(d, k)
             z == Take(t, n + k)
  <2>1. /\ x \in Seq(S) /\ Len(x) = n /\ \A i \in 1..n : x[i] = t[i]
        /\ y \in Seq(S) /\ Len(y) = k /\ \A i \in 1..k : y[i] = d[i]
        /\ z \in Seq(S) /\ Len(z) = n + k /\ \A i \in 1..(n + k) : z[i] = t[i]
        /\ \A i \in 1..(Len(t) - n) : d[i] = t[n + i]
    BY <1>2, <1>3, <1>4, <1>7
  <2> HIDE DEF x, y, z, d
  <2>2. /\ x \o y \in Seq(S) /\ Len(x \o y) = Len(x) + Len(y)
        /\ \A i \in 1..(Len(x) + Len(y)) :
             (x \o y)[i] = IF i <= Len(x) THEN x[i] ELSE y[i - Len(x)]
    BY <2>1, ConcatProperties
  <2>3. ASSUME NEW i \in 1..(n + k) PROVE (x \o y)[i] = z[i]
    <3>1. i \in Nat /\ i >= 1 /\ i <= n + k
      BY <1>1
    <3>2. CASE i <= n
      <4>1. (x \o y)[i] = x[i] /\ i \in 1..n
        BY <1>1, <2>1, <2>2, <3>1, <3>2
      <4> QED
        BY <2>1, <4>1
    <3>3. CASE i > n
      <4>1. i - n \in 1..k /\ i - n \in 1..(Len(t) - n) /\ n + (i - n) = i
        BY <1>1, <3>1, <3>3
      <4>2. (x \o y)[i] = y[i - n]
        BY <1>1, <2>1, <2>2, <3>1, <3>3
      <4>3. y[i - n] = d[i - n] /\ d[i - n] = t[i]
        BY <2>1, <4>1
      <4> QED
        BY <2>1, <4>2, <4>3
    <3>4. i <= n \/ i > n
      BY <1>1, <3>1
    <3> QED
      BY <3>2, <3>3, <3>4
  <2>4. Len(x \o y) = Len(z) /\ Len(z) = n + k
    BY <2>1, <2>2
  <2>5. x \o y = z
    BY <2>1, <2>2, <2>3, <2>4, SeqEqual
  <2> QED
    BY <2>5 DEF x, y, z
<1>9. Drop(d, k) = Drop(t, n + k)
  <2>1. Len(Drop(d, k)) = Len(Drop(t, n + k))
    BY <1>1, <1>2, <1>5, <1>7
  <2>2. ASSUME NEW i \in 1..Len(Drop(d, k)) PROVE Drop(d, k)[i] = Drop(t, n + k)[i]
    <3>1. /\ i \in 1..(Len(d) - k) /\ k + i \in 1..(Len(t) - n)
          /\ i \in 1..(Len(t) - (n + k)) /\ n + (k + i) = (n + k) + i
      BY <1>1, <1>2, <1>7
    <3> QED
      BY <1>2, <1>5, <1>7, <3>1
  <2> QED
    BY <1>5, <1>7, <2>1, <2>2, SeqEqual
<1> QED
  BY <1>1, <1>8, <1>9

\* No marker stands before the first one.
LEMMA NothingBefore ==
  ASSUME NEW S, NEW t \in Seq(S), NEW M \in SUBSET MarkerTexts(S), NEW n \in 0..Len(t),
         Find(t, M) = 0 \/ n < Find(t, M)
  PROVE  ~HasAny(Take(t, n), M)
<1>1. M \in SUBSET Seq(S)
  BY DEF MarkerTexts
<1>2. Len(Take(t, n)) = n /\ n \in Nat /\ Len(t) \in Nat /\ n <= Len(t)
  BY TakeIs
<1>3. ASSUME NEW i \in 1..n, NEW m \in M, Stands(Take(t, n), m, i) PROVE FALSE
  <2>1. Stands(t, m, i)
    BY <1>1, <1>2, <1>3, StandsInTake
  <2>2. i \in 1..Len(t) /\ Find(t, M) \in Nat
    <3>1. Find(t, M) \in 0..Len(t)
      BY <1>1, FindIs
    <3> QED
      BY <1>2, <3>1
  <2>3. CASE Find(t, M) = 0
    BY <1>1, <2>1, <2>2, <2>3, FindIs
  <2>4. CASE Find(t, M) # 0
    <3>1. i \in 1..(Find(t, M) - 1)
      BY <1>2, <2>2, <2>4
    <3> QED
      BY <1>1, <2>1, <2>4, <3>1, FindIs
  <2> QED
    BY <2>3, <2>4
<1> QED
  BY <1>2, <1>3 DEF HasAny, Places
=============================================================================
