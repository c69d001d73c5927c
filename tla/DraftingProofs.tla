--------------------------- MODULE DraftingProofs ---------------------------
(***************************************************************************)
(* Proofs about drafting: the slots of the drafter, for every set of       *)
(* inputs and every context, and the law of what a round of sampling       *)
(* emits, for every vocabulary and all rows, options and settings.         *)
(*                                                                         *)
(* The drafter's inductive invariant is TypeOK /\ VisibleSlots: with every *)
(* visible slot explained, the slots below position are a log of inputs,   *)
(* and each action is an action of DrafterLog on that log.                 *)
(*                                                                         *)
(* That of a round is LawInv.  The way to it goes from the sum of a        *)
(* function over a set (the community modules define it by recursion over  *)
(* an arbitrary choice of elements) to the ranking of a row, to the cut    *)
(* that top_k and top_p make in it, to the law of LawOf; from there to     *)
(* the accept-or-correct identity, the penalties and the two samplers.     *)
(***************************************************************************)
EXTENDS Mtp, SpeculativeLaw, FiniteSetTheorems, SequenceTheorems, WellFoundedInduction, TLAPS

----------------------------------------------------------------------------
\* The drafter.

Inv == TypeOK /\ VisibleSlots

\* A sequence is the function of its elements.
LEMMA SequenceAsFunction ==
  ASSUME NEW S, NEW s \in Seq(S)
  PROVE  s = [i \in 1..Len(s) |-> s[i]]
<1>1. s \in [1..Len(s) -> S]
  OBVIOUS
<1> QED
  BY <1>1, Zenon

\* An append writes the slot at position and leaves the visible ones alone.
LEMMA KvAppendSlots ==
  ASSUME TypeOK, NEW x \in Inputs, position < Context
  PROVE  /\ KvAppend(x) \in [KvSlots -> Contents]
         /\ KvAppend(x)[position] = Rotated(x, position)
         /\ \A i \in KvSlots : i # position => KvAppend(x)[i] = kvcache[i]
  BY MtpAssumption DEF TypeOK, KvAppend, KvSlots, Contents, Rotated

\* The inputs of the visible slots form a sequence as long as position.
LEMMA CacheIsSequence ==
  ASSUME Inv
  PROVE  /\ cache \in Seq(Inputs)
         /\ Len(cache) = position
         /\ \A i \in 1..position : cache[i] = kvcache[i - 1].input
<1>1. position \in Nat
  BY MtpAssumption DEF Inv, TypeOK
<1>2. \A i \in 1..position : kvcache[i - 1].input \in Inputs
  BY <1>1 DEF Inv, VisibleSlots
<1>3. cache \in [1..position -> Inputs]
  BY <1>2 DEF cache
<1> QED
  BY <1>1, <1>3 DEF cache

\* The loaded drafter satisfies the invariant.
LEMMA InitInv == Init => Inv
<1> SUFFICES ASSUME Init PROVE Inv
  OBVIOUS
<1>1. TypeOK
  BY MtpAssumption DEF Init, TypeOK, Contents, Garbage, Rotated
<1>2. VisibleSlots
  BY DEF Init, VisibleSlots
<1> QED
  BY <1>1, <1>2 DEF Inv

\* An append makes one more slot visible, and it has just been written.
LEMMA AppendVisible ==
  ASSUME Inv, NEW x \in Inputs, position < Context,
         kvcache' = KvAppend(x), position' = position + 1
  PROVE  /\ position' \in 0..Context
         /\ kvcache' \in [KvSlots -> Contents]
         /\ VisibleSlots'
         /\ \A i \in 0..(position - 1) : kvcache'[i] = kvcache[i]
         /\ kvcache'[position] = Rotated(x, position)
<1>1. position \in 0..Context
  BY DEF Inv, TypeOK
<1>2. /\ KvAppend(x) \in [KvSlots -> Contents]
      /\ KvAppend(x)[position] = Rotated(x, position)
      /\ \A i \in KvSlots : i # position => KvAppend(x)[i] = kvcache[i]
  BY KvAppendSlots DEF Inv
<1>3. \A i \in 0..(position - 1) : kvcache'[i] = kvcache[i]
  BY <1>1, <1>2, MtpAssumption DEF KvSlots
<1>4. VisibleSlots'
  <2> SUFFICES ASSUME NEW i \in 0..(position' - 1)
               PROVE  kvcache'[i].input \in Inputs /\ kvcache'[i].at = i
    BY DEF VisibleSlots
  <2>1. CASE i = position
    BY <2>1, <1>2 DEF Rotated
  <2>2. CASE i # position
    <3>1. i \in 0..(position - 1)
      BY <2>2, <1>1, MtpAssumption
    <3> QED
      BY <3>1, <1>3 DEF Inv, VisibleSlots
  <2> QED
    BY <2>1, <2>2
<1> QED
  BY <1>1, <1>2, <1>3, <1>4, MtpAssumption

\* What attention returns after an append: the log with the new input.
LEMMA AttendsToLog ==
  ASSUME Inv, NEW x \in Inputs, position < Context,
         kvcache' = KvAppend(x), position' = position + 1
  PROVE  Attend(kvcache', Length) = Append(cache, x) /\ cache' = Append(cache, x)
<1>1. position \in Nat
  BY MtpAssumption DEF Inv, TypeOK
<1>2. /\ cache \in Seq(Inputs)
      /\ Len(cache) = position
      /\ \A i \in 1..position : cache[i] = kvcache[i - 1].input
  BY CacheIsSequence
<1>3. /\ \A i \in 0..(position - 1) : kvcache'[i] = kvcache[i]
      /\ kvcache'[position] = Rotated(x, position)
  BY AppendVisible
<1>4. \A i \in 1..(position + 1) :
        /\ kvcache'[i - 1].at = i - 1
        /\ kvcache'[i - 1].input = Append(cache, x)[i]
  <2> SUFFICES ASSUME NEW i \in 1..(position + 1)
               PROVE  /\ kvcache'[i - 1].at = i - 1
                      /\ kvcache'[i - 1].input = Append(cache, x)[i]
    OBVIOUS
  <2>1. CASE i = position + 1
    BY <2>1, <1>1, <1>2, <1>3 DEF Rotated
  <2>2. CASE i # position + 1
    <3>1. i \in 1..position /\ i - 1 \in 0..(position - 1)
      BY <2>2, <1>1
    <3>2. kvcache'[i - 1].at = i - 1
      BY <3>1, <1>3 DEF Inv, VisibleSlots
    <3>3. kvcache'[i - 1].input = cache[i]
      BY <3>1, <1>2, <1>3
    <3>4. Append(cache, x)[i] = cache[i]
      BY <3>1, <1>2
    <3> QED
      BY <3>2, <3>3, <3>4
  <2> QED
    BY <2>1, <2>2
<1>5. /\ Append(cache, x) \in Seq(Inputs)
      /\ Len(Append(cache, x)) = position + 1
  BY <1>2
<1>6. Append(cache, x) = [i \in 1..(position + 1) |-> Append(cache, x)[i]]
  BY <1>5, SequenceAsFunction
<1>7. Attend(kvcache', Length) = [i \in 1..(position + 1) |-> Append(cache, x)[i]]
  BY <1>4 DEF Attend, Length
<1>8. cache' = [i \in 1..(position + 1) |-> Append(cache, x)[i]]
  BY <1>4 DEF cache
<1> QED
  BY <1>6, <1>7, <1>8

\* Every call preserves the invariant, refused and failed ones included.
LEMMA NextInv == Inv /\ [Next]_vars => Inv'
<1> SUFFICES ASSUME Inv, [Next]_vars PROVE Inv'
  OBVIOUS
<1>t. position \in 0..Context /\ kvcache \in [KvSlots -> Contents]
  BY DEF Inv, TypeOK
<1>1. ASSUME NEW x \in Inputs, PrefillToken(x) PROVE Inv'
  <2>1. /\ position < Context
        /\ kvcache' = KvAppend(x)
        /\ position' = position + 1
        /\ output' = <<>>
    BY <1>1 DEF PrefillToken, Valid
  <2>2. position' \in 0..Context /\ kvcache' \in [KvSlots -> Contents] /\ VisibleSlots'
    BY <2>1, AppendVisible
  <2> QED
    BY <2>1, <2>2 DEF Inv, TypeOK
<1>2. ASSUME NEW x \in Inputs, Forward(x) PROVE Inv'
  <2>1. /\ position < Context
        /\ kvcache' = KvAppend(x)
        /\ position' = position + 1
        /\ output' = Attend(kvcache', Length)
    BY <1>2 DEF Forward, Valid
  <2>2. position' \in 0..Context /\ kvcache' \in [KvSlots -> Contents] /\ VisibleSlots'
    BY <2>1, AppendVisible
  <2>3. output' = Append(cache, x)
    BY <2>1, AttendsToLog
  <2>4. output' \in Seq(Inputs \cup {Invalid})
    <3>1. cache \in Seq(Inputs)
      BY CacheIsSequence
    <3> QED
      BY <3>1, <2>3
  <2> QED
    BY <2>2, <2>4 DEF Inv, TypeOK
<1>3. ASSUME NEW x \in Inputs, FailedEvaluate(x) PROVE Inv'
  <2>1. PICK slot \in {kvcache[position], Rotated(x, position), Garbage} :
          kvcache' = [kvcache EXCEPT ![position] = slot]
    BY <1>3 DEF FailedEvaluate
  <2>2. position < Context /\ position \in KvSlots
    BY <1>3, <1>t, MtpAssumption DEF FailedEvaluate, Valid, KvSlots
  <2>3. slot \in Contents
    BY <2>1, <2>2, <1>t, MtpAssumption DEF Contents, Garbage, Rotated
  <2>4. kvcache' \in [KvSlots -> Contents]
    BY <2>1, <2>2, <2>3, <1>t
  <2>5. position' = 0 /\ output' = <<>>
    BY <1>3 DEF FailedEvaluate
  <2>6. VisibleSlots'
    BY <2>5 DEF VisibleSlots
  <2> QED
    BY <2>4, <2>5, <2>6, MtpAssumption DEF Inv, TypeOK
<1>4. ASSUME NEW n \in 0..Context, Truncate(n) PROVE Inv'
  BY <1>4, <1>t, MtpAssumption DEF Truncate, Inv, TypeOK, VisibleSlots
<1>5. CASE Reset
  BY <1>5, <1>t, MtpAssumption DEF Reset, Inv, TypeOK, VisibleSlots
<1>6. CASE Refused
  BY <1>6, <1>t DEF Refused, Inv, TypeOK, VisibleSlots
<1>7. CASE UNCHANGED vars
  BY <1>7 DEF vars, Inv, TypeOK, VisibleSlots
<1> QED
  BY <1>1, <1>2, <1>3, <1>4, <1>5, <1>6, <1>7 DEF Next

\* The invariant holds in every reachable state.
LEMMA InvHolds == Spec => []Inv
  BY InitInv, NextInv, PTL DEF Spec

\* The drafter's state always has its type (engine/mtp.rs: position never
\* leaves the slots that were allocated).
THEOREM TypeCorrect == Spec => []TypeOK
<1>1. Inv => TypeOK
  BY DEF Inv
<1> QED
  BY <1>1, InvHolds, PTL

\* No slot a query can read is stale: truncate, reset and a failed evaluate
\* hide what they leave behind, and an append overwrites before it shows.
THEOREM SlotsCorrect == Spec => []VisibleSlots
<1>1. Inv => VisibleSlots
  BY DEF Inv
<1> QED
  BY <1>1, InvHolds, PTL

\* The initial state is an empty log.
LEMMA InitRefines == Init => Log!Init
  BY DEF Init, Log!Init, cache

\* The log of a state whose position is 0 is empty.
LEMMA EmptyLog == position' = 0 => cache' = <<>>
  BY DEF cache

\* Every step of the drafter is a step of the log or leaves it alone.
LEMMA NextRefines == Inv /\ [Next]_vars => [Log!Next]_(Log!logVars)
<1> SUFFICES ASSUME Inv, [Next]_vars PROVE [Log!Next]_(Log!logVars)
  OBVIOUS
<1>t. position \in Nat /\ position \in 0..Context
  BY MtpAssumption DEF Inv, TypeOK
<1>c. cache \in Seq(Inputs) /\ Len(cache) = position
  BY CacheIsSequence
<1>1. ASSUME NEW x \in Inputs, PrefillToken(x) PROVE Log!Append1(x)
  <2>1. /\ position < Context
        /\ kvcache' = KvAppend(x)
        /\ position' = position + 1
        /\ output' = <<>>
    BY <1>1 DEF PrefillToken, Valid
  <2>2. cache' = Append(cache, x)
    BY <2>1, AttendsToLog
  <2> QED
    BY <2>1, <2>2, <1>c DEF Log!Append1
<1>2. ASSUME NEW x \in Inputs, Forward(x) PROVE Log!Append1(x)
  <2>1. /\ position < Context
        /\ kvcache' = KvAppend(x)
        /\ position' = position + 1
        /\ output' = Attend(kvcache', Length)
    BY <1>2 DEF Forward, Valid
  <2>2. cache' = Append(cache, x) /\ output' = Append(cache, x)
    BY <2>1, AttendsToLog
  <2> QED
    BY <2>1, <2>2, <1>c DEF Log!Append1
<1>3. ASSUME NEW x \in Inputs, FailedEvaluate(x) PROVE Log!Forget
  BY <1>3, EmptyLog DEF FailedEvaluate, Log!Forget
<1>4. ASSUME NEW n \in 0..Context, Truncate(n) PROVE Log!Keep(n)
  <2>1. n <= position /\ position' = n /\ kvcache' = kvcache /\ output' = <<>>
    BY <1>4 DEF Truncate
  <2>2. cache' = [i \in 1..n |-> kvcache[i - 1].input]
    BY <2>1 DEF cache
  <2>3. SubSeq(cache, 1, n) = [i \in 1..n |-> cache[i]]
    BY <2>1, <1>c, <1>t
  <2>4. \A i \in 1..n : cache[i] = kvcache[i - 1].input
    BY <2>1, <1>t, CacheIsSequence
  <2>5. cache' = SubSeq(cache, 1, n)
    BY <2>2, <2>3, <2>4
  <2> QED
    BY <2>1, <2>5, <1>c DEF Log!Keep
<1>5. CASE Reset
  BY <1>5, EmptyLog DEF Reset, Log!Forget, Log!Next
<1>6. CASE Refused
  BY <1>6 DEF Refused, Log!Refuse, Log!Next, cache
<1>7. CASE UNCHANGED vars
  BY <1>7 DEF vars, Log!logVars, cache
<1> QED
  BY <1>1, <1>2, <1>3, <1>4, <1>5, <1>6, <1>7 DEF Next, Log!Next

\* For every context the drafter implements the log of inputs: an output of
\* forward attends to exactly the inputs appended and not truncated.
THEOREM MtpImplementsLog == Spec => ImplementsLog
<1>1. Init => Log!Init
  BY InitRefines
<1>2. Inv /\ [Next]_vars => [Log!Next]_(Log!logVars)
  BY NextRefines
<1> QED
  BY <1>1, <1>2, InvHolds, PTL DEF Spec, ImplementsLog, Log!Spec

----------------------------------------------------------------------------
\* Sums.

\* A set of numbers with 0 and the successor of each of its members is Nat.
LEMMA Induction ==
  ASSUME NEW T \in SUBSET Nat, 0 \in T, \A n \in T : n + 1 \in T
  PROVE  T = Nat
<1> DEFINE Missing == Nat \ T
<1> SUFFICES ASSUME Missing # {} PROVE FALSE
  OBVIOUS
<1>1. PICK x \in Missing : \A y \in Missing : ~ (<<y, x>> \in OpToRel(<, Nat))
  BY WFMin, NatLessThanWellFounded
<1>2. \A y \in Missing : ~ (y < x)
  BY <1>1 DEF OpToRel
<1>3. x # 0 /\ x \in Nat
  OBVIOUS
<1>4. x - 1 \in T
  BY <1>2, <1>3
<1> QED
  BY <1>3, <1>4

\* A function on 0..n that starts at base and takes the step at each number.
Recursion(f, n, S, base, step) ==
  /\ f \in [0..n -> S]
  /\ f[0] = base
  /\ \A i \in 1..n : f[i] = step[<<i, f[i - 1]>>]

\* There is one.
LEMMA RecursionExists ==
  ASSUME NEW n \in Nat, NEW S, NEW base \in S, NEW step \in [(1..n) \X S -> S]
  PROVE  \E f : Recursion(f, n, S, base, step)
<1> DEFINE Good(f, m) == \A i \in 0..m : f[i] = IF i = 0 THEN base ELSE step[<<i, f[i - 1]>>]
           T == {m \in Nat : m <= n => \E f \in [0..m -> S] : Good(f, m)}
<1>1. 0 \in T
  <2> DEFINE f == [i \in 0..0 |-> base]
  <2>1. f \in [0..0 -> S] /\ Good(f, 0)
    OBVIOUS
  <2> QED
    BY <2>1
<1>2. ASSUME NEW m \in T PROVE m + 1 \in T
  <2> SUFFICES ASSUME m + 1 <= n PROVE \E f \in [0..(m + 1) -> S] : Good(f, m + 1)
    OBVIOUS
  <2>1. PICK f \in [0..m -> S] : Good(f, m)
    OBVIOUS
  <2> DEFINE v == step[<<m + 1, f[m]>>]
             g == [i \in 0..(m + 1) |-> IF i = m + 1 THEN v ELSE f[i]]
  <2>2. v \in S
    OBVIOUS
  <2>3. g \in [0..(m + 1) -> S]
    BY <2>2
  <2>4. ASSUME NEW i \in 0..(m + 1)
        PROVE  g[i] = IF i = 0 THEN base ELSE step[<<i, g[i - 1]>>]
    <3>1. CASE i = m + 1
      <4>1. g[i] = v /\ g[i - 1] = f[m] /\ i # 0
        BY <3>1
      <4> QED
        BY <3>1, <4>1
    <3>2. CASE i # m + 1
      <4>1. i \in 0..m /\ g[i] = f[i] /\ (i # 0 => g[i - 1] = f[i - 1])
        BY <3>2
      <4> QED
        BY <2>1, <4>1
    <3> QED
      BY <3>1, <3>2
  <2> QED
    BY <2>3, <2>4
<1>3. n \in T
  <2> HIDE DEF T
  <2>1. T \in SUBSET Nat
    BY DEF T
  <2> QED
    BY <1>1, <1>2, <2>1, Induction
<1>4. PICK f \in [0..n -> S] : Good(f, n)
  BY <1>3
<1>5. f[0] = base /\ \A i \in 1..n : f[i] = step[<<i, f[i - 1]>>]
  <2>1. 0 \in 0..n /\ \A i \in 1..n : i \in 0..n /\ i # 0
    OBVIOUS
  <2> QED
    BY <1>4, <2>1
<1>6. Recursion(f, n, S, base, step)
  BY <1>5 DEF Recursion
<1> QED
  BY <1>6

----------------------------------------------------------------------------
Chosen(s) == CHOOSE x \in s : TRUE

IsSum(g, f, S) ==
  g = [s \in SUBSET S |-> IF s = {} THEN 0 ELSE f[Chosen(s)] + g[s \ {Chosen(s)}]]

\* The chosen element and what is left.
LEMMA ChosenProperties ==
  ASSUME NEW s, s # {}, IsFiniteSet(s)
  PROVE  /\ Chosen(s) \in s
         /\ IsFiniteSet(s \ {Chosen(s)})
         /\ Cardinality(s) \in Nat
         /\ Cardinality(s \ {Chosen(s)}) = Cardinality(s) - 1
<1>1. Chosen(s) \in s
  BY DEF Chosen
<1> QED
  BY <1>1, FS_RemoveElement, FS_CardinalityType

\* The recursion that sums over the subsets of a finite set has a solution.
LEMMA SumExists ==
  ASSUME NEW S, IsFiniteSet(S), NEW f, \A x \in S : f[x] \in Int
  PROVE  \E g \in [SUBSET S -> Int] : IsSum(g, f, S)
<1> DEFINE Sets(n) == {s \in SUBSET S : Cardinality(s) <= n}
           Body(g, s) == IF s = {} THEN 0 ELSE f[Chosen(s)] + g[s \ {Chosen(s)}]
           Good(n) == \E g \in [Sets(n) -> Int] : \A s \in Sets(n) : g[s] = Body(g, s)
           T == {n \in Nat : Good(n)}
<1>f. \A s \in SUBSET S : IsFiniteSet(s) /\ Cardinality(s) \in Nat
  BY FS_Subset, FS_CardinalityType
<1>c. \A s \in SUBSET S : s # {} => /\ Chosen(s) \in s
                                    /\ Cardinality(s \ {Chosen(s)}) = Cardinality(s) - 1
  BY <1>f, ChosenProperties
<1>e. \A s \in SUBSET S : Cardinality(s) = 0 <=> s = {}
  BY <1>f, FS_EmptySet
<1>1. 0 \in T
  <2> DEFINE g == [s \in Sets(0) |-> 0]
  <2>1. \A s \in Sets(0) : s = {}
    BY <1>f, <1>e
  <2>2. g \in [Sets(0) -> Int] /\ \A s \in Sets(0) : g[s] = Body(g, s)
    BY <2>1
  <2>3. Good(0)
    BY <2>2
  <2> QED
    BY <2>3
<1>2. ASSUME NEW n \in T PROVE n + 1 \in T
  <2>1. PICK g \in [Sets(n) -> Int] : \A s \in Sets(n) : g[s] = Body(g, s)
    OBVIOUS
  <2> DEFINE h == [s \in Sets(n + 1) |-> Body(g, s)]
  <2>2. \A s \in Sets(n + 1) : s # {} => s \ {Chosen(s)} \in Sets(n) /\ f[Chosen(s)] \in Int
    BY <1>f, <1>c
  <2>3. \A s \in Sets(n + 1) : Body(g, s) \in Int
    BY <2>2
  <2>4. h \in [Sets(n + 1) -> Int]
    BY <2>3
  <2>5. \A s \in Sets(n) : s \in Sets(n + 1) /\ h[s] = g[s]
    BY <2>1, <1>f
  <2>6. \A s \in Sets(n + 1) : h[s] = Body(h, s)
    BY <2>2, <2>5
  <2> HIDE DEF h, Body
  <2>7. Good(n + 1)
    BY <2>4, <2>6
  <2>8. n + 1 \in Nat
    OBVIOUS
  <2> QED
    BY <2>7, <2>8, Zenon
<1>3. T = Nat
  <2> HIDE DEF T
  <2>1. T \in SUBSET Nat
    BY DEF T
  <2> QED
    BY <1>1, <1>2, <2>1, Induction
<1>4. Cardinality(S) \in Nat
  BY <1>f
<1>5. PICK g \in [Sets(Cardinality(S)) -> Int] : \A s \in Sets(Cardinality(S)) : g[s] = Body(g, s)
  BY <1>3, <1>4
<1>6. Sets(Cardinality(S)) = SUBSET S
  BY <1>f, FS_Subset
<1>7. g = [s \in SUBSET S |-> Body(g, s)]
  BY <1>5, <1>6
<1> QED
  BY <1>5, <1>6, <1>7 DEF IsSum

\* Two solutions for functions that agree agree.
LEMMA SumUnique ==
  ASSUME NEW S, IsFiniteSet(S), NEW f1, NEW f2, \A x \in S : f1[x] = f2[x],
         NEW S1, NEW S2, S \subseteq S1, S \subseteq S2,
         NEW g1, NEW g2, IsSum(g1, f1, S1), IsSum(g2, f2, S2)
  PROVE  g1[S] = g2[S]
<1> DEFINE T == {n \in Nat : \A s \in SUBSET S : Cardinality(s) = n => g1[s] = g2[s]}
<1>f. \A s \in SUBSET S : IsFiniteSet(s) /\ Cardinality(s) \in Nat
  BY FS_Subset, FS_CardinalityType
<1>c. \A s \in SUBSET S : s # {} => /\ Chosen(s) \in s
                                    /\ Cardinality(s \ {Chosen(s)}) = Cardinality(s) - 1
  BY <1>f, ChosenProperties
<1>e. \A s \in SUBSET S : Cardinality(s) = 0 <=> s = {}
  BY <1>f, FS_EmptySet
<1>g. \A s \in SUBSET S :
        /\ g1[s] = IF s = {} THEN 0 ELSE f1[Chosen(s)] + g1[s \ {Chosen(s)}]
        /\ g2[s] = IF s = {} THEN 0 ELSE f2[Chosen(s)] + g2[s \ {Chosen(s)}]
  BY DEF IsSum
<1>1. 0 \in T
  BY <1>e, <1>g
<1>2. ASSUME NEW n \in T PROVE n + 1 \in T
  <2> SUFFICES ASSUME NEW s \in SUBSET S, Cardinality(s) = n + 1 PROVE g1[s] = g2[s]
    OBVIOUS
  <2>1. s # {} /\ Chosen(s) \in S
    BY <1>e, <1>c
  <2>2. g1[s \ {Chosen(s)}] = g2[s \ {Chosen(s)}]
    BY <2>1, <1>c
  <2> QED
    BY <2>1, <2>2, <1>g
<1>3. Cardinality(S) \in T
  <2> HIDE DEF T
  <2>1. T \in SUBSET Nat
    BY DEF T
  <2> QED
    BY <1>1, <1>2, <1>f, <2>1, Induction
<1> QED
  BY <1>3

\* The library's sum is a value of the solution.
LEMMA SumIsSolution ==
  ASSUME NEW S, IsFiniteSet(S), NEW f, \A x \in S : f[x] \in Int
  PROVE  \E g \in [SUBSET S -> Int] : IsSum(g, f, S) /\ SumFunctionOnSet(f, S) = g[S]
<1> DEFINE g == CHOOSE g : IsSum(g, f, S)
<1>1. \E h \in [SUBSET S -> Int] : IsSum(h, f, S)
  BY SumExists
<1>2. IsSum(g, f, S)
  BY <1>1
<1>3. SumFunctionOnSet(f, S) = g[S]
  BY DEF SumFunctionOnSet, FoldFunctionOnSet, MapThenFoldSet, IsSum, Chosen
<1>4. PICK h \in [SUBSET S -> Int] : IsSum(h, f, S)
  BY <1>1
<1> HIDE DEF g
<1>5. ASSUME NEW s \in SUBSET S PROVE g[s] = h[s]
  <2>1. IsFiniteSet(s)
    BY FS_Subset
  <2> QED
    BY <2>1, <1>2, <1>4, SumUnique
<1>6. DOMAIN g = SUBSET S /\ g = [s \in SUBSET S |-> g[s]]
  BY <1>2 DEF IsSum
<1>7. g \in [SUBSET S -> Int]
  BY <1>5, <1>6
<1> QED
  BY <1>2, <1>3, <1>7

\* A set of subsets of a finite set that has the empty set, and with a set
\* those larger by one element, has them all.
LEMMA SetInduction ==
  ASSUME NEW S, IsFiniteSet(S), NEW T \in SUBSET (SUBSET S), {} \in T,
         \A s \in T : \A x \in S \ s : s \cup {x} \in T
  PROVE  T = SUBSET S
<1> DEFINE N == {n \in Nat : \A s \in SUBSET S : Cardinality(s) = n => s \in T}
<1>f. \A s \in SUBSET S : IsFiniteSet(s) /\ Cardinality(s) \in Nat
  BY FS_Subset, FS_CardinalityType
<1>e. \A s \in SUBSET S : Cardinality(s) = 0 <=> s = {}
  BY <1>f, FS_EmptySet
<1>1. 0 \in N
  BY <1>e
<1>2. ASSUME NEW n \in N PROVE n + 1 \in N
  <2> SUFFICES ASSUME NEW s \in SUBSET S, Cardinality(s) = n + 1 PROVE s \in T
    OBVIOUS
  <2>1. s # {}
    BY <1>e
  <2>2. /\ Chosen(s) \in s
        /\ Cardinality(s \ {Chosen(s)}) = Cardinality(s) - 1
    BY <2>1, <1>f, ChosenProperties
  <2>3. s \ {Chosen(s)} \in T
    BY <2>2
  <2>4. s = (s \ {Chosen(s)}) \cup {Chosen(s)}
    BY <2>2
  <2> QED
    BY <2>2, <2>3, <2>4
<1>3. N = Nat
  <2> HIDE DEF N
  <2>1. N \in SUBSET Nat
    BY DEF N
  <2> QED
    BY <1>1, <1>2, <2>1, Induction
<1> QED
  BY <1>3, <1>f

\* A sum of integers is an integer.
LEMMA SumType ==
  ASSUME NEW S, IsFiniteSet(S), NEW f, \A x \in S : f[x] \in Int
  PROVE  SumFunctionOnSet(f, S) \in Int
<1>1. PICK g \in [SUBSET S -> Int] : IsSum(g, f, S) /\ SumFunctionOnSet(f, S) = g[S]
  BY SumIsSolution
<1> QED
  BY <1>1

\* Nothing sums to zero.
LEMMA SumEmpty ==
  ASSUME NEW f
  PROVE  SumFunctionOnSet(f, {}) = 0
<1>1. IsFiniteSet({}) /\ \A x \in {} : f[x] \in Int
  BY FS_EmptySet
<1>2. PICK g \in [SUBSET {} -> Int] : IsSum(g, f, {}) /\ SumFunctionOnSet(f, {}) = g[{}]
  BY <1>1, SumIsSolution
<1> QED
  BY <1>2 DEF IsSum

\* Functions that agree have one sum.
LEMMA SumCongruent ==
  ASSUME NEW S, IsFiniteSet(S), NEW f1, NEW f2, \A x \in S : f1[x] \in Int /\ f2[x] = f1[x]
  PROVE  SumFunctionOnSet(f1, S) = SumFunctionOnSet(f2, S)
<1>1. PICK g1 \in [SUBSET S -> Int] : IsSum(g1, f1, S) /\ SumFunctionOnSet(f1, S) = g1[S]
  BY SumIsSolution
<1>2. PICK g2 \in [SUBSET S -> Int] : IsSum(g2, f2, S) /\ SumFunctionOnSet(f2, S) = g2[S]
  BY SumIsSolution
<1>3. g1[S] = g2[S]
  BY <1>1, <1>2, SumUnique
<1> QED
  BY <1>1, <1>2, <1>3

\* The sum over a set, less the chosen element.
LEMMA SumOfChosen ==
  ASSUME NEW S, IsFiniteSet(S), S # {}, NEW f, \A x \in S : f[x] \in Int
  PROVE  SumFunctionOnSet(f, S)
           = f[Chosen(S)] + SumFunctionOnSet(f, S \ {Chosen(S)})
<1> DEFINE R == S \ {Chosen(S)}
<1>1. Chosen(S) \in S /\ IsFiniteSet(R) /\ R \subseteq S
  BY ChosenProperties
<1>2. PICK g \in [SUBSET S -> Int] : IsSum(g, f, S) /\ SumFunctionOnSet(f, S) = g[S]
  BY SumIsSolution
<1>3. PICK h \in [SUBSET R -> Int] : IsSum(h, f, R) /\ SumFunctionOnSet(f, R) = h[R]
  BY <1>1, SumIsSolution
<1>4. g[R] = h[R]
  BY <1>1, <1>2, <1>3, SumUnique
<1>5. g[S] = f[Chosen(S)] + g[R]
  BY <1>2 DEF IsSum
<1> QED
  BY <1>2, <1>3, <1>4, <1>5

\* The sum over a set, less any element.
LEMMA SumWithout ==
  ASSUME NEW S, IsFiniteSet(S), NEW f, \A x \in S : f[x] \in Int, NEW y \in S
  PROVE  SumFunctionOnSet(f, S) = f[y] + SumFunctionOnSet(f, S \ {y})
<1> DEFINE Total(s) == SumFunctionOnSet(f, s)
           T == {n \in Nat : \A s \in SUBSET S : Cardinality(s) = n
                               => \A z \in s : Total(s) = f[z] + Total(s \ {z})}
<1>f. \A s \in SUBSET S : IsFiniteSet(s) /\ Cardinality(s) \in Nat /\ Total(s) \in Int
  BY FS_Subset, FS_CardinalityType, SumType
<1>c. \A s \in SUBSET S : s # {} => /\ Chosen(s) \in s
                                    /\ Total(s) = f[Chosen(s)] + Total(s \ {Chosen(s)})
  BY <1>f, ChosenProperties, SumOfChosen
<1>e. \A s \in SUBSET S : Cardinality(s) = 0 <=> s = {}
  BY <1>f, FS_EmptySet
<1>r. \A s \in SUBSET S : \A z \in s : Cardinality(s \ {z}) = Cardinality(s) - 1
  BY <1>f, FS_RemoveElement
<1> HIDE DEF Total
<1>1. 0 \in T
  BY <1>e
<1>2. ASSUME NEW n \in T PROVE n + 1 \in T
  <2> SUFFICES ASSUME NEW s \in SUBSET S, Cardinality(s) = n + 1, NEW z \in s
               PROVE  Total(s) = f[z] + Total(s \ {z})
    OBVIOUS
  <2> DEFINE c == Chosen(s)
  <2>1. c \in s /\ Total(s) = f[c] + Total(s \ {c})
    BY <1>c
  <2> HIDE DEF c
  <2>2. CASE z = c
    BY <2>1, <2>2
  <2>3. CASE z # c
    <3>1. z \in s \ {c} /\ c \in s \ {z}
      BY <2>1, <2>3
    <3>2. Total(s \ {c}) = f[z] + Total((s \ {c}) \ {z})
      BY <2>1, <3>1, <1>r
    <3>3. Total(s \ {z}) = f[c] + Total((s \ {z}) \ {c})
      BY <2>1, <3>1, <1>r
    <3>4. (s \ {z}) \ {c} = (s \ {c}) \ {z}
      OBVIOUS
    <3>5. Total(s \ {z}) = f[c] + Total((s \ {c}) \ {z})
      BY <3>3, <3>4
    <3>6. f[z] \in Int /\ f[c] \in Int /\ Total((s \ {c}) \ {z}) \in Int
      BY <2>1, <1>f
    <3>7. \A a, b, d \in Int : a + (b + d) = b + (a + d)
      OBVIOUS
    <3> QED
      BY <2>1, <3>2, <3>5, <3>6, <3>7
  <2> QED
    BY <2>2, <2>3
<1>3. Cardinality(S) \in T
  <2> HIDE DEF T
  <2>1. T \in SUBSET Nat
    BY DEF T
  <2> QED
    BY <1>1, <1>2, <1>f, <2>1, Induction
<1> QED
  BY <1>3 DEF Total

\* The sum over a set with one more element.
LEMMA SumWith ==
  ASSUME NEW S, IsFiniteSet(S), NEW f, NEW y, y \notin S,
         \A x \in S \cup {y} : f[x] \in Int
  PROVE  SumFunctionOnSet(f, S \cup {y}) = f[y] + SumFunctionOnSet(f, S)
<1>1. IsFiniteSet(S \cup {y}) /\ (S \cup {y}) \ {y} = S
  BY FS_AddElement
<1> QED
  BY <1>1, SumWithout

\* Sums are additive.
LEMMA SumPlus ==
  ASSUME NEW S, IsFiniteSet(S), NEW f, NEW g, NEW h,
         \A x \in S : f[x] \in Int /\ g[x] \in Int /\ h[x] = f[x] + g[x]
  PROVE  SumFunctionOnSet(h, S) = SumFunctionOnSet(f, S) + SumFunctionOnSet(g, S)
<1> DEFINE F(s) == SumFunctionOnSet(f, s)
           G(s) == SumFunctionOnSet(g, s)
           H(s) == SumFunctionOnSet(h, s)
           T == {s \in SUBSET S : H(s) = F(s) + G(s)}
<1>1. \A s \in SUBSET S : F(s) \in Int /\ G(s) \in Int
  BY FS_Subset, SumType
<1>2. {} \in T
  BY SumEmpty
<1>3. ASSUME NEW s \in T, NEW x \in S \ s PROVE s \cup {x} \in T
  <2>1. IsFiniteSet(s) /\ \A z \in s \cup {x} : z \in S /\ h[z] \in Int
    BY FS_Subset
  <2>2. F(s \cup {x}) = f[x] + F(s)
    BY <2>1, SumWith
  <2>3. G(s \cup {x}) = g[x] + G(s)
    BY <2>1, SumWith
  <2>4. H(s \cup {x}) = h[x] + H(s)
    BY <2>1, SumWith
  <2> HIDE DEF F, G, H
  <2>5. f[x] \in Int /\ g[x] \in Int /\ h[x] = f[x] + g[x] /\ F(s) \in Int /\ G(s) \in Int
    BY <1>1
  <2> QED
    BY <2>2, <2>3, <2>4, <2>5
<1>4. T = SUBSET S
  <2> HIDE DEF T
  <2>1. T \in SUBSET (SUBSET S)
    BY DEF T
  <2> QED
    BY <2>1, <1>2, <1>3, SetInduction
<1> QED
  BY <1>4

\* A common factor of a sum.
LEMMA SumTimes ==
  ASSUME NEW S, IsFiniteSet(S), NEW f, NEW c \in Int, NEW h,
         \A x \in S : f[x] \in Int /\ h[x] = f[x] * c
  PROVE  SumFunctionOnSet(h, S) = SumFunctionOnSet(f, S) * c
<1> DEFINE F(s) == SumFunctionOnSet(f, s)
           H(s) == SumFunctionOnSet(h, s)
           T == {s \in SUBSET S : H(s) = F(s) * c}
<1>1. \A s \in SUBSET S : F(s) \in Int
  BY FS_Subset, SumType
<1>2. {} \in T
  BY SumEmpty
<1>3. ASSUME NEW s \in T, NEW x \in S \ s PROVE s \cup {x} \in T
  <2>1. IsFiniteSet(s) /\ \A z \in s \cup {x} : z \in S /\ h[z] \in Int
    BY FS_Subset
  <2>2. F(s \cup {x}) = f[x] + F(s)
    BY <2>1, SumWith
  <2>3. H(s \cup {x}) = h[x] + H(s)
    BY <2>1, SumWith
  <2> HIDE DEF F, H
  <2>4. f[x] \in Int /\ h[x] = f[x] * c /\ F(s) \in Int
    BY <1>1
  <2>5. (f[x] + F(s)) * c = f[x] * c + F(s) * c
    BY <2>4
  <2> QED
    BY <2>2, <2>3, <2>4, <2>5
<1>4. T = SUBSET S
  <2> HIDE DEF T
  <2>1. T \in SUBSET (SUBSET S)
    BY DEF T
  <2> QED
    BY <2>1, <1>2, <1>3, SetInduction
<1> QED
  BY <1>4

\* A sum of natural numbers is one, and grows with the set.
LEMMA SumGrows ==
  ASSUME NEW S, IsFiniteSet(S), NEW f, \A x \in S : f[x] \in Nat, NEW R \in SUBSET S
  PROVE  /\ SumFunctionOnSet(f, S) \in Nat
         /\ SumFunctionOnSet(f, R) \in Nat
         /\ SumFunctionOnSet(f, R) <= SumFunctionOnSet(f, S)
<1> DEFINE F(s) == SumFunctionOnSet(f, s)
           T == {s \in SUBSET S : F(s) \in Nat /\ F(s \cap R) \in Nat /\ F(s \cap R) <= F(s)}
<1>1. {} \in T
  <2>1. {} \cap R = {}
    OBVIOUS
  <2> QED
    BY <2>1, SumEmpty
<1>2. ASSUME NEW s \in T, NEW x \in S \ s PROVE s \cup {x} \in T
  <2>1. /\ IsFiniteSet(s) /\ IsFiniteSet(s \cap R)
        /\ \A z \in s \cup {x} : f[z] \in Int
    BY FS_Subset
  <2>2. F(s \cup {x}) = f[x] + F(s)
    BY <2>1, SumWith
  <2>3. CASE x \in R
    <3>1. (s \cup {x}) \cap R = (s \cap R) \cup {x}
      BY <2>3
    <3>2. F((s \cap R) \cup {x}) = f[x] + F(s \cap R)
      BY <2>1, SumWith
    <3> HIDE DEF F
    <3> QED
      BY <2>2, <3>1, <3>2
  <2>4. CASE x \notin R
    <3>1. (s \cup {x}) \cap R = s \cap R
      BY <2>4
    <3> HIDE DEF F
    <3> QED
      BY <2>2, <3>1
  <2> QED
    BY <2>3, <2>4
<1>3. T = SUBSET S
  <2> HIDE DEF T
  <2>1. T \in SUBSET (SUBSET S)
    BY DEF T
  <2> QED
    BY <2>1, <1>1, <1>2, SetInduction
<1>4. S \cap R = R
  OBVIOUS
<1> QED
  BY <1>3, <1>4

\* One of the numbers summed is at most the sum.
LEMMA SumBounds ==
  ASSUME NEW S, IsFiniteSet(S), NEW f, \A x \in S : f[x] \in Nat, NEW y \in S
  PROVE  f[y] <= SumFunctionOnSet(f, S)
<1>1. SumFunctionOnSet(f, S) = f[y] + SumFunctionOnSet(f, S \ {y})
  BY SumWithout
<1>2. SumFunctionOnSet(f, S \ {y}) \in Nat
  BY SumGrows
<1> QED
  BY <1>1, <1>2

\* A sum of zeroes is zero.
LEMMA SumOfZeroes ==
  ASSUME NEW S, IsFiniteSet(S), NEW f, \A x \in S : f[x] = 0
  PROVE  SumFunctionOnSet(f, S) = 0
<1>1. SumFunctionOnSet(f, S) = SumFunctionOnSet(f, S) * 0
  BY SumTimes
<1>2. SumFunctionOnSet(f, S) \in Int
  BY SumType
<1> QED
  BY <1>1, <1>2

----------------------------------------------------------------------------
\* Sums in parts, and in the order of a numbering.

\* The sum over a set is that over the part where the function is not zero.
LEMMA SumSupport ==
  ASSUME NEW S, IsFiniteSet(S), NEW f, \A x \in S : f[x] \in Int,
         NEW R \in SUBSET S, \A x \in S \ R : f[x] = 0
  PROVE  SumFunctionOnSet(f, S) = SumFunctionOnSet(f, R)
<1> DEFINE F(s) == SumFunctionOnSet(f, s)
           T == {s \in SUBSET S : F(s) = F(s \cap R)}
<1>1. {} \in T
  <2>1. {} \cap R = {}
    OBVIOUS
  <2> QED
    BY <2>1
<1>2. ASSUME NEW s \in T, NEW x \in S \ s PROVE s \cup {x} \in T
  <2>1. /\ IsFiniteSet(s) /\ IsFiniteSet(s \cap R)
        /\ \A z \in s \cup {x} : f[z] \in Int
    BY FS_Subset
  <2>2. F(s \cup {x}) = f[x] + F(s)
    BY <2>1, SumWith
  <2>3. F(s) = F(s \cap R)
    OBVIOUS
  <2>4. CASE x \in R
    <3>1. (s \cup {x}) \cap R = (s \cap R) \cup {x}
      BY <2>4
    <3>2. F((s \cap R) \cup {x}) = f[x] + F(s \cap R)
      BY <2>1, SumWith
    <3>3. f[x] + F(s) = f[x] + F(s \cap R)
      BY <2>3
    <3>4. F(s \cup {x}) = F((s \cup {x}) \cap R)
      BY <2>2, <3>1, <3>2, <3>3
    <3> QED
      BY <3>4
  <2>5. CASE x \notin R
    <3>1. (s \cup {x}) \cap R = s \cap R /\ f[x] = 0
      BY <2>5
    <3>2. F(s) \in Int
      BY <2>1, SumType
    <3>3. F(s \cup {x}) = F(s)
      <4> HIDE DEF F
      <4> QED
        BY <2>2, <3>1, <3>2
    <3>4. F(s \cup {x}) = F((s \cup {x}) \cap R)
      BY <2>3, <3>1, <3>3
    <3> QED
      BY <3>4
  <2> QED
    BY <2>4, <2>5
<1>3. T = SUBSET S
  <2> HIDE DEF T
  <2>1. T \in SUBSET (SUBSET S)
    BY DEF T
  <2> QED
    BY <2>1, <1>1, <1>2, SetInduction
<1>4. S \cap R = R
  OBVIOUS
<1> QED
  BY <1>3, <1>4

\* The first k members in a numbering of a set.
Firsts(e, k) == {e[i] : i \in 1..k}

\* A sum may be taken in the numbering of a set's members.
LEMMA SumNumbered ==
  ASSUME NEW n \in Nat, NEW e, NEW f, NEW g, NEW k \in 0..n,
         \A i, j \in 1..n : e[i] = e[j] => i = j,
         \A i \in 1..n : f[e[i]] \in Int,
         \A i \in 1..n : g[i] = f[e[i]]
  PROVE  /\ IsFiniteSet(Firsts(e, k))
         /\ SumFunctionOnSet(f, Firsts(e, k)) = SumFunctionOnSet(g, 1..k)
<1> DEFINE M(j) == {e[i] : i \in 1..j}
           F(j) == SumFunctionOnSet(f, M(j))
           G(j) == SumFunctionOnSet(g, 1..j)
           T == {j \in Nat : j <= n => IsFiniteSet(M(j)) /\ F(j) = G(j)}
<1>1. 0 \in T
  <2>1. M(0) = {} /\ 1..0 = {}
    OBVIOUS
  <2> QED
    BY <2>1, SumEmpty, FS_EmptySet
<1>2. ASSUME NEW j \in T PROVE j + 1 \in T
  <2> SUFFICES ASSUME j + 1 <= n PROVE IsFiniteSet(M(j + 1)) /\ F(j + 1) = G(j + 1)
    OBVIOUS
  <2>1. IsFiniteSet(M(j)) /\ F(j) = G(j)
    OBVIOUS
  <2>2. M(j + 1) = M(j) \cup {e[j + 1]} /\ e[j + 1] \notin M(j)
    OBVIOUS
  <2>3. 1..(j + 1) = (1..j) \cup {j + 1} /\ j + 1 \notin 1..j
    OBVIOUS
  <2>9. IsFiniteSet(1..j)
    <3>1. 1 \in Int /\ j \in Int
      OBVIOUS
    <3> QED
      BY <3>1, FS_Interval
  <2>4. /\ \A x \in M(j) \cup {e[j + 1]} : f[x] \in Int
        /\ \A i \in (1..j) \cup {j + 1} : g[i] \in Int
    OBVIOUS
  <2>5. g[j + 1] = f[e[j + 1]]
    OBVIOUS
  <2> HIDE DEF M
  <2>6. SumFunctionOnSet(f, M(j) \cup {e[j + 1]}) = f[e[j + 1]] + F(j)
    BY <2>1, <2>2, <2>4, SumWith
  <2>7. SumFunctionOnSet(g, (1..j) \cup {j + 1}) = g[j + 1] + G(j)
    BY <2>3, <2>4, <2>9, SumWith
  <2>8. IsFiniteSet(M(j + 1))
    BY <2>1, <2>2, FS_AddElement
  <2> QED
    BY <2>1, <2>2, <2>3, <2>5, <2>6, <2>7, <2>8
<1>3. T = Nat
  <2> HIDE DEF T
  <2>1. T \in SUBSET Nat
    BY DEF T
  <2> QED
    BY <1>1, <1>2, <2>1, Induction
<1>4. k \in T /\ k <= n
  <2>1. k \in Nat /\ k <= n
    OBVIOUS
  <2> HIDE DEF T
  <2> QED
    BY <1>3, <2>1
<1> QED
  BY <1>4 DEF Firsts

----------------------------------------------------------------------------
\* The order of a row, and its ranking.

\* Of two tokens one is ahead, and what is ahead of one that is ahead is too.
LEMMA AheadOrder ==
  ASSUME NEW row \in [Vocab -> Int]
  PROVE  /\ \A t \in Vocab : ~Ahead(row, t, t)
         /\ \A t, u \in Vocab : t # u => (Ahead(row, t, u) \/ Ahead(row, u, t))
         /\ \A t, u \in Vocab : ~(Ahead(row, t, u) /\ Ahead(row, u, t))
         /\ \A t, u, v \in Vocab : Ahead(row, t, u) /\ Ahead(row, u, v) => Ahead(row, t, v)
<1>1. \A t \in Vocab : t \in Nat /\ row[t] \in Int
  BY SamplingAssumption
<1> QED
  BY <1>1 DEF Ahead

\* Fewer tokens are ahead of a token that is ahead.
LEMMA RankGrows ==
  ASSUME NEW row \in [Vocab -> Int], NEW t \in Vocab, NEW u \in Vocab, Ahead(row, t, u)
  PROVE  /\ AheadOf(row, t) \cup {t} \subseteq AheadOf(row, u)
         /\ IsFiniteSet(AheadOf(row, t)) /\ IsFiniteSet(AheadOf(row, u))
         /\ Cardinality(AheadOf(row, t)) \in Nat /\ Cardinality(AheadOf(row, u)) \in Nat
         /\ Cardinality(AheadOf(row, t)) < Cardinality(AheadOf(row, u))
<1>1. /\ AheadOf(row, t) \cup {t} \subseteq AheadOf(row, u)
      /\ t \notin AheadOf(row, t)
      /\ AheadOf(row, t) \subseteq Vocab /\ AheadOf(row, u) \subseteq Vocab
  BY AheadOrder DEF AheadOf
<1>2. IsFiniteSet(AheadOf(row, t)) /\ IsFiniteSet(AheadOf(row, u))
  BY <1>1, SamplingAssumption, FS_Subset
<1>3. Cardinality(AheadOf(row, t) \cup {t}) = Cardinality(AheadOf(row, t)) + 1
  BY <1>1, <1>2, FS_AddElement
<1>4. Cardinality(AheadOf(row, t) \cup {t}) <= Cardinality(AheadOf(row, u))
  BY <1>1, <1>2, FS_Subset
<1> QED
  BY <1>1, <1>2, <1>3, <1>4, FS_CardinalityType

Size == Cardinality(Vocab)

\* The numbers of tokens ahead are those below the size, each of one token.
LEMMA RankBijection ==
  ASSUME NEW row \in [Vocab -> Int]
  PROVE  /\ Size \in Nat /\ Size > 0
         /\ \A t \in Vocab : Cardinality(AheadOf(row, t)) \in 0..(Size - 1)
         /\ \A t, u \in Vocab :
              Cardinality(AheadOf(row, t)) = Cardinality(AheadOf(row, u)) => t = u
         /\ \A i \in 0..(Size - 1) : \E t \in Vocab : Cardinality(AheadOf(row, t)) = i
<1> DEFINE rank == [t \in Vocab |-> Cardinality(AheadOf(row, t))]
<1>1. Size \in Nat /\ Size > 0
  BY SamplingAssumption, FS_CardinalityType, FS_EmptySet DEF Size
<1>2. ASSUME NEW t \in Vocab
      PROVE  Cardinality(AheadOf(row, t)) \in 0..(Size - 1)
  <2>1. AheadOf(row, t) \subseteq Vocab /\ t \notin AheadOf(row, t)
    BY AheadOrder DEF AheadOf
  <2>2. AheadOf(row, t) \subseteq Vocab \ {t}
    BY <2>1
  <2>3. IsFiniteSet(Vocab \ {t}) /\ Cardinality(Vocab \ {t}) = Size - 1
    BY SamplingAssumption, FS_RemoveElement DEF Size
  <2> HIDE DEF Size
  <2>4. IsFiniteSet(AheadOf(row, t)) /\ Cardinality(AheadOf(row, t)) <= Size - 1
    BY <2>2, <2>3, FS_Subset
  <2>5. Cardinality(AheadOf(row, t)) \in Nat
    BY <2>4, FS_CardinalityType
  <2> QED
    BY <2>4, <2>5, <1>1
<1>3. ASSUME NEW t \in Vocab, NEW u \in Vocab,
             Cardinality(AheadOf(row, t)) = Cardinality(AheadOf(row, u))
      PROVE  t = u
  <2>1. ~Ahead(row, t, u)
    BY <1>3, RankGrows
  <2>2. ~Ahead(row, u, t)
    BY <1>3, RankGrows
  <2> QED
    BY <2>1, <2>2, AheadOrder
<1> DEFINE image == {rank[t] : t \in Vocab}
<1>4. rank \in Bijection(Vocab, image)
  BY <1>3 DEF Bijection, Injection, Surjection, IsInjective
<1>5. Cardinality(image) = Size /\ IsFiniteSet(image)
  BY <1>4, SamplingAssumption, FS_Bijection DEF Size, ExistsBijection
<1>6. image \subseteq 0..(Size - 1)
  BY <1>2
<1>7. IsFiniteSet(0..(Size - 1)) /\ Cardinality(0..(Size - 1)) = Size
  BY <1>1, FS_Interval
<1>8. image = 0..(Size - 1)
  <2> HIDE DEF image, Size
  <2> QED
    BY <1>5, <1>6, <1>7, FS_Subset
<1> QED
  BY <1>1, <1>2, <1>3, <1>8

\* Ranked lists every token once, each behind exactly those listed before it.
LEMMA RankedProperties ==
  ASSUME NEW row \in [Vocab -> Int]
  PROVE  /\ Ranked(row) \in [1..Size -> Vocab]
         /\ \A i \in 1..Size : Cardinality(AheadOf(row, Ranked(row)[i])) = i - 1
         /\ \A i, j \in 1..Size : Ranked(row)[i] = Ranked(row)[j] => i = j
         /\ \A t \in Vocab : \E i \in 1..Size : Ranked(row)[i] = t
         /\ \A i, j \in 1..Size : Ahead(row, Ranked(row)[i], Ranked(row)[j]) <=> i < j
<1> DEFINE r == Ranked(row)
           rank(t) == Cardinality(AheadOf(row, t))
<1>1. Size \in Nat /\ Size > 0
  BY RankBijection
<1>2. \A i \in 1..Size : \E t \in Vocab : rank(t) = i - 1
  <2> SUFFICES ASSUME NEW i \in 1..Size PROVE \E t \in Vocab : rank(t) = i - 1
    OBVIOUS
  <2>1. i - 1 \in 0..(Size - 1)
    BY <1>1
  <2> QED
    BY <2>1, RankBijection
<1>3. \A i \in 1..Size : r[i] = CHOOSE t \in Vocab : rank(t) = i - 1
  BY DEF Ranked, AheadOf, Size
<1>4. DOMAIN r = 1..Size
  BY DEF Ranked, Size
<1>5. \A i \in 1..Size : r[i] \in Vocab /\ rank(r[i]) = i - 1
  <2> HIDE DEF rank, r
  <2> QED
    BY <1>2, <1>3
<1>6. r \in [1..Size -> Vocab]
  <2>1. r = [i \in 1..Size |-> CHOOSE t \in Vocab : rank(t) = i - 1]
    BY DEF Ranked, AheadOf, Size
  <2>2. \A i \in 1..Size : (CHOOSE t \in Vocab : rank(t) = i - 1) \in Vocab
    BY <1>2
  <2> QED
    BY <2>1, <2>2
<1> HIDE DEF r
<1>7. \A i, j \in 1..Size : r[i] = r[j] => i = j
  <2> SUFFICES ASSUME NEW i \in 1..Size, NEW j \in 1..Size, r[i] = r[j] PROVE i = j
    OBVIOUS
  <2>1. i - 1 = j - 1
    BY <1>5
  <2> QED
    BY <2>1, <1>1
<1>8. ASSUME NEW t \in Vocab PROVE \E i \in 1..Size : r[i] = t
  <2>1. rank(t) \in 0..(Size - 1)
    BY RankBijection
  <2>2. rank(t) + 1 \in 1..Size /\ (rank(t) + 1) - 1 = rank(t)
    BY <2>1, <1>1
  <2>3. r[rank(t) + 1] \in Vocab /\ rank(r[rank(t) + 1]) = rank(t)
    BY <1>5, <2>2
  <2>4. r[rank(t) + 1] = t
    BY <2>3, RankBijection
  <2> QED
    BY <2>2, <2>4
<1>9. ASSUME NEW i \in 1..Size, NEW j \in 1..Size
      PROVE  Ahead(row, r[i], r[j]) <=> i < j
  <2>1. r[i] \in Vocab /\ r[j] \in Vocab /\ rank(r[i]) = i - 1 /\ rank(r[j]) = j - 1
    BY <1>5
  <2>2. Ahead(row, r[i], r[j]) => i - 1 < j - 1
    BY <2>1, RankGrows
  <2>3. Ahead(row, r[j], r[i]) => j - 1 < i - 1
    BY <2>1, RankGrows
  <2>4. r[i] # r[j] => (Ahead(row, r[i], r[j]) \/ Ahead(row, r[j], r[i]))
    BY <2>1, AheadOrder
  <2>5. i # j => r[i] # r[j]
    BY <1>7
  <2>6. i \in Int /\ j \in Int
    OBVIOUS
  <2>7. ~Ahead(row, r[i], r[i])
    BY <2>1, AheadOrder
  <2> QED
    BY <2>2, <2>3, <2>4, <2>5, <2>6, <2>7
<1> QED
  BY <1>5, <1>6, <1>7, <1>8, <1>9 DEF r

\* The tokens ahead of one are those listed before it, the first token is the
\* one that none is ahead of.
LEMMA RankedAhead ==
  ASSUME NEW row \in [Vocab -> Int]
  PROVE  /\ \A i \in 1..Size :
              AheadOf(row, Ranked(row)[i]) = {Ranked(row)[j] : j \in 1..(i - 1)}
         /\ \A i \in 1..Size :
              {v \in Vocab : ~Ahead(row, Ranked(row)[i], v)} = {Ranked(row)[j] : j \in 1..i}
         /\ (CHOOSE t \in Vocab : AheadOf(row, t) = {}) = Ranked(row)[1]
<1> DEFINE r == Ranked(row)
<1>1. Size \in Nat /\ Size > 0
  BY RankBijection
<1>2. /\ r \in [1..Size -> Vocab]
      /\ \A t \in Vocab : \E i \in 1..Size : r[i] = t
      /\ \A i, j \in 1..Size : Ahead(row, r[i], r[j]) <=> i < j
  BY RankedProperties
<1> HIDE DEF r
<1>3. ASSUME NEW i \in 1..Size
      PROVE  AheadOf(row, r[i]) = {r[j] : j \in 1..(i - 1)}
  <2>1. \A j \in 1..(i - 1) : j \in 1..Size /\ j < i
    BY <1>1
  <2>2. \A j \in 1..Size : j < i => j \in 1..(i - 1)
    BY <1>1
  <2>3. \A t \in AheadOf(row, r[i]) : \E j \in 1..(i - 1) : r[j] = t
    BY <1>2, <2>2 DEF AheadOf
  <2>4. \A j \in 1..(i - 1) : r[j] \in AheadOf(row, r[i])
    BY <1>2, <2>1 DEF AheadOf
  <2> QED
    BY <2>3, <2>4
<1>4. ASSUME NEW i \in 1..Size
      PROVE  {v \in Vocab : ~Ahead(row, r[i], v)} = {r[j] : j \in 1..i}
  <2>1. \A j \in 1..i : j \in 1..Size /\ ~(i < j)
    BY <1>1
  <2>2. \A j \in 1..Size : ~(i < j) => j \in 1..i
    BY <1>1
  <2>3. \A t \in Vocab : ~Ahead(row, r[i], t) => \E j \in 1..i : r[j] = t
    BY <1>2, <2>2
  <2>4. \A j \in 1..i : r[j] \in Vocab /\ ~Ahead(row, r[i], r[j])
    BY <1>2, <2>1
  <2> QED
    BY <2>3, <2>4
<1>5. (CHOOSE t \in Vocab : AheadOf(row, t) = {}) = r[1]
  <2>1. 1 \in 1..Size /\ r[1] \in Vocab
    BY <1>1, <1>2
  <2>2. AheadOf(row, r[1]) = {}
    <3>1. 1..(1 - 1) = {}
      OBVIOUS
    <3> QED
      BY <2>1, <1>3, <3>1
  <2>3. \A t \in Vocab : AheadOf(row, t) = {} => t = r[1]
    <3> SUFFICES ASSUME NEW t \in Vocab, AheadOf(row, t) = {} PROVE t = r[1]
      OBVIOUS
    <3>1. ~Ahead(row, r[1], t) /\ ~Ahead(row, t, r[1])
      BY <2>1, <2>2 DEF AheadOf
    <3> QED
      BY <3>1, <2>1, AheadOrder
  <2> QED
    BY <2>1, <2>2, <2>3
<1> QED
  BY <1>3, <1>4, <1>5 DEF r

----------------------------------------------------------------------------
\* Weights and the nucleus.

\* The least of a set of numbers.
LEMMA MinProperties ==
  ASSUME NEW S \in SUBSET Nat, S # {}
  PROVE  Min(S) \in S /\ \A y \in S : Min(S) <= y
<1>1. PICK x \in S : \A y \in S : ~ (<<y, x>> \in OpToRel(<, Nat))
  BY WFMin, NatLessThanWellFounded
<1>2. \A y \in S : ~ (y < x)
  BY <1>1 DEF OpToRel
<1>3. \A y \in S : x <= y
  BY <1>2
<1> QED
  BY <1>3 DEF Min

\* Powers of two are positive.
LEMMA PowerPositive ==
  \A n \in 0..Depth : PowerOfTwo[n] \in Nat \ {0}
<1> DEFINE step == [p \in (1..Depth) \X Nat |-> 2 * p[2]]
           T == {n \in Nat : n <= Depth => PowerOfTwo[n] \in Nat \ {0}}
<1>1. Depth \in Nat
  BY SamplingAssumption
<1>2. step \in [(1..Depth) \X Nat -> Nat]
  OBVIOUS
<1>3. PICK f \in [0..Depth -> Nat] :
        f[0] = 1 /\ \A i \in 1..Depth : f[i] = step[<<i, f[i - 1]>>]
  <2> HIDE DEF step
  <2>1. 1 \in Nat
    OBVIOUS
  <2> QED
    <3>1. \E f : Recursion(f, Depth, Nat, 1, step)
      BY <2>1, <1>1, <1>2, RecursionExists
    <3>2. PICK f : Recursion(f, Depth, Nat, 1, step)
      BY <3>1
    <3> QED
      BY <3>2 DEF Recursion
<1>4. f = [i \in 0..Depth |-> IF i = 0 THEN 1 ELSE 2 * f[i - 1]]
  <2>1. \A i \in 1..Depth : i - 1 \in 0..Depth /\ i \in 1..Depth
    BY <1>1
  <2>2. \A i \in 1..Depth : f[i - 1] \in Nat
    BY <2>1
  <2>3. \A i \in 1..Depth : \A v \in Nat : step[<<i, v>>] = 2 * v
    OBVIOUS
  <2> HIDE DEF step
  <2>4. \A i \in 1..Depth : f[i] = 2 * f[i - 1]
    BY <1>3, <2>2, <2>3
  <2> QED
    BY <2>4, <1>1, <1>3
<1>5. PowerOfTwo = [n \in 0..Depth |-> IF n = 0 THEN 1 ELSE 2 * PowerOfTwo[n - 1]]
  BY <1>4 DEF PowerOfTwo
<1>6. 0 \in T
  BY <1>1, <1>5
<1>7. ASSUME NEW n \in T PROVE n + 1 \in T
  BY <1>1, <1>5
<1>8. T = Nat
  <2> HIDE DEF T
  <2>1. T \in SUBSET Nat
    BY DEF T
  <2> QED
    BY <1>6, <1>7, <2>1, Induction
<1> QED
  BY <1>8, <1>1

\* A weight is a number, and the likeliest token's is positive.
LEMMA WeightType ==
  ASSUME NEW c \in Configs, c.temperature # 0, NEW below \in Nat
  PROVE  Weight(c, below) \in Nat /\ Weight(c, 0) \in Nat \ {0}
<1>1. c.temperature \in Nat \ {0} /\ Depth \in Nat
  BY LawAssumption, SamplingAssumption
<1>2. \A b \in Nat : (2 * b) \div c.temperature \in Nat
  BY <1>1
<1>3. (2 * 0) \div c.temperature = 0
  BY <1>1
<1>4. \A h \in Nat : ~(h > Depth) => Depth - h \in 0..Depth
  BY <1>1
<1>5. Depth - 0 = Depth /\ ~(0 > Depth) /\ Depth \in 0..Depth
  BY <1>1
<1>6. Weight(c, below) \in Nat
  BY <1>2, <1>4, PowerPositive DEF Weight
<1>7. Weight(c, 0) \in Nat \ {0}
  BY <1>3, <1>5, PowerPositive DEF Weight
<1> QED
  BY <1>6, <1>7

\* The weight LawOf gives a token before it cuts.
RawWeight(row) == [t \in Vocab |-> Weight(config, row[Ranked(row)[1]] - row[t])]

\* These weights are numbers, and one is positive.
LEMMA RawWeightType ==
  ASSUME NEW row \in [Vocab -> Int], config \in Configs, config.temperature # 0
  PROVE  /\ RawWeight(row) \in [Vocab -> Nat]
         /\ RawWeight(row)[Ranked(row)[1]] > 0
<1> DEFINE best == Ranked(row)[1]
<1>1. best \in Vocab
  BY RankedProperties, RankBijection
<1>2. \A t \in Vocab : ~Ahead(row, t, best)
  <2>1. (CHOOSE t \in Vocab : AheadOf(row, t) = {}) = best
    BY RankedAhead
  <2>2. 1 \in 1..Size /\ 1..(1 - 1) = {}
    BY RankBijection
  <2>3. AheadOf(row, best) = {Ranked(row)[j] : j \in 1..(1 - 1)}
    BY <2>2, RankedAhead
  <2> QED
    BY <2>2, <2>3 DEF AheadOf
<1> HIDE DEF best
<1>3. ASSUME NEW t \in Vocab PROVE row[best] - row[t] \in Nat
  BY <1>1, <1>2 DEF Ahead
<1>4. \A t \in Vocab : Weight(config, row[best] - row[t]) \in Nat
  BY <1>3, WeightType
<1>5. row[best] - row[best] = 0
  BY <1>1
<1>6. Weight(config, 0) > 0
  BY WeightType
<1> QED
  BY <1>1, <1>4, <1>5, <1>6 DEF RawWeight, best

\* The weights of the kept tokens.
LEMMA WeightsProperties ==
  ASSUME NEW row \in [Vocab -> Int], config \in Configs, config.temperature # 0
  PROVE  /\ Kept(config) \in 1..Size
         /\ Weights(row, Ranked(row), config) \in [1..Kept(config) -> Nat]
         /\ Len(Weights(row, Ranked(row), config)) = Kept(config)
         /\ \A i \in 1..Kept(config) :
              Weights(row, Ranked(row), config)[i] = RawWeight(row)[Ranked(row)[i]]
         /\ Weights(row, Ranked(row), config)[1] > 0
         /\ \A i \in 1..Size : i <= Kept(config) <=> (config.top_k > 0 => i - 1 < config.top_k)
<1> DEFINE w == Weights(row, Ranked(row), config)
           k == Kept(config)
<1>1. Size \in Nat /\ Size > 0 /\ config.top_k \in Nat
  BY RankBijection, LawAssumption
<1>2. k = IF config.top_k = 0 \/ config.top_k > Size THEN Size ELSE config.top_k
  BY DEF Kept, Size
<1>3. k \in 1..Size /\ \A i \in 1..Size : i <= k <=> (config.top_k > 0 => i - 1 < config.top_k)
  BY <1>1, <1>2
<1>4. w = [i \in 1..k |-> Weight(config, row[Ranked(row)[1]] - row[Ranked(row)[i]])]
  BY DEF Weights
<1> HIDE DEF k, w
<1>5. \A i \in 1..k : i \in 1..Size /\ Ranked(row)[i] \in Vocab
  <2>1. \A i \in 1..k : i \in 1..Size
    BY <1>1, <1>3
  <2> QED
    BY <2>1, RankedProperties
<1>6. \A i \in 1..k : w[i] = RawWeight(row)[Ranked(row)[i]]
  BY <1>4, <1>5 DEF RawWeight
<1>7. \A i \in 1..k : w[i] \in Nat
  BY <1>5, <1>6, RawWeightType
<1>8. w \in [1..k -> Nat]
  BY <1>4, <1>7
<1>9. Len(w) = k
  BY <1>3, <1>8, <1>1
<1>10. 1 \in 1..k /\ w[1] > 0
  <2>1. 1 \in 1..k
    BY <1>3, <1>1
  <2> QED
    BY <2>1, <1>6, RawWeightType
<1> QED
  BY <1>3, <1>6, <1>8, <1>9, <1>10 DEF k, w

\* Running sums of numbers.
LEMMA SumToProperties ==
  ASSUME NEW n \in Nat, NEW w \in [1..n -> Nat]
  PROVE  /\ \A i \in 0..n : SumTo(w, i) \in Nat
         /\ SumTo(w, 0) = 0
         /\ \A i \in 1..n : SumTo(w, i) = SumTo(w, i - 1) + w[i]
         /\ \A i, j \in 0..n : i <= j => SumTo(w, i) <= SumTo(w, j)
<1>1. \A i \in 0..n : IsFiniteSet(1..i) /\ \A x \in 1..i : w[x] \in Nat /\ w[x] \in Int
  <2>1. \A i \in 0..n : \A x \in 1..i : w[x] \in Nat /\ w[x] \in Int
    OBVIOUS
  <2>2. \A i \in 0..n : 1 \in Int /\ i \in Int
    OBVIOUS
  <2>3. \A i \in 0..n : IsFiniteSet(1..i)
    BY <2>2, FS_Interval
  <2> QED
    BY <2>1, <2>3
<1>2. ASSUME NEW i \in 0..n PROVE SumTo(w, i) \in Nat
  BY <1>1, SumGrows DEF SumTo
<1>3. SumTo(w, 0) = 0
  <2>1. 1..0 = {}
    OBVIOUS
  <2> QED
    BY <2>1, SumEmpty DEF SumTo
<1>4. ASSUME NEW i \in 1..n PROVE SumTo(w, i) = SumTo(w, i - 1) + w[i]
  <2>1. i \in 0..n /\ i \in 1..i /\ (1..i) \ {i} = 1..(i - 1)
    OBVIOUS
  <2>2. SumFunctionOnSet(w, 1..i) = w[i] + SumFunctionOnSet(w, (1..i) \ {i})
    BY <2>1, <1>1, SumWithout
  <2>3. i - 1 \in 0..n /\ w[i] \in Nat
    OBVIOUS
  <2>4. SumTo(w, i) = w[i] + SumTo(w, i - 1)
    BY <2>1, <2>2 DEF SumTo
  <2>5. SumTo(w, i - 1) \in Nat
    BY <2>3, <1>2
  <2> QED
    BY <2>3, <2>4, <2>5
<1>5. ASSUME NEW i \in 0..n, NEW j \in 0..n, i <= j
      PROVE  SumTo(w, i) <= SumTo(w, j)
  <2>1. 1..i \subseteq 1..j
    BY <1>5
  <2> QED
    BY <2>1, <1>1, SumGrows DEF SumTo
<1> QED
  BY <1>2, <1>3, <1>4, <1>5

\* The nucleus is the tokens whose predecessors have not yet the share top_p.
LEMMA NucleusProperties ==
  ASSUME config \in Configs, NEW k \in Nat, k > 0, NEW w \in [1..k -> Nat], w[1] > 0, Len(w) = k
  PROVE  /\ Nucleus(w, config) \in 1..k
         /\ \A i \in 1..k :
              i <= Nucleus(w, config)
                <=> SumTo(w, i - 1) * config.top_p[2] < SumTo(w, k) * config.top_p[1]
<1> DEFINE a == config.top_p[1]
           b == config.top_p[2]
           reached == {i \in 1..k : SumTo(w, i) * b >= SumTo(w, k) * a}
           n == Nucleus(w, config)
<1>1. a \in Nat /\ b \in Nat /\ 0 < a /\ a <= b
  BY LawAssumption
<1>2. n = IF reached = {} THEN k ELSE Min(reached)
  BY DEF Nucleus
<1> HIDE DEF n, a, b
<1>3. /\ \A i \in 0..k : SumTo(w, i) \in Nat
      /\ SumTo(w, 0) = 0
      /\ \A i \in 1..k : SumTo(w, i) = SumTo(w, i - 1) + w[i]
      /\ \A i, j \in 0..k : i <= j => SumTo(w, i) <= SumTo(w, j)
  BY SumToProperties
<1>4. SumTo(w, k) > 0
  <2>1. 1 \in 1..k /\ 1 \in 0..k /\ k \in 0..k /\ 0 \in 0..k /\ 1 - 1 = 0 /\ 1 <= k
    OBVIOUS
  <2>2. SumTo(w, 1) = SumTo(w, 0) + w[1] /\ w[1] \in Nat
    BY <1>3, <2>1
  <2>3. SumTo(w, 1) <= SumTo(w, k) /\ SumTo(w, k) \in Nat /\ SumTo(w, 1) \in Nat
    BY <1>3, <2>1
  <2> QED
    BY <2>2, <2>3, <1>3
<1>5. k \in reached
  <2>1. k \in 1..k /\ k \in 0..k
    OBVIOUS
  <2>2. \A s \in Nat : s * b >= s * a
    BY <1>1
  <2> QED
    BY <2>1, <2>2, <1>3
<1>6. n \in reached /\ \A i \in reached : n <= i
  <2>1. reached \in SUBSET Nat
    OBVIOUS
  <2> HIDE DEF reached
  <2> QED
    BY <1>2, <1>5, <2>1, MinProperties
<1>7. n \in 1..k /\ n \in 0..k /\ SumTo(w, n) * b >= SumTo(w, k) * a
  BY <1>6
<1>8. ASSUME NEW i \in 1..k
      PROVE  i <= n <=> SumTo(w, i - 1) * b < SumTo(w, k) * a
  <2>1. i - 1 \in 0..k /\ k \in 0..k
    OBVIOUS
  <2>2. SumTo(w, i - 1) \in Nat /\ SumTo(w, k) \in Nat /\ SumTo(w, n) \in Nat
    BY <1>3, <1>7, <2>1
  <2>3. SumTo(w, i - 1) * b \in Nat /\ SumTo(w, k) * a \in Nat /\ SumTo(w, n) * b \in Nat
    BY <2>2, <1>1
  <2>4. CASE i <= n
    <3>1. CASE i = 1
      <4>1. SumTo(w, i - 1) * b = 0
        BY <3>1, <1>3, <1>1
      <4>2. SumTo(w, k) * a > 0
        BY <1>4, <1>1, <2>2
      <4> QED
        BY <4>1, <4>2, <2>4
    <3>2. CASE i # 1
      <4>1. i - 1 \in 1..k /\ ~(n <= i - 1)
        BY <3>2, <2>4, <1>7
      <4>2. i - 1 \notin reached
        BY <4>1, <1>6
      <4>3. ~(SumTo(w, i - 1) * b >= SumTo(w, k) * a)
        BY <4>1, <4>2
      <4> QED
        BY <4>3, <2>3, <2>4
    <3> QED
      BY <3>1, <3>2
  <2>5. CASE ~(i <= n)
    <3>1. n <= i - 1
      BY <2>5, <1>7
    <3>2. SumTo(w, n) <= SumTo(w, i - 1)
      BY <3>1, <2>1, <1>3, <1>7
    <3>3. SumTo(w, n) * b <= SumTo(w, i - 1) * b
      BY <3>2, <2>2, <1>1
    <3> QED
      BY <3>3, <2>3, <2>5, <1>7
  <2> QED
    BY <2>4, <2>5
<1> QED
  BY <1>7, <1>8 DEF n, a, b

----------------------------------------------------------------------------
\* The law of a row, place by place.

\* The list and weights that both samplers work with, and their nucleus.
ListOf(row)    == Ranked(row)
WeightsOf(row) == Weights(row, Ranked(row), config)
NucleusOf(row) == Nucleus(WeightsOf(row), config)

\* What is known of them.
LEMMA CutProperties ==
  ASSUME NEW row \in [Vocab -> Int], config \in Configs, config.temperature # 0
  PROVE  /\ Size \in Nat /\ Kept(config) \in 1..Size /\ NucleusOf(row) \in 1..Kept(config)
         /\ ListOf(row) \in [1..Size -> Vocab]
         /\ \A i, j \in 1..Size : ListOf(row)[i] = ListOf(row)[j] => i = j
         /\ \A t \in Vocab : \E i \in 1..Size : ListOf(row)[i] = t
         /\ WeightsOf(row) \in [1..Kept(config) -> Nat]
         /\ WeightsOf(row)[1] > 0
         /\ \A i \in 1..Kept(config) : WeightsOf(row)[i] = RawWeight(row)[ListOf(row)[i]]
<1>1. Size \in Nat /\ Kept(config) \in 1..Size
  BY RankBijection, WeightsProperties
<1>2. Kept(config) \in Nat /\ Kept(config) > 0
  BY <1>1
<1>3. /\ WeightsOf(row) \in [1..Kept(config) -> Nat]
      /\ Len(WeightsOf(row)) = Kept(config)
      /\ WeightsOf(row)[1] > 0
      /\ \A i \in 1..Kept(config) : WeightsOf(row)[i] = RawWeight(row)[ListOf(row)[i]]
  BY WeightsProperties DEF WeightsOf, ListOf
<1>4. NucleusOf(row) \in 1..Kept(config)
  BY <1>2, <1>3, NucleusProperties DEF NucleusOf
<1>5. /\ ListOf(row) \in [1..Size -> Vocab]
      /\ \A i, j \in 1..Size : ListOf(row)[i] = ListOf(row)[j] => i = j
      /\ \A t \in Vocab : \E i \in 1..Size : ListOf(row)[i] = t
  BY RankedProperties DEF ListOf
<1> QED
  BY <1>1, <1>3, <1>4, <1>5

\* The law by places: the weights of the nucleus, and nothing behind it.
LEMMA LawByPlace ==
  ASSUME NEW row \in [Vocab -> Int], config \in Configs, config.temperature # 0,
         NEW i \in 1..Size
  PROVE  LawOf(row)[ListOf(row)[i]] = IF i <= NucleusOf(row) THEN WeightsOf(row)[i] ELSE 0
<1> DEFINE r == ListOf(row)
           w == WeightsOf(row)
           k == Kept(config)
           n == NucleusOf(row)
           a == config.top_p[1]
           b == config.top_p[2]
           top == CHOOSE t \in Vocab : AheadOf(row, t) = {}
           kept == {t \in Vocab :
                      config.top_k > 0 => Cardinality(AheadOf(row, t)) < config.top_k}
           weight == [t \in Vocab |-> Weight(config, row[top] - row[t])]
           mass(S) == SumFunctionOnSet(weight, S)
           stays(t) == t \in kept /\ mass(AheadOf(row, t)) * b < mass(kept) * a
<1>1. /\ Size \in Nat /\ k \in 1..Size /\ n \in 1..k
      /\ r \in [1..Size -> Vocab]
      /\ \A g, h \in 1..Size : r[g] = r[h] => g = h
      /\ \A t \in Vocab : \E h \in 1..Size : r[h] = t
      /\ w \in [1..k -> Nat]
      /\ \A h \in 1..k : w[h] = RawWeight(row)[r[h]]
  BY CutProperties
<1>2. LawOf(row)[r[i]] = IF stays(r[i]) THEN weight[r[i]] ELSE 0
  BY <1>1 DEF LawOf
<1>3. weight = RawWeight(row)
  <2>1. top = Ranked(row)[1]
    BY RankedAhead
  <2> HIDE DEF top
  <2> QED
    BY <2>1 DEF RawWeight
<1>4. \A h \in 1..Size : r[h] \in kept <=> h <= k
  <2>1. \A h \in 1..Size : Cardinality(AheadOf(row, r[h])) = h - 1
    BY RankedProperties DEF ListOf
  <2>2. \A h \in 1..Size : h <= k <=> (config.top_k > 0 => h - 1 < config.top_k)
    BY WeightsProperties
  <2> QED
    BY <2>1, <2>2, <1>1
<1>5. kept = {r[h] : h \in 1..k}
  <2>1. \A h \in 1..k : h \in 1..Size /\ h <= k
    BY <1>1
  <2>2. \A h \in 1..Size : h <= k => h \in 1..k
    BY <1>1
  <2>3. \A h \in 1..k : r[h] \in kept
    BY <2>1, <1>4
  <2>4. \A t \in kept : \E h \in 1..k : r[h] = t
    <3> SUFFICES ASSUME NEW t \in kept PROVE \E h \in 1..k : r[h] = t
      OBVIOUS
    <3>1. PICK h \in 1..Size : r[h] = t
      BY <1>1
    <3> QED
      BY <3>1, <1>4, <2>2
  <2> HIDE DEF kept, r, k
  <2> QED
    BY <2>3, <2>4
<1>6. \A h \in 1..Size : AheadOf(row, r[h]) = {r[j] : j \in 1..(h - 1)}
  BY RankedAhead DEF ListOf
<1>7. \A h \in 0..k : mass({r[j] : j \in 1..h}) = SumTo(w, h)
  <2> DEFINE e == [j \in 1..k |-> r[j]]
             f == RawWeight(row)
  <2>1. k \in Nat /\ \A j \in 1..k : j \in 1..Size
    BY <1>1
  <2>2. \A g, h \in 1..k : e[g] = e[h] => g = h
    BY <1>1, <2>1
  <2>3. \A j \in 1..k : f[e[j]] \in Int
    BY <1>1, <2>1, RawWeightType
  <2>6. \A j \in 1..k : w[j] = f[e[j]]
    BY <1>1, <2>1
  <2>4. \A h \in 0..k : {r[j] : j \in 1..h} = Firsts(e, h)
    <3>1. \A h \in 0..k : \A j \in 1..h : e[j] = r[j]
      BY <2>1
    <3> HIDE DEF e, r
    <3> QED
      BY <3>1 DEF Firsts
  <2> HIDE DEF e, f, r, w, k
  <2>5. \A h \in 0..k : SumFunctionOnSet(f, Firsts(e, h)) = SumFunctionOnSet(w, 1..h)
    BY <2>1, <2>2, <2>3, <2>6, SumNumbered
  <2>7. f = weight
    BY <1>3 DEF f
  <2> HIDE DEF weight
  <2> QED
    BY <2>4, <2>5, <2>7 DEF SumTo
<1>8. mass(kept) = SumTo(w, k)
  <2>1. k \in 0..k
    BY <1>1
  <2> HIDE DEF mass, kept
  <2> QED
    BY <2>1, <1>5, <1>7
<1>9. \A h \in 1..k : mass(AheadOf(row, r[h])) = SumTo(w, h - 1)
  <2>1. \A h \in 1..k : h \in 1..Size /\ h - 1 \in 0..k
    BY <1>1
  <2> HIDE DEF mass
  <2> QED
    BY <2>1, <1>6, <1>7
<1>10. \A h \in 1..k : h <= n <=> SumTo(w, h - 1) * b < SumTo(w, k) * a
  <2>1. k \in Nat /\ k > 0 /\ Len(w) = k /\ w[1] > 0
    BY <1>1, WeightsProperties DEF WeightsOf
  <2> QED
    BY <2>1, <1>1, NucleusProperties DEF NucleusOf
<1>11. i \in Nat /\ k \in Nat /\ n \in Nat /\ n <= k
  BY <1>1
<1>12. stays(r[i]) <=> i <= n
  <2> HIDE DEF mass, kept, r, n, k, a, b, w
  <2>1. CASE i <= k
    <3>1. i \in 1..k
      BY <2>1, <1>11
    <3>2. mass(AheadOf(row, r[i])) = SumTo(w, i - 1) /\ r[i] \in kept
      BY <3>1, <2>1, <1>9, <1>4
    <3> QED
      BY <3>1, <3>2, <1>8, <1>10
  <2>2. CASE ~(i <= k)
    BY <2>2, <1>4, <1>11
  <2> QED
    BY <2>1, <2>2
<1>13. i <= n => weight[r[i]] = w[i]
  <2>1. i <= n => i \in 1..k
    BY <1>11
  <2> HIDE DEF weight, r, w, n, k
  <2> QED
    BY <2>1, <1>1, <1>3
<1> HIDE DEF stays, weight, r, w, n, k
<1>14. LawOf(row)[r[i]] = IF i <= n THEN w[i] ELSE 0
  BY <1>2, <1>12, <1>13
<1> QED
  BY <1>14 DEF r, n, w

\* The law is numbers, and its running sums over the list are those of the
\* weights.
LEMMA LawSums ==
  ASSUME NEW row \in [Vocab -> Int], config \in Configs, config.temperature # 0
  PROVE  /\ LawOf(row) \in [Vocab -> Nat]
         /\ \A i \in 0..NucleusOf(row) :
              SumFunctionOnSet(LawOf(row), Firsts(ListOf(row), i)) = SumTo(WeightsOf(row), i)
         /\ SumFunction(LawOf(row)) = SumTo(WeightsOf(row), NucleusOf(row))
         /\ SumTo(WeightsOf(row), NucleusOf(row)) \in Nat \ {0}
<1> DEFINE r == ListOf(row)
           w == WeightsOf(row)
           n == NucleusOf(row)
           law == LawOf(row)
<1>1. /\ Size \in Nat /\ n \in Nat /\ n > 0 /\ n <= Size
      /\ Kept(config) \in Nat /\ n <= Kept(config)
      /\ \A i \in 1..n : i \in 1..Kept(config)
      /\ \A i \in 1..n : i \in 1..Size /\ i <= n
  BY CutProperties
<1>2. /\ r \in [1..Size -> Vocab]
      /\ \A i, j \in 1..Size : r[i] = r[j] => i = j
      /\ \A t \in Vocab : \E i \in 1..Size : r[i] = t
      /\ w \in [1..Kept(config) -> Nat]
      /\ w[1] > 0
  BY CutProperties
<1>3. \A i \in 1..Size : law[r[i]] = IF i <= n THEN w[i] ELSE 0
  BY LawByPlace
<1>4. law = [t \in Vocab |-> law[t]]
  <2> DEFINE top == CHOOSE t \in Vocab : AheadOf(row, t) = {}
             kept == {t \in Vocab :
                        config.top_k > 0 => Cardinality(AheadOf(row, t)) < config.top_k}
             weight == [t \in Vocab |-> Weight(config, row[top] - row[t])]
             mass(S) == SumFunctionOnSet(weight, S)
             stays(t) == /\ t \in kept
                         /\ mass(AheadOf(row, t)) * config.top_p[2]
                              < mass(kept) * config.top_p[1]
             value(t) == IF config.temperature = 0 THEN (IF t = top THEN 1 ELSE 0)
                         ELSE IF stays(t) THEN weight[t] ELSE 0
  <2>1. law = [t \in Vocab |-> value(t)]
    BY DEF LawOf
  <2> HIDE DEF value, law
  <2> QED
    BY <2>1
<1> HIDE DEF r, w, n, law
<1>5. \A i \in 1..Size : law[r[i]] \in Nat
  <2>1. \A i \in 1..Size : i <= n => i \in 1..Kept(config)
    BY <1>1
  <2>2. \A i \in 1..Size : i <= n => w[i] \in Nat
    BY <2>1, <1>2
  <2> QED
    BY <2>2, <1>3
<1>6. \A t \in Vocab : law[t] \in Nat
  BY <1>2, <1>5
<1>7. law \in [Vocab -> Nat]
  BY <1>4, <1>6
<1>8. \A i \in 0..n : SumFunctionOnSet(law, Firsts(r, i)) = SumTo(w, i)
  <2>1. \A i, j \in 1..n : r[i] = r[j] => i = j
    BY <1>1, <1>2
  <2>2. \A i \in 1..n : law[r[i]] \in Int
    BY <1>1, <1>5
  <2>3. \A i \in 1..n : w[i] = law[r[i]]
    BY <1>1, <1>3
  <2>4. \A i \in 0..n : SumFunctionOnSet(law, Firsts(r, i)) = SumFunctionOnSet(w, 1..i)
    BY <1>1, <2>1, <2>2, <2>3, SumNumbered
  <2> QED
    BY <2>4 DEF SumTo
<1>9. SumFunction(law) = SumTo(w, n)
  <2>1. DOMAIN law = Vocab
    BY <1>7
  <2>2. Firsts(r, n) \subseteq Vocab
    BY <1>1, <1>2 DEF Firsts
  <2>3. \A t \in Vocab \ Firsts(r, n) : law[t] = 0
    <3> SUFFICES ASSUME NEW t \in Vocab \ Firsts(r, n) PROVE law[t] = 0
      OBVIOUS
    <3>1. PICK i \in 1..Size : r[i] = t
      BY <1>2
    <3>2. i \notin 1..n
      BY <3>1 DEF Firsts
    <3>3. ~(i <= n)
      BY <3>2, <1>1
    <3> QED
      BY <3>1, <3>3, <1>3
  <2>4. \A t \in Vocab : law[t] \in Int
    BY <1>7
  <2>5. SumFunctionOnSet(law, Vocab) = SumFunctionOnSet(law, Firsts(r, n))
    BY <2>2, <2>3, <2>4, SamplingAssumption, SumSupport
  <2>6. n \in 0..n
    BY <1>1
  <2> QED
    BY <2>1, <2>5, <2>6, <1>8 DEF SumFunction
<1>10. SumTo(w, n) \in Nat \ {0}
  <2>1. Kept(config) \in Nat /\ n \in 0..Kept(config) /\ 1 \in 0..Kept(config)
        /\ 0 \in 0..Kept(config) /\ 1 \in 1..Kept(config) /\ 1 <= n /\ 1 - 1 = 0
    BY <1>1
  <2> DEFINE k == Kept(config)
  <2>4. /\ \A i \in 0..k : SumTo(w, i) \in Nat
        /\ SumTo(w, 0) = 0
        /\ \A i \in 1..k : SumTo(w, i) = SumTo(w, i - 1) + w[i]
        /\ \A i, j \in 0..k : i <= j => SumTo(w, i) <= SumTo(w, j)
    BY <2>1, <1>2, SumToProperties
  <2>2. /\ SumTo(w, n) \in Nat /\ SumTo(w, 1) \in Nat
        /\ SumTo(w, 0) = 0
        /\ SumTo(w, 1) = SumTo(w, 1 - 1) + w[1]
        /\ SumTo(w, 1) <= SumTo(w, n)
    BY <2>1, <2>4
  <2>3. w[1] \in Nat
    BY <2>1, <1>2
  <2> QED
    BY <2>1, <2>2, <2>3, <1>2
<1> QED
  BY <1>7, <1>8, <1>9, <1>10 DEF r, w, n, law

\* At temperature zero the likeliest token has the whole law.
LEMMA GreedyLaw ==
  ASSUME NEW row \in [Vocab -> Int], config \in Configs, config.temperature = 0
  PROVE  /\ LawOf(row) = [t \in Vocab |-> IF t = Ranked(row)[1] THEN 1 ELSE 0]
         /\ Ranked(row)[1] \in Vocab
         /\ LawOf(row) \in [Vocab -> Nat]
         /\ SumFunction(LawOf(row)) = 1
         /\ \A S \in SUBSET Vocab :
              Ranked(row)[1] \in S => SumFunctionOnSet(LawOf(row), S) = 1
<1> DEFINE top == Ranked(row)[1]
           law == LawOf(row)
<1>1. top \in Vocab
  BY RankedProperties, RankBijection
<1>2. (CHOOSE t \in Vocab : AheadOf(row, t) = {}) = top
  BY RankedAhead
<1>3. law = [t \in Vocab |-> IF t = top THEN 1 ELSE 0]
  <2> HIDE DEF top
  <2> QED
    BY <1>2 DEF LawOf
<1> HIDE DEF top, law
<1>4. law \in [Vocab -> Nat]
  BY <1>3
<1>5. ASSUME NEW S \in SUBSET Vocab, top \in S
      PROVE  SumFunctionOnSet(law, S) = 1
  <2>1. \A t \in S : law[t] \in Int
    BY <1>4
  <2>2. IsFiniteSet(S) /\ IsFiniteSet({top}) /\ {top} \subseteq S
    BY <1>5, SamplingAssumption, FS_Subset, FS_Singleton
  <2>3. \A t \in S \ {top} : law[t] = 0
    BY <1>3
  <2>4. SumFunctionOnSet(law, S) = SumFunctionOnSet(law, {top})
    BY <2>1, <2>2, <2>3, SumSupport
  <2>5. {top} \ {top} = {} /\ top \in {top} /\ law[top] = 1 /\ \A t \in {top} : law[t] \in Int
    BY <1>1, <1>3
  <2>6. SumFunctionOnSet(law, {top}) = law[top] + SumFunctionOnSet(law, {top} \ {top})
    BY <2>2, <2>5, SumWithout
  <2>7. SumFunctionOnSet(law, {}) = 0
    BY SumEmpty
  <2>8. SumFunctionOnSet(law, {top} \ {top}) = 0
    BY <2>5, <2>7
  <2> QED
    BY <2>4, <2>5, <2>6, <2>8
<1>6. SumFunction(law) = 1
  BY <1>1, <1>4, <1>5 DEF SumFunction
<1> QED
  BY <1>1, <1>3, <1>4, <1>5, <1>6 DEF top, law

\* The distribution of a row has the row's law for weights and their sum for
\* its total.
LEMMA FromLogitsIsLaw ==
  ASSUME NEW row \in [Vocab -> Int], config \in Configs
  PROVE  /\ FromLogits(row, config).weights = LawOf(row)
         /\ LawOf(row) \in [Vocab -> Nat]
         /\ FromLogits(row, config).total = SumFunction(LawOf(row))
         /\ FromLogits(row, config).total \in Nat \ {0}
<1> DEFINE law == LawOf(row)
           d == FromLogits(row, config)
<1>1. CASE config.temperature = 0
  <2>1. /\ d.weights = [t \in Vocab |-> IF t = Ranked(row)[1] THEN 1 ELSE 0]
        /\ d.total = 1
    BY <1>1 DEF FromLogits
  <2> HIDE DEF law, d
  <2> QED
    BY <1>1, <2>1, GreedyLaw DEF law, d
<1>2. CASE config.temperature # 0
  <2> DEFINE r == ListOf(row)
             w == WeightsOf(row)
             n == NucleusOf(row)
             kept == [i \in 1..n |-> r[i]]
  <2>1. /\ d.weights = [t \in Vocab |-> IF t \in Range(kept) THEN w[AntiFunction(kept)[t]] ELSE 0]
        /\ d.total = SumTo(w, n)
    BY <1>2 DEF FromLogits, ListOf, WeightsOf, NucleusOf
  <2>2. /\ n \in Nat /\ Size \in Nat
        /\ \A i \in 1..n : i \in 1..Size /\ i <= n
        /\ \A i \in 1..Size : i <= n => i \in 1..n
        /\ r \in [1..Size -> Vocab]
        /\ \A i, j \in 1..Size : r[i] = r[j] => i = j
        /\ \A t \in Vocab : \E i \in 1..Size : r[i] = t
    BY <1>2, CutProperties
  <2>3. \A i \in 1..Size : law[r[i]] = IF i <= n THEN w[i] ELSE 0
    BY <1>2, LawByPlace
  <2>4. /\ law \in [Vocab -> Nat]
        /\ SumFunction(law) = SumTo(w, n)
        /\ SumTo(w, n) \in Nat \ {0}
    BY <1>2, LawSums
  <2> HIDE DEF law, d, r, w, n
  <2>5. ASSUME NEW i \in 1..n PROVE r[i] \in Range(kept) /\ AntiFunction(kept)[r[i]] = i
    <3>1. r[i] \in Range(kept)
      BY <2>2 DEF Range
    <3>2. DOMAIN kept = 1..n /\ kept[i] = r[i] /\ \A j \in 1..n : kept[j] = r[i] => j = i
      BY <2>2
    <3>3. AntiFunction(kept)[r[i]]
            = CHOOSE s \in DOMAIN kept : r[i] \in Range(kept) => kept[s] = r[i]
      BY <3>1 DEF AntiFunction, Inverse
    <3> HIDE DEF kept
    <3> QED
      BY <3>1, <3>2, <3>3
  <2>6. ASSUME NEW i \in 1..Size, i \notin 1..n PROVE r[i] \notin Range(kept)
    BY <2>2, <2>6 DEF Range
  <2>7. ASSUME NEW t \in Vocab
        PROVE  (IF t \in Range(kept) THEN w[AntiFunction(kept)[t]] ELSE 0) = law[t]
    <3>1. PICK i \in 1..Size : r[i] = t
      BY <2>2
    <3> HIDE DEF kept
    <3>2. CASE i \in 1..n
      BY <3>1, <3>2, <2>2, <2>3, <2>5
    <3>3. CASE i \notin 1..n
      BY <3>1, <3>3, <2>2, <2>3, <2>6
    <3> QED
      BY <3>2, <3>3
  <2>8. d.weights = law
    <3> HIDE DEF kept
    <3> QED
      BY <2>1, <2>4, <2>7
  <2> QED
    BY <2>1, <2>4, <2>8 DEF law, d
<1> QED
  BY <1>1, <1>2

----------------------------------------------------------------------------
\* Accept or correct.

\* Of a token's target mass, what is accepted and what the residual holds.
LEMMA ResidualParts ==
  ASSUME NEW p \in [Vocab -> Nat], NEW q \in [Vocab -> Nat]
  PROVE  /\ Residual(p, q) \in [Vocab -> Nat]
         /\ \A t \in Vocab : /\ AcceptMass(p, q, t) \in Nat
                             /\ RejectMass(p, q, t) \in Nat
                             /\ AcceptMass(p, q, t) + Residual(p, q)[t] = p[t]
                             /\ AcceptMass(p, q, t) + RejectMass(p, q, t) = q[t]
<1>1. \A t \in Vocab : p[t] \in Nat /\ q[t] \in Nat
  OBVIOUS
<1>5. \A x, y \in Nat : /\ Smaller(x, y) \in Nat
                       /\ y - Smaller(x, y) \in Nat
                       /\ Smaller(x, y) + (y - Smaller(x, y)) = y
                       /\ (IF x > y THEN x - y ELSE 0) \in Nat
                       /\ Smaller(x, y) + (IF x > y THEN x - y ELSE 0) = x
  BY DEF Smaller
<1>2. \A t \in Vocab : /\ AcceptMass(p, q, t) \in Nat
                       /\ RejectMass(p, q, t) \in Nat
                       /\ AcceptMass(p, q, t) + RejectMass(p, q, t) = q[t]
  BY <1>1, <1>5 DEF AcceptMass, RejectMass
<1>3. \A t \in Vocab : /\ Residual(p, q)[t] \in Nat
                       /\ AcceptMass(p, q, t) + Residual(p, q)[t] = p[t]
  BY <1>1, <1>5 DEF AcceptMass, Residual
<1>4. Residual(p, q) \in [Vocab -> Nat]
  BY <1>3 DEF Residual
<1> QED
  BY <1>2, <1>3, <1>4

\* Two laws of one total: what is rejected is as much as the residual holds.
LEMMA ResidualMass ==
  ASSUME NEW p \in [Vocab -> Nat], NEW q \in [Vocab -> Nat], SumFunction(p) = SumFunction(q)
  PROVE  /\ SumFunction(Residual(p, q)) \in Nat
         /\ SumFunction(Residual(p, q)) = SumFunction([t \in Vocab |-> RejectMass(p, q, t)])
         /\ \A t \in Vocab : Residual(p, q)[t] <= SumFunction(Residual(p, q))
         /\ \A t \in Vocab : RejectMass(p, q, t) <= SumFunction(Residual(p, q))
<1> DEFINE accept == [t \in Vocab |-> AcceptMass(p, q, t)]
           reject == [t \in Vocab |-> RejectMass(p, q, t)]
           rest   == Residual(p, q)
           Total(f) == SumFunctionOnSet(f, Vocab)
<1>1. /\ accept \in [Vocab -> Nat] /\ reject \in [Vocab -> Nat] /\ rest \in [Vocab -> Nat]
      /\ \A t \in Vocab : p[t] = accept[t] + rest[t] /\ q[t] = accept[t] + reject[t]
      /\ \A t \in Vocab : reject[t] = RejectMass(p, q, t)
  BY ResidualParts
<1>2. /\ SumFunction(p) = Total(p) /\ SumFunction(q) = Total(q)
      /\ SumFunction(rest) = Total(rest) /\ SumFunction(reject) = Total(reject)
  BY <1>1 DEF SumFunction
<1> HIDE DEF accept, reject, rest
<1>3. /\ \A t \in Vocab : accept[t] \in Int /\ rest[t] \in Int
      /\ \A t \in Vocab : accept[t] \in Int /\ reject[t] \in Int
      /\ \A t \in Vocab : rest[t] \in Nat /\ reject[t] \in Nat
  BY <1>1
<1>4. IsFiniteSet(Vocab)
  BY SamplingAssumption
<1>5. Total(p) = Total(accept) + Total(rest)
  BY <1>1, <1>3, <1>4, SumPlus
<1>6. Total(q) = Total(accept) + Total(reject)
  BY <1>1, <1>3, <1>4, SumPlus
<1>7. Total(accept) \in Int
  BY <1>3, <1>4, SumType
<1>8. Total(rest) \in Nat /\ Total(reject) \in Nat
  BY <1>3, <1>4, SumGrows
<1>9. \A t \in Vocab : rest[t] <= Total(rest)
  BY <1>3, <1>4, SumBounds
<1>10. \A t \in Vocab : reject[t] <= Total(reject)
  BY <1>3, <1>4, SumBounds
<1>11. Total(rest) = Total(reject)
  <2>1. Total(accept) + Total(rest) = Total(accept) + Total(reject)
    BY <1>2, <1>5, <1>6
  <2>2. \A x \in Int : \A y, z \in Nat : x + y = x + z => y = z
    OBVIOUS
  <2> HIDE DEF Total
  <2> QED
    BY <2>1, <2>2, <1>7, <1>8
<1> HIDE DEF Total
<1> QED
  BY <1>1, <1>2, <1>8, <1>9, <1>10, <1>11 DEF rest, reject

\* A number other than zero, for the residual's mass.
Positively(r) == IF r = 0 THEN 1 ELSE r

\* Accepted or drawn from the residual, a token has its target mass.
LEMMA AcceptOrCorrect ==
  ASSUME NEW p \in [Vocab -> Nat], NEW q \in [Vocab -> Nat], SumFunction(p) = SumFunction(q),
         NEW t \in Vocab
  PROVE  AcceptMass(p, q, t) * Positively(SumFunction(Residual(p, q)))
           + SumFunction([u \in Vocab |-> RejectMass(p, q, u)]) * Residual(p, q)[t]
         = p[t] * Positively(SumFunction(Residual(p, q)))
<1> DEFINE a == AcceptMass(p, q, t)
           e == Residual(p, q)[t]
           r == SumFunction(Residual(p, q))
           lost == SumFunction([u \in Vocab |-> RejectMass(p, q, u)])
<1>1. a \in Nat /\ e \in Nat /\ a + e = p[t] /\ p[t] \in Nat
  <2>1. /\ AcceptMass(p, q, t) \in Nat
        /\ Residual(p, q) \in [Vocab -> Nat]
        /\ AcceptMass(p, q, t) + Residual(p, q)[t] = p[t]
    BY ResidualParts, ZenonT(30)
  <2> QED
    BY <2>1
<1>2. r \in Nat /\ lost = r /\ e <= r
  BY ResidualMass
<1> HIDE DEF a, e, r, lost
<1>3. CASE r = 0
  <2>1. e = 0 /\ Positively(r) = 1 /\ lost = 0
    BY <1>1, <1>2, <1>3 DEF Positively
  <2>2. a * 1 + 0 * 0 = p[t] * 1
    BY <1>1, <2>1
  <2> QED
    BY <2>1, <2>2 DEF a, e, r, lost
<1>4. CASE r # 0
  <2>1. Positively(r) = r
    BY <1>4 DEF Positively
  <2>2. a * r + r * e = (a + e) * r
    BY <1>1, <1>2
  <2> QED
    BY <1>1, <1>2, <2>1, <2>2 DEF a, e, r, lost
<1> QED
  BY <1>3, <1>4

\* A law and its total.
WellFormed(d) ==
  /\ d.weights \in [Vocab -> Nat]
  /\ d.total \in Nat \ {0}
  /\ d.total = SumFunction(d.weights)

\* The distribution of a row is one.
LEMMA FromLogitsWellFormed ==
  ASSUME NEW row \in [Vocab -> Int], config \in Configs
  PROVE  WellFormed(FromLogits(row, config)) /\ FromLogits(row, config).weights = LawOf(row)
BY FromLogitsIsLaw DEF WellFormed

\* Scaled by each other's totals, two distributions have one total.
LEMMA ScaledTotals ==
  ASSUME NEW d, NEW e, WellFormed(d), WellFormed(e)
  PROVE  /\ Scaled(d, e) \in [Vocab -> Nat]
         /\ \A t \in Vocab : Scaled(d, e)[t] = d.weights[t] * e.total
         /\ SumFunction(Scaled(d, e)) = d.total * e.total
<1> DEFINE f == d.weights
           c == e.total
           h == Scaled(d, e)
<1>1. f \in [Vocab -> Nat] /\ c \in Nat /\ d.total = SumFunction(f)
  BY DEF WellFormed
<1>2. h = [t \in Vocab |-> f[t] * c]
  BY DEF Scaled
<1> HIDE DEF f, c, h
<1>7. \A x, y \in Nat : x \in Int /\ y \in Int /\ x * y \in Nat
  OBVIOUS
<1>8. \A t \in Vocab : f[t] \in Int /\ f[t] * c \in Nat
  BY <1>1, <1>7
<1>9. \A t \in Vocab : f[t] \in Int /\ h[t] = f[t] * c
  BY <1>2, <1>8
<1>3. \A t \in Vocab : h[t] = f[t] * c /\ h[t] \in Nat
  BY <1>8, <1>9
<1>4. h \in [Vocab -> Nat]
  BY <1>2, <1>3
<1>5. SumFunctionOnSet(h, Vocab) = SumFunctionOnSet(f, Vocab) * c
  <2>1. IsFiniteSet(Vocab) /\ c \in Int
    BY <1>1, <1>7, SamplingAssumption
  <2> QED
    BY <2>1, <1>9, SumTimes, ZenonT(30)
<1>6. SumFunction(h) = SumFunctionOnSet(h, Vocab) /\ SumFunction(f) = SumFunctionOnSet(f, Vocab)
  BY <1>1, <1>4 DEF SumFunction
<1> QED
  BY <1>1, <1>3, <1>4, <1>5, <1>6 DEF f, c, h

\* The target's law at a place, whatever the draft's law d there.
LEMMA PlaceHasLaw ==
  ASSUME NEW w, NEW d, WellFormed(w), WellFormed(d), NEW t \in Vocab
  PROVE  LET p    == Scaled(w, d)
             q    == Scaled(d, w)
             rest == Residual(p, q)
             r    == SumFunction(rest)
             lost == SumFunction([u \in Vocab |-> RejectMass(p, q, u)])
         IN  HasShare(w.weights, t,
                      AcceptMass(p, q, t) * (IF r = 0 THEN 1 ELSE r) + lost * rest[t],
                      SumFunction(p) * (IF r = 0 THEN 1 ELSE r))
<1> DEFINE p == Scaled(w, d)
           q == Scaled(d, w)
           r == SumFunction(Residual(p, q))
           n == AcceptMass(p, q, t) * Positively(r)
                  + SumFunction([u \in Vocab |-> RejectMass(p, q, u)]) * Residual(p, q)[t]
           x == Positively(r)
           a == w.weights[t]
           m == w.total
           k == d.total
<1>1. /\ p \in [Vocab -> Nat] /\ q \in [Vocab -> Nat]
      /\ p[t] = a * k /\ SumFunction(p) = m * k /\ SumFunction(q) = k * m
  BY ScaledTotals
<1>2. a \in Nat /\ m \in Nat /\ k \in Nat /\ SumFunction(w.weights) = m
  BY DEF WellFormed
<1>3. SumFunction(p) = SumFunction(q)
  <2>1. m * k = k * m
    BY <1>2
  <2> QED
    BY <2>1, <1>1
<1>4. n = p[t] * x
  BY <1>1, <1>3, AcceptOrCorrect
<1>5. r \in Nat /\ x \in Nat
  <2>1. r \in Nat
    BY <1>1, <1>3, ResidualMass
  <2> QED
    BY <2>1 DEF Positively
<1> HIDE DEF p, q, r, n, x, a, m, k
<1>6. a * ((m * k) * x) = ((a * k) * x) * m
  <2>1. \A g, h, i, j \in Nat : g * ((h * i) * j) = ((g * i) * j) * h
    OBVIOUS
  <2> QED
    BY <2>1, <1>2, <1>5 DEF k
<1>7. a * (SumFunction(p) * x) = n * m
  BY <1>1, <1>4, <1>6
<1> QED
  BY <1>2, <1>7 DEF HasShare, p, q, r, n, x, a, m, k, Positively

----------------------------------------------------------------------------
\* The penalties.

\* What makes a processor count.
Penalised == options.frequency_penalty # 0 \/ options.presence_penalty # 0

\* The processor of a request that has recorded the tokens h.
ProcessorAt(h) ==
  [options       |-> NewProcessor(options).options,
   counts        |-> [t \in (IF Penalised THEN Range(h) ELSE {}) |-> Occurrences(t, h)],
   has_penalties |-> Penalised]

\* The options are integers, and a processor drops biases of zero.
LEMMA OptionsType ==
  ASSUME options \in Options
  PROVE  /\ options.frequency_penalty \in Int /\ options.presence_penalty \in Int
         /\ options.logit_bias \in [DOMAIN options.logit_bias -> Int]
         /\ NewProcessor(options).options.frequency_penalty = options.frequency_penalty
         /\ NewProcessor(options).options.presence_penalty = options.presence_penalty
         /\ NewProcessor(options).options.logit_bias
              = Restrict(options.logit_bias,
                         {t \in DOMAIN options.logit_bias : options.logit_bias[t] # 0})
<1>1. /\ options \in [frequency_penalty : Int, presence_penalty : Int,
                      logit_bias : {options.logit_bias}]
      /\ options.logit_bias \in [DOMAIN options.logit_bias -> Int]
  BY LawAssumption
<1> QED
  BY <1>1 DEF NewProcessor

\* A count grows by one when its token is appended.
LEMMA OccurrencesGrow ==
  ASSUME NEW h \in Seq(Vocab), NEW t \in Vocab, NEW u
  PROVE  /\ Occurrences(u, h) \in Nat
         /\ u \notin Range(h) => Occurrences(u, h) = 0
         /\ Occurrences(u, Append(h, t)) = Occurrences(u, h) + (IF u = t THEN 1 ELSE 0)
         /\ Range(Append(h, t)) = Range(h) \cup {t}
<1> DEFINE a == Append(h, t)
           n == Len(h)
           P == {i \in DOMAIN h : h[i] = u}
           Q == {i \in DOMAIN a : a[i] = u}
<1>1. n \in Nat /\ DOMAIN h = 1..n
  BY LenProperties
<1>2. DOMAIN a = 1..(n + 1) /\ (\A i \in 1..n : a[i] = h[i]) /\ a[n + 1] = t
  BY AppendProperties, LenProperties
<1> HIDE DEF a, n
<1>3. P \subseteq 1..n /\ IsFiniteSet(1..n)
  <2>1. 1 \in Int /\ n \in Int
    BY <1>1
  <2> QED
    BY <1>1, <2>1, FS_Interval
<1>4. IsFiniteSet(P)
  BY <1>3, FS_Subset
<1>5. n + 1 \notin P /\ Q = IF u = t THEN P \cup {n + 1} ELSE P
  <2>1. \A i \in 1..(n + 1) : i \in 1..n \/ i = n + 1
    BY <1>1
  <2>2. n + 1 \notin 1..n /\ n + 1 \in 1..(n + 1) /\ \A i \in 1..n : i \in 1..(n + 1)
    BY <1>1
  <2> QED
    BY <1>1, <1>2, <2>1, <2>2
<1>6. Cardinality(P) \in Nat
  BY <1>4, FS_CardinalityType
<1>7. Cardinality(P \cup {n + 1}) = Cardinality(P) + 1
  BY <1>4, <1>5, FS_AddElement
<1>8. Cardinality(Q) = Cardinality(P) + (IF u = t THEN 1 ELSE 0)
  <2> HIDE DEF P, Q
  <2> QED
    BY <1>5, <1>6, <1>7
<1>9. u \notin Range(h) => P = {}
  BY DEF Range
<1>10. Cardinality({}) = 0
  BY FS_EmptySet
<1>11. Range(a) = Range(h) \cup {t}
  <2>1. \A i \in 1..(n + 1) : i \in 1..n \/ i = n + 1
    BY <1>1
  <2>2. n + 1 \in 1..(n + 1) /\ \A i \in 1..n : i \in 1..(n + 1)
    BY <1>1
  <2> QED
    BY <1>1, <1>2, <2>1, <2>2 DEF Range
<1>12. Occurrences(u, h) = Cardinality(P) /\ Occurrences(u, a) = Cardinality(Q)
  BY DEF Occurrences
<1> HIDE DEF P, Q
<1> QED
  BY <1>6, <1>8, <1>9, <1>10, <1>11, <1>12 DEF a

\* A new processor has recorded nothing.
LEMMA NewProcessorAt ==
  ASSUME options \in Options
  PROVE  NewProcessor(options) = ProcessorAt(<<>>)
<1>1. Range(<<>>) = {}
  BY DEF Range
<1>2. (IF Penalised THEN Range(<<>>) ELSE {}) = {}
  BY <1>1
<1>3. [t \in {} |-> 0] = [t \in (IF Penalised THEN Range(<<>>) ELSE {}) |-> Occurrences(t, <<>>)]
  BY <1>2
<1> QED
  BY <1>3 DEF NewProcessor, ProcessorAt, Penalised

\* Recording a token appends it.
LEMMA RecordAt ==
  ASSUME NEW h \in Seq(Vocab), NEW t \in Vocab
  PROVE  Record(ProcessorAt(h), t) = ProcessorAt(Append(h, t))
<1> DEFINE c == [u \in (IF Penalised THEN Range(h) ELSE {}) |-> Occurrences(u, h)]
           d == [u \in (IF Penalised THEN Range(Append(h, t)) ELSE {})
                   |-> Occurrences(u, Append(h, t))]
           o == NewProcessor(options).options
<1>1. /\ ProcessorAt(h) = [options |-> o, counts |-> c, has_penalties |-> Penalised]
      /\ ProcessorAt(Append(h, t)) = [options |-> o, counts |-> d, has_penalties |-> Penalised]
  BY DEF ProcessorAt
<1>2. CASE ~Penalised
  <2>1. c = d
    BY <1>2
  <2> HIDE DEF c, d, o
  <2>2. Record(ProcessorAt(h), t) = ProcessorAt(h)
    BY <1>1, <1>2 DEF Record
  <2> QED
    BY <1>1, <2>1, <2>2
<1>3. CASE Penalised
  <2> DEFINE e == [u \in DOMAIN c \cup {t} |->
                     (IF u \in DOMAIN c THEN c[u] ELSE 0) + (IF u = t THEN 1 ELSE 0)]
  <2>1. DOMAIN c = Range(h) /\ \A u \in Range(h) : c[u] = Occurrences(u, h)
    BY <1>3
  <2>2. /\ DOMAIN d = Range(h) \cup {t}
        /\ \A u \in Range(h) \cup {t} : d[u] = Occurrences(u, Append(h, t))
    BY <1>3, OccurrencesGrow
  <2>7. d = [u \in Range(h) \cup {t} |-> Occurrences(u, Append(h, t))]
    BY <1>3, OccurrencesGrow
  <2> HIDE DEF c, d, o
  <2>3. \A u \in Range(h) \cup {t} : e[u] = Occurrences(u, Append(h, t))
    BY <2>1, OccurrencesGrow
  <2>4. e = [u \in Range(h) \cup {t} |-> Occurrences(u, Append(h, t))]
    BY <2>1, <2>3
  <2> HIDE DEF e
  <2>5. Record(ProcessorAt(h), t) = [options |-> o, counts |-> e, has_penalties |-> Penalised]
    <3> DEFINE pr == ProcessorAt(h)
    <3>1. pr.has_penalties /\ pr.counts = c
      BY <1>1, <1>3
    <3>2. Record(pr, t) = [pr EXCEPT !.counts = e]
      <4> HIDE DEF pr
      <4> QED
        BY <3>1 DEF Record, e
    <3>3. [pr EXCEPT !.counts = e] = [options |-> o, counts |-> e, has_penalties |-> Penalised]
      BY <1>1
    <3> QED
      BY <3>2, <3>3
  <2> QED
    BY <1>1, <2>4, <2>5, <2>7
<1> QED
  BY <1>2, <1>3

\* A history with one more draft.
LEMMA AppendToConcat ==
  ASSUME NEW h \in Seq(Vocab), NEW ts \in Seq(Vocab), NEW i \in 1..Len(ts)
  PROVE  /\ h \o SubSeq(ts, 1, i - 1) \in Seq(Vocab)
         /\ h \o SubSeq(ts, 1, i) = Append(h \o SubSeq(ts, 1, i - 1), ts[i])
<1> DEFINE s == SubSeq(ts, 1, i - 1)
           r == SubSeq(ts, 1, i)
<1>1. Len(ts) \in Nat /\ \A j \in 1..Len(ts) : ts[j] \in Vocab
  BY LenProperties, ElementOfSeq
<1>2. s \in Seq(Vocab) /\ Len(s) = i - 1 /\ \A j \in 1..(i - 1) : s[j] = ts[j]
  <2>1. \A j \in 1..(i - 1) : ts[j] \in Vocab
    BY <1>1
  <2> QED
    BY <1>1, <2>1, SubSeqProperties
<1>3. r \in Seq(Vocab) /\ Len(r) = i /\ \A j \in 1..i : r[j] = ts[j]
  <2>1. \A j \in 1..i : ts[j] \in Vocab
    BY <1>1
  <2> QED
    BY <1>1, <2>1, SubSeqProperties
<1> HIDE DEF s, r
<1>4. ts[i] \in Vocab /\ i \in Nat /\ i > 0
  BY <1>1
<1>5. r = Append(s, ts[i])
  <2>1. Append(s, ts[i]) \in Seq(Vocab) /\ Len(Append(s, ts[i])) = i
    BY <1>2, <1>4, AppendProperties
  <2>2. \A j \in 1..i : Append(s, ts[i])[j] = r[j]
    BY <1>2, <1>3, <1>4
  <2> QED
    BY <1>3, <2>1, <2>2, SeqEqual
<1>6. h \o s \in Seq(Vocab)
  BY <1>2, ConcatProperties
<1>7. h \o Append(s, ts[i]) = Append(h \o s, ts[i])
  BY <1>2, <1>4
<1> QED
  BY <1>5, <1>6, <1>7 DEF s, r

\* Recording tokens appends them.
LEMMA RecordAllAt ==
  ASSUME NEW h \in Seq(Vocab), NEW ts \in Seq(Vocab)
  PROVE  RecordAll(ProcessorAt(h), ts) = ProcessorAt(h \o ts)
<1> DEFINE n == Len(ts)
           at(i) == ProcessorAt(h \o SubSeq(ts, 1, i))
           f == [i \in 0..n |-> at(i)]
           Body(g, i) == IF i = 0 THEN ProcessorAt(h) ELSE Record(g[i - 1], ts[i])
           g == CHOOSE g : g = [i \in 0..n |-> Body(g, i)]
           T == {i \in Nat : i <= n => g[i] = at(i)}
<1>1. n \in Nat
  BY LenProperties
<1>2. \A i \in 1..n : ts[i] \in Vocab
  BY <1>1, ElementOfSeq
<1>3. ASSUME NEW i \in 1..n PROVE Record(at(i - 1), ts[i]) = at(i)
  <2>1. /\ h \o SubSeq(ts, 1, i - 1) \in Seq(Vocab)
        /\ h \o SubSeq(ts, 1, i) = Append(h \o SubSeq(ts, 1, i - 1), ts[i])
    BY AppendToConcat
  <2>2. ts[i] \in Vocab
    BY <1>2
  <2> QED
    BY <2>1, <2>2, RecordAt
<1>4. at(0) = ProcessorAt(h)
  <2>1. SubSeq(ts, 1, 0) = <<>>
    OBVIOUS
  <2>2. h \o <<>> = h
    BY ConcatEmptySeq
  <2> QED
    BY <2>1, <2>2
<1> HIDE DEF at, n
<1>5. \A i \in 0..n : f[i] = Body(f, i)
  <2> SUFFICES ASSUME NEW i \in 0..n PROVE f[i] = Body(f, i)
    OBVIOUS
  <2>1. CASE i = 0
    BY <2>1, <1>4, <1>1
  <2>2. CASE i # 0
    <3>1. i \in 1..n /\ i - 1 \in 0..n
      BY <2>2, <1>1
    <3>2. f[i - 1] = at(i - 1) /\ f[i] = at(i)
      BY <3>1
    <3> QED
      BY <2>2, <3>1, <3>2, <1>3
  <2> QED
    BY <2>1, <2>2
<1>6. f = [i \in 0..n |-> Body(f, i)]
  <2> HIDE DEF Body
  <2>1. \A i \in 0..n : at(i) = Body(f, i)
    BY <1>5
  <2> QED
    BY <2>1
<1>7. g = [i \in 0..n |-> Body(g, i)]
  BY <1>6
<1>8. RecordAll(ProcessorAt(h), ts) = g[n]
  BY DEF RecordAll, n
<1> HIDE DEF g
<1>9. \A i \in 0..n : g[i] = Body(g, i)
  BY <1>7
<1>10. 0 \in T
  BY <1>1, <1>4, <1>9
<1>11. ASSUME NEW i \in T PROVE i + 1 \in T
  <2> SUFFICES ASSUME i + 1 <= n PROVE g[i + 1] = at(i + 1)
    OBVIOUS
  <2>1. i + 1 \in 1..n /\ i + 1 \in 0..n /\ (i + 1) - 1 = i /\ i + 1 # 0 /\ g[i] = at(i)
    BY <1>1
  <2>2. Record(at(i), ts[i + 1]) = at(i + 1)
    BY <2>1, <1>3
  <2> QED
    BY <2>1, <2>2, <1>9
<1>12. g[n] = at(n)
  <2> HIDE DEF T
  <2>1. T \in SUBSET Nat
    BY DEF T
  <2>2. T = Nat
    BY <1>10, <1>11, <2>1, Induction
  <2> QED
    BY <2>2, <1>1 DEF T
<1>13. at(n) = ProcessorAt(h \o ts)
  <2>1. SubSeq(ts, 1, Len(ts)) = ts
    BY SubSeqFull
  <2> QED
    BY <2>1 DEF at, n
<1> QED
  BY <1>8, <1>12, <1>13

\* The adjusted row is made of integers.
LEMMA AdjustedType ==
  ASSUME options \in Options, NEW row \in [Vocab -> Int], NEW h \in Seq(Vocab)
  PROVE  Adjusted(row, h) \in [Vocab -> Int]
<1> DEFINE bias(t) == IF t \in DOMAIN options.logit_bias THEN options.logit_bias[t] ELSE 0
           once(t) == IF t \in Range(h) THEN options.presence_penalty ELSE 0
           often(t) == options.frequency_penalty * Occurrences(t, h)
<1>1. options.frequency_penalty \in Int /\ options.presence_penalty \in Int
  BY OptionsType
<1>2. \A t \in Vocab : bias(t) \in Int
  BY OptionsType
<1>3. \A t \in Vocab : once(t) \in Int
  BY <1>1
<1>4. \A t \in Vocab : often(t) \in Int
  <2>1. \A t \in Vocab : Occurrences(t, h) \in Nat
    BY OccurrencesGrow, SamplingAssumption
  <2>2. \A x \in Int : \A y \in Nat : x * y \in Int
    OBVIOUS
  <2> QED
    BY <1>1, <2>1, <2>2
<1>5. Adjusted(row, h) = [t \in Vocab |-> row[t] + bias(t) - often(t) - once(t)]
  BY DEF Adjusted
<1> HIDE DEF bias, once, often
<1>6. \A t \in Vocab : row[t] + bias(t) - often(t) - once(t) \in Int
  <2>1. \A w, x, y, z \in Int : w + x - y - z \in Int
    OBVIOUS
  <2>2. \A t \in Vocab : row[t] \in Int
    OBVIOUS
  <2> QED
    BY <1>2, <1>3, <1>4, <2>1, <2>2
<1> QED
  BY <1>5, <1>6

\* What the processor makes of a row.
LEMMA ProcessAt ==
  ASSUME options \in Options, NEW row \in [Vocab -> Int], NEW h \in Seq(Vocab)
  PROVE  Process(ProcessorAt(h), row) = Adjusted(row, h)
<1> DEFINE pr == ProcessorAt(h)
           o == NewProcessor(options).options
           b == options.logit_bias
           f == options.frequency_penalty
           p == options.presence_penalty
<1>1. /\ pr.options = o
      /\ pr.counts = [t \in (IF Penalised THEN Range(h) ELSE {}) |-> Occurrences(t, h)]
  BY DEF ProcessorAt
<1>2. /\ f \in Int /\ p \in Int
      /\ b \in [DOMAIN b -> Int]
      /\ o.frequency_penalty = f /\ o.presence_penalty = p
      /\ o.logit_bias = Restrict(b, {t \in DOMAIN b : b[t] # 0})
  BY OptionsType
<1>3. ~Penalised => f = 0 /\ p = 0
  BY DEF Penalised
<1> HIDE DEF pr, o, b, f, p
<1>4. ASSUME NEW t \in Vocab
      PROVE  (IF t \in DOMAIN o.logit_bias THEN o.logit_bias[t] ELSE 0)
               = IF t \in DOMAIN b THEN b[t] ELSE 0
  BY <1>2 DEF Restrict
<1>5. ASSUME NEW t \in Vocab
      PROVE  (IF t \in DOMAIN pr.counts THEN f * pr.counts[t] + p ELSE 0)
               = f * Occurrences(t, h) + (IF t \in Range(h) THEN p ELSE 0)
  <2>1. Occurrences(t, h) \in Nat /\ (t \notin Range(h) => Occurrences(t, h) = 0)
    BY OccurrencesGrow
  <2>2. CASE ~Penalised
    <3>1. t \notin DOMAIN pr.counts
      BY <1>1, <2>2
    <3>2. f = 0 /\ p = 0
      BY <1>3, <2>2
    <3> QED
      BY <2>1, <3>1, <3>2
  <2>3. CASE Penalised /\ t \in Range(h)
    <3>1. t \in DOMAIN pr.counts /\ pr.counts[t] = Occurrences(t, h)
      BY <1>1, <2>3
    <3> QED
      BY <2>3, <3>1
  <2>4. CASE Penalised /\ t \notin Range(h)
    <3>1. t \notin DOMAIN pr.counts
      BY <1>1, <2>4
    <3>2. f * 0 = 0
      BY <1>2
    <3> QED
      BY <2>1, <2>4, <3>1, <3>2
  <2> QED
    BY <2>2, <2>3, <2>4
<1>6. ASSUME NEW t \in Vocab
      PROVE  row[t] + (IF t \in DOMAIN o.logit_bias THEN o.logit_bias[t] ELSE 0)
               - (IF t \in DOMAIN pr.counts THEN f * pr.counts[t] + p ELSE 0)
             = row[t] + (IF t \in DOMAIN b THEN b[t] ELSE 0)
               - f * Occurrences(t, h) - (IF t \in Range(h) THEN p ELSE 0)
  <2> DEFINE x == IF t \in DOMAIN b THEN b[t] ELSE 0
             y == f * Occurrences(t, h)
             z == IF t \in Range(h) THEN p ELSE 0
  <2>1. x \in Int /\ z \in Int /\ row[t] \in Int
    BY <1>2
  <2>2. Occurrences(t, h) \in Nat
    BY OccurrencesGrow
  <2>3. y \in Int
    BY <1>2, <2>2
  <2> HIDE DEF x, y, z
  <2>4. row[t] + x - (y + z) = row[t] + x - y - z
    BY <2>1, <2>3
  <2> QED
    BY <1>4, <1>5, <2>4 DEF x, y, z
<1> QED
  BY <1>1, <1>2, <1>6 DEF Process, Adjusted, pr, f, p, b

\* The first drafts, after an answer.
LEMMA HistoryType ==
  ASSUME NEW h \in Seq(Vocab), NEW ts \in Seq(Vocab), NEW i \in 0..Len(ts)
  PROVE  /\ SubSeq(ts, 1, i) \in Seq(Vocab)
         /\ h \o SubSeq(ts, 1, i) \in Seq(Vocab)
<1>1. Len(ts) \in Nat /\ \A j \in 1..Len(ts) : ts[j] \in Vocab
  BY LenProperties, ElementOfSeq
<1>2. \A j \in 1..i : ts[j] \in Vocab
  BY <1>1
<1>3. SubSeq(ts, 1, i) \in Seq(Vocab)
  BY <1>1, <1>2, SubSeqProperties
<1> QED
  BY <1>3, ConcatProperties

\* A processor without penalties and biases leaves a row as it is.
LEMMA InactiveProcess ==
  ASSUME options \in Options, NEW row \in [Vocab -> Int], NEW h \in Seq(Vocab),
         NEW b \in Seq(Vocab), ~IsActive(ProcessorAt(b))
  PROVE  Process(ProcessorAt(h), row) = row
<1> DEFINE o == NewProcessor(options).options
           pr == ProcessorAt(h)
<1>1. ~Penalised /\ DOMAIN o.logit_bias = {}
  BY DEF IsActive, ProcessorAt
<1>2. pr.options = o /\ DOMAIN pr.counts = {}
  BY <1>1 DEF ProcessorAt
<1> HIDE DEF o, pr
<1>3. \A t \in Vocab : row[t] \in Int
  OBVIOUS
<1>4. \A t \in Vocab :
        row[t]
        + (IF t \in DOMAIN pr.options.logit_bias THEN pr.options.logit_bias[t] ELSE 0)
        - (IF t \in DOMAIN pr.counts
           THEN pr.options.frequency_penalty * pr.counts[t] + pr.options.presence_penalty
           ELSE 0) = row[t]
  <2> SUFFICES ASSUME NEW t \in Vocab
               PROVE  row[t]
                      + (IF t \in DOMAIN pr.options.logit_bias
                         THEN pr.options.logit_bias[t] ELSE 0)
                      - (IF t \in DOMAIN pr.counts
                         THEN pr.options.frequency_penalty * pr.counts[t]
                                + pr.options.presence_penalty
                         ELSE 0) = row[t]
    OBVIOUS
  <2>1. (IF t \in DOMAIN pr.options.logit_bias THEN pr.options.logit_bias[t] ELSE 0) = 0
    BY <1>1, <1>2
  <2>2. (IF t \in DOMAIN pr.counts
         THEN pr.options.frequency_penalty * pr.counts[t] + pr.options.presence_penalty
         ELSE 0) = 0
    BY <1>2
  <2>3. row[t] + 0 - 0 = row[t]
    BY <1>3
  <2> QED
    BY <2>1, <2>2, <2>3
<1>5. Process(pr, row) = [t \in Vocab |-> row[t]]
  BY <1>4 DEF Process
<1> QED
  BY <1>5 DEF pr

\* A block of rows, each adjusted for the answer and the drafts before it.
AdjustedBlock(news, h, ts) ==
  [i \in DOMAIN news |-> Adjusted(news[i], h \o SubSeq(ts, 1, i - 1))]

\* That is what process_block makes of one.
LEMMA BlockIsAdjusted ==
  ASSUME options \in Options, NEW h \in Seq(Vocab), NEW ts \in Seq(Vocab),
         NEW n, n = Len(ts) + 1, NEW news \in [1..n -> [Vocab -> Int]]
  PROVE  ProcessBlock(ProcessorAt(h), ts, news) = AdjustedBlock(news, h, ts)
<1> DEFINE past(i) == SubSeq(ts, 1, i - 1)
<1>1. Len(ts) \in Nat /\ DOMAIN news = 1..n /\ \A i \in 1..n : news[i] \in [Vocab -> Int]
  BY LenProperties
<1>2. \A i \in 1..n : past(i) \in Seq(Vocab) /\ h \o past(i) \in Seq(Vocab)
  <2> SUFFICES ASSUME NEW i \in 1..n PROVE past(i) \in Seq(Vocab) /\ h \o past(i) \in Seq(Vocab)
    OBVIOUS
  <2>1. i - 1 \in 0..Len(ts)
    BY <1>1
  <2> QED
    BY <2>1, HistoryType
<1> HIDE DEF past
<1>3. \A i \in 1..n : Process(RecordAll(ProcessorAt(h), past(i)), news[i])
                        = Adjusted(news[i], h \o past(i))
  BY <1>1, <1>2, RecordAllAt, ProcessAt
<1>4. AdjustedBlock(news, h, ts) = [i \in 1..n |-> Adjusted(news[i], h \o past(i))]
  BY <1>1 DEF AdjustedBlock, past
<1>5. CASE IsActive(ProcessorAt(h))
  <2>1. ProcessBlock(ProcessorAt(h), ts, news)
          = [i \in 1..n |-> Process(RecordAll(ProcessorAt(h), past(i)), news[i])]
    BY <1>1, <1>5 DEF ProcessBlock, past
  <2> QED
    BY <1>3, <1>4, <2>1
<1>6. CASE ~IsActive(ProcessorAt(h))
  <2>1. \A i \in 1..n : Process(ProcessorAt(h \o past(i)), news[i]) = news[i]
    BY <1>1, <1>2, <1>6, InactiveProcess
  <2>2. \A i \in 1..n : Adjusted(news[i], h \o past(i)) = news[i]
    BY <1>1, <1>2, <2>1, ProcessAt
  <2>3. ProcessBlock(ProcessorAt(h), ts, news) = news
    BY <1>6 DEF ProcessBlock
  <2>4. news = [i \in 1..n |-> news[i]]
    OBVIOUS
  <2> QED
    BY <1>4, <2>2, <2>3, <2>4
<1> QED
  BY <1>5, <1>6

----------------------------------------------------------------------------
\* The support of a distribution.

\* What a law gives the tokens of a list.
MassOf(law, s) == [j \in DOMAIN s |-> law[s[j]]]

\* Place p of a ranking is where token j of the list comes from.
ComesFrom(ranked, w, law, s, j, p) ==
  /\ s[j] = ranked[p] /\ w[p] > 0
  /\ SumTo(MassOf(law, s), j - 1) = SumTo(w, p - 1)
  /\ SumTo(MassOf(law, s), j) = SumTo(w, p)

\* The list has the tokens of the first i places that have a weight.
Lists(ranked, w, law, s, i) ==
  /\ s \in Seq(Vocab)
  /\ SumTo(MassOf(law, s), Len(s)) = SumTo(w, i)
  /\ \A j \in 1..Len(s) : \E p \in 1..i : ComesFrom(ranked, w, law, s, j, p)

\* The masses of a list are numbers.
LEMMA MassType ==
  ASSUME NEW law \in [Vocab -> Nat], NEW s \in Seq(Vocab)
  PROVE  /\ Len(s) \in Nat /\ MassOf(law, s) \in [1..Len(s) -> Nat]
         /\ \A j \in 1..Len(s) : s[j] \in Vocab /\ MassOf(law, s)[j] = law[s[j]]
<1>1. Len(s) \in Nat /\ DOMAIN s = 1..Len(s) /\ \A j \in 1..Len(s) : s[j] \in Vocab
  BY LenProperties, ElementOfSeq
<1> QED
  BY <1>1 DEF MassOf

\* A token more leaves the running sums before it.
LEMMA MassOfAppend ==
  ASSUME NEW law \in [Vocab -> Nat], NEW s \in Seq(Vocab), NEW t \in Vocab
  PROVE  /\ Append(s, t) \in Seq(Vocab) /\ Len(Append(s, t)) = Len(s) + 1
         /\ Append(s, t)[Len(s) + 1] = t
         /\ \A j \in 1..Len(s) : Append(s, t)[j] = s[j]
         /\ \A j \in 0..Len(s) :
              SumTo(MassOf(law, Append(s, t)), j) = SumTo(MassOf(law, s), j)
         /\ SumTo(MassOf(law, Append(s, t)), Len(s) + 1)
              = SumTo(MassOf(law, s), Len(s)) + law[t]
<1> DEFINE a == Append(s, t)
           f == MassOf(law, s)
           g == MassOf(law, a)
           n == Len(s)
<1>1. /\ a \in Seq(Vocab) /\ Len(a) = n + 1 /\ a[n + 1] = t /\ n \in Nat
      /\ \A j \in 1..n : a[j] = s[j]
  BY AppendProperties, LenProperties
<1> HIDE DEF a
<1>2. /\ f \in [1..n -> Nat] /\ \A j \in 1..n : f[j] = law[s[j]]
  BY MassType
<1>3. /\ g \in [1..(n + 1) -> Nat] /\ \A j \in 1..(n + 1) : g[j] = law[a[j]]
  BY <1>1, MassType
<1> HIDE DEF f, g, n
<1>4. ASSUME NEW j \in 0..n PROVE SumTo(g, j) = SumTo(f, j)
  <2>1. IsFiniteSet(1..j)
    <3>1. 1 \in Int /\ j \in Int
      BY <1>1
    <3> QED
      BY <3>1, FS_Interval
  <2>2. \A i \in 1..j : f[i] \in Int /\ g[i] = f[i]
    <3> SUFFICES ASSUME NEW i \in 1..j PROVE f[i] \in Int /\ g[i] = f[i]
      OBVIOUS
    <3>1. i \in 1..n /\ i \in 1..(n + 1)
      BY <1>1
    <3>2. f[i] \in Nat
      BY <3>1, <1>2
    <3>3. \A x \in Nat : x \in Int
      OBVIOUS
    <3>4. f[i] = law[s[i]] /\ g[i] = law[a[i]] /\ a[i] = s[i]
      BY <1>1, <1>2, <1>3, <3>1
    <3> QED
      BY <3>2, <3>3, <3>4
  <2> QED
    BY <2>1, <2>2, SumCongruent DEF SumTo
<1>5. SumTo(g, n + 1) = SumTo(g, n) + g[n + 1]
  <2>1. n + 1 \in Nat /\ n + 1 \in 1..(n + 1) /\ (n + 1) - 1 = n
    BY <1>1
  <2> QED
    BY <1>3, <2>1, SumToProperties
<1>6. SumTo(g, n) = SumTo(f, n) /\ g[n + 1] = law[t]
  <2>1. n \in 0..n /\ n + 1 \in 1..(n + 1)
    BY <1>1
  <2> QED
    BY <1>1, <1>3, <1>4, <2>1
<1> QED
  BY <1>1, <1>4, <1>5, <1>6 DEF a, f, g, n

\* The token of place i has its weight in the law, and the sum grows by it.
Weighted(ranked, w, law, i) ==
  /\ ranked[i] \in Vocab /\ w[i] \in Nat /\ law[ranked[i]] = w[i]
  /\ SumTo(w, i - 1) \in Nat /\ SumTo(w, i) = SumTo(w, i - 1) + w[i]

\* A place more, without a weight or with one.
LEMMA ListsGrow ==
  ASSUME NEW ranked, NEW w, NEW law \in [Vocab -> Nat], NEW i \in Nat, NEW s, i > 0,
         Weighted(ranked, w, law, i), Lists(ranked, w, law, s, i - 1)
  PROVE  Lists(ranked, w, law,
               IF w[i] > 0 THEN Append(s, ranked[i]) ELSE s, i)
<1>1. /\ s \in Seq(Vocab) /\ SumTo(MassOf(law, s), Len(s)) = SumTo(w, i - 1)
      /\ \A j \in 1..Len(s) : \E p \in 1..(i - 1) : ComesFrom(ranked, w, law, s, j, p)
  BY DEF Lists
<1>2. /\ SumTo(w, i) = SumTo(w, i - 1) + w[i] /\ SumTo(w, i - 1) \in Nat
      /\ SumTo(w, i) \in Nat /\ w[i] \in Nat
  BY DEF Weighted
<1>3. \A p \in 1..(i - 1) : p \in 1..i
  OBVIOUS
<1>4. CASE w[i] = 0
  <2>1. SumTo(w, i) = SumTo(w, i - 1)
    BY <1>2, <1>4
  <2>2. Lists(ranked, w, law, s, i)
    BY <1>1, <1>3, <2>1 DEF Lists
  <2> QED
    BY <1>4, <2>2
<1>5. CASE w[i] > 0
  <2> DEFINE t == ranked[i]
             a == Append(s, t)
             n == Len(s)
  <2>1. /\ a \in Seq(Vocab) /\ Len(a) = n + 1 /\ a[n + 1] = t
        /\ \A j \in 1..n : a[j] = s[j]
        /\ \A j \in 0..n : SumTo(MassOf(law, a), j) = SumTo(MassOf(law, s), j)
        /\ SumTo(MassOf(law, a), n + 1) = SumTo(MassOf(law, s), n) + law[t]
    BY <1>1, MassOfAppend DEF Weighted
  <2>2. n \in Nat
    BY <1>1, LenProperties
  <2> HIDE DEF a, n, t
  <2>3. SumTo(MassOf(law, a), n + 1) = SumTo(w, i)
    BY <1>1, <1>2, <2>1 DEF Weighted, n, t
  <2>4. ASSUME NEW j \in 1..(n + 1)
        PROVE  \E p \in 1..i : ComesFrom(ranked, w, law, a, j, p)
    <3>1. CASE j = n + 1
      <4>1. SumTo(MassOf(law, a), j - 1) = SumTo(w, i - 1)
        <5>1. j - 1 = n /\ n \in 0..n
          BY <2>2, <3>1
        <5> QED
          BY <5>1, <2>1, <1>1 DEF n
      <4>2. ComesFrom(ranked, w, law, a, j, i)
        BY <1>5, <2>1, <2>3, <3>1, <4>1 DEF ComesFrom, t
      <4>3. i \in 1..i
        OBVIOUS
      <4> QED
        BY <4>2, <4>3
    <3>2. CASE j # n + 1
      <4>1. j \in 1..n /\ j - 1 \in 0..n /\ j \in 0..n
        BY <2>2, <3>2
      <4>2. PICK p \in 1..(i - 1) : ComesFrom(ranked, w, law, s, j, p)
        BY <1>1, <4>1 DEF n
      <4>3. ComesFrom(ranked, w, law, a, j, p)
        BY <2>1, <4>1, <4>2 DEF ComesFrom
      <4> QED
        BY <1>3, <4>3
    <3> QED
      BY <3>1, <3>2
  <2>5. Lists(ranked, w, law, a, i)
    BY <2>1, <2>3, <2>4 DEF Lists
  <2> QED
    BY <1>5, <2>5 DEF a, t
<1> QED
  BY <1>2, <1>4, <1>5

\* The support that from_logits collects lists the places with a weight.
LEMMA PositiveLists ==
  ASSUME NEW k \in Nat, NEW ranked, NEW w, NEW law \in [Vocab -> Nat],
         \A i \in 1..k : Weighted(ranked, w, law, i)
  PROVE  Lists(ranked, w, law, Positive(ranked, w, k), k)
<1> DEFINE f == CHOOSE f : f = [i \in 0..k |->
                  IF i = 0 THEN <<>>
                  ELSE IF w[i] > 0 THEN Append(f[i - 1], ranked[i]) ELSE f[i - 1]]
           T == {i \in Nat : i <= k => Lists(ranked, w, law, f[i], i)}
           step == [x \in (1..k) \X Seq(Vocab) |->
                     IF w[x[1]] > 0 THEN Append(x[2], ranked[x[1]]) ELSE x[2]]
<1>1. \E g : Recursion(g, k, Seq(Vocab), <<>>, step)
  <2>1. <<>> \in Seq(Vocab)
    BY EmptySeq
  <2>2. step \in [(1..k) \X Seq(Vocab) -> Seq(Vocab)]
    <3> SUFFICES ASSUME NEW x \in (1..k) \X Seq(Vocab) PROVE
                   (IF w[x[1]] > 0 THEN Append(x[2], ranked[x[1]]) ELSE x[2]) \in Seq(Vocab)
      OBVIOUS
    <3>1. x[1] \in 1..k /\ x[2] \in Seq(Vocab)
      OBVIOUS
    <3>2. ranked[x[1]] \in Vocab
      BY <3>1 DEF Weighted
    <3>3. Append(x[2], ranked[x[1]]) \in Seq(Vocab)
      BY <3>1, <3>2, AppendProperties
    <3> QED
      BY <3>1, <3>3
  <2> HIDE DEF step
  <2> QED
    BY <2>1, <2>2, RecursionExists
<1>2. PICK g : Recursion(g, k, Seq(Vocab), <<>>, step)
  BY <1>1
<1>3. g = [i \in 0..k |->
             IF i = 0 THEN <<>>
             ELSE IF w[i] > 0 THEN Append(g[i - 1], ranked[i]) ELSE g[i - 1]]
  <2>1. /\ g \in [0..k -> Seq(Vocab)] /\ g[0] = <<>>
        /\ \A i \in 1..k : g[i] = step[<<i, g[i - 1]>>]
    BY <1>2 DEF Recursion
  <2>2. \A i \in 1..k : g[i] = IF w[i] > 0 THEN Append(g[i - 1], ranked[i]) ELSE g[i - 1]
    <3> SUFFICES ASSUME NEW i \in 1..k
                 PROVE  g[i] = IF w[i] > 0 THEN Append(g[i - 1], ranked[i]) ELSE g[i - 1]
      OBVIOUS
    <3>1. i - 1 \in 0..k
      OBVIOUS
    <3>2. <<i, g[i - 1]>> \in (1..k) \X Seq(Vocab)
      BY <2>1, <3>1
    <3> QED
      BY <2>1, <3>2
  <2>3. \A i \in 0..k : i = 0 \/ i \in 1..k
    OBVIOUS
  <2> QED
    BY <2>1, <2>2, <2>3
<1>4. f = [i \in 0..k |->
             IF i = 0 THEN <<>>
             ELSE IF w[i] > 0 THEN Append(f[i - 1], ranked[i]) ELSE f[i - 1]]
  BY <1>3
<1>5. Positive(ranked, w, k) = f[k]
  BY DEF Positive
<1> HIDE DEF f
<1>6. 0 \in T
  <2>1. f[0] = <<>>
    BY <1>4
  <2>2. <<>> \in Seq(Vocab) /\ Len(<<>>) = 0
    BY EmptySeq
  <2>3. SumTo(MassOf(law, <<>>), 0) = 0 /\ SumTo(w, 0) = 0
    <3>1. 1..0 = {}
      OBVIOUS
    <3> QED
      BY <3>1, SumEmpty DEF SumTo
  <2>4. Lists(ranked, w, law, <<>>, 0)
    BY <2>2, <2>3 DEF Lists
  <2> QED
    BY <2>1, <2>4
<1>7. ASSUME NEW i \in T PROVE i + 1 \in T
  <2> SUFFICES ASSUME i + 1 <= k PROVE Lists(ranked, w, law, f[i + 1], i + 1)
    OBVIOUS
  <2>1. /\ i \in Nat /\ i + 1 \in 1..k /\ i + 1 \in 0..k /\ i + 1 # 0 /\ (i + 1) - 1 = i
        /\ Lists(ranked, w, law, f[i], i)
    OBVIOUS
  <2>2. f[i + 1] = IF w[i + 1] > 0 THEN Append(f[i], ranked[i + 1]) ELSE f[i]
    BY <1>4, <2>1
  <2>3. Weighted(ranked, w, law, i + 1)
    BY <2>1
  <2> HIDE DEF T, step
  <2> DEFINE j == i + 1
  <2>4. j \in Nat /\ j > 0 /\ Weighted(ranked, w, law, j) /\ Lists(ranked, w, law, f[i], j - 1)
    BY <2>1, <2>3
  <2> HIDE DEF j
  <2>5. Lists(ranked, w, law, IF w[j] > 0 THEN Append(f[i], ranked[j]) ELSE f[i], j)
    BY <2>4, ListsGrow
  <2> QED
    BY <2>2, <2>5 DEF j
<1>8. Lists(ranked, w, law, f[k], k)
  <2> HIDE DEF T
  <2>1. T \in SUBSET Nat
    BY DEF T
  <2>2. T = Nat
    BY <1>6, <1>7, <2>1, Induction
  <2>3. k \in T
    BY <2>2
  <2> QED
    BY <2>3 DEF T
<1> QED
  BY <1>5, <1>8

----------------------------------------------------------------------------
\* The draws.

\* Token t is where a law's weights, from the likeliest token on, pass the
\* share u of Levels.
Upto(law, logits, t) == SumFunctionOnSet(law, {v \in Vocab : ~Ahead(logits, t, v)})

Passes(law, logits, t, u) ==
  /\ u * SumFunction(law) < Upto(law, logits, t) * Levels
  /\ u * SumFunction(law) >= (Upto(law, logits, t) - law[t]) * Levels

\* Up to place i of the nucleus, the law has the running sum of the weights.
LEMMA UptoPlace ==
  ASSUME NEW row \in [Vocab -> Int], config \in Configs, config.temperature # 0,
         NEW i \in 1..NucleusOf(row)
  PROVE  /\ ListOf(row)[i] \in Vocab
         /\ Upto(LawOf(row), row, ListOf(row)[i]) = SumTo(WeightsOf(row), i)
         /\ LawOf(row)[ListOf(row)[i]] = WeightsOf(row)[i]
         /\ SumTo(WeightsOf(row), i) = SumTo(WeightsOf(row), i - 1) + WeightsOf(row)[i]
         /\ WeightsOf(row)[i] \in Nat
         /\ SumTo(WeightsOf(row), i - 1) \in Nat
<1>1. /\ Size \in Nat /\ Kept(config) \in 1..Size /\ NucleusOf(row) \in 1..Kept(config)
      /\ ListOf(row) \in [1..Size -> Vocab]
      /\ WeightsOf(row) \in [1..Kept(config) -> Nat]
  BY CutProperties
<1>2. i \in 1..Size /\ i \in 1..Kept(config) /\ i - 1 \in 0..Kept(config)
      /\ i \in 0..NucleusOf(row) /\ i <= NucleusOf(row) /\ Kept(config) \in Nat
  BY <1>1
<1>3. ListOf(row)[i] \in Vocab
  BY <1>1, <1>2
<1>4. LawOf(row)[ListOf(row)[i]] = WeightsOf(row)[i]
  BY <1>2, LawByPlace
<1>5. {v \in Vocab : ~Ahead(row, ListOf(row)[i], v)} = Firsts(ListOf(row), i)
  BY <1>2, RankedAhead DEF ListOf, Firsts
<1>6. Upto(LawOf(row), row, ListOf(row)[i]) = SumTo(WeightsOf(row), i)
  BY <1>2, <1>5, LawSums DEF Upto
<1>7. /\ SumTo(WeightsOf(row), i) = SumTo(WeightsOf(row), i - 1) + WeightsOf(row)[i]
      /\ WeightsOf(row)[i] \in Nat
      /\ SumTo(WeightsOf(row), i - 1) \in Nat
  BY <1>1, <1>2, SumToProperties
<1> QED
  BY <1>3, <1>4, <1>6, <1>7

\* A place whose running sum is the first beyond the share is one to take.
LEMMA PassesAtPlace ==
  ASSUME NEW row \in [Vocab -> Int], config \in Configs, config.temperature # 0,
         NEW i \in 1..NucleusOf(row), NEW u \in Uniforms,
         u * SumTo(WeightsOf(row), NucleusOf(row)) < SumTo(WeightsOf(row), i) * Levels,
         i = 1 \/ ~(u * SumTo(WeightsOf(row), NucleusOf(row))
                      < SumTo(WeightsOf(row), i - 1) * Levels)
  PROVE  Passes(LawOf(row), row, ListOf(row)[i], u)
<1> DEFINE w == WeightsOf(row)
           m == SumTo(w, NucleusOf(row))
           a == SumTo(w, i - 1)
<1>1. /\ Upto(LawOf(row), row, ListOf(row)[i]) = SumTo(w, i)
      /\ LawOf(row)[ListOf(row)[i]] = w[i]
      /\ SumTo(w, i) = a + w[i] /\ w[i] \in Nat /\ a \in Nat
  BY UptoPlace
<1>2. SumFunction(LawOf(row)) = m /\ m \in Nat
  BY LawSums
<1>3. u \in Nat /\ Levels \in Nat /\ i \in Nat
  <2>1. NucleusOf(row) \in Nat
    BY CutProperties
  <2> QED
    BY <2>1, SamplingAssumption DEF Uniforms
<1>4. i = 1 => a = 0
  <2>1. 1..0 = {}
    OBVIOUS
  <2> QED
    BY <2>1, SumEmpty DEF SumTo
<1> HIDE DEF w, m, a
<1>5. \A x, y \in Nat : x * y \in Nat
  OBVIOUS
<1>6. u * m \in Nat /\ a * Levels \in Nat
  BY <1>2, <1>3, <1>1, <1>5
<1>7. u * m >= a * Levels
  <2>1. CASE i = 1
    <3>1. a * Levels = 0
      BY <2>1, <1>3, <1>4
    <3> QED
      BY <3>1, <1>6
  <2>2. CASE ~(u * m < a * Levels)
    BY <2>2, <1>6
  <2> QED
    BY <2>1, <2>2 DEF w, m, a
<1>8. Upto(LawOf(row), row, ListOf(row)[i]) - LawOf(row)[ListOf(row)[i]] = a
  BY <1>1
<1>9. u * m < SumTo(w, i) * Levels
  BY DEF w, m
<1> QED
  BY <1>1, <1>2, <1>7, <1>8, <1>9 DEF Passes

\* All of a number is more than any share of it.
LEMMA WholePassed ==
  ASSUME NEW m \in Nat \ {0}, NEW u \in Uniforms
  PROVE  u * m < m * Levels /\ u \in Nat
<1>1. u \in Nat /\ Levels \in Nat /\ u < Levels
  BY SamplingAssumption DEF Uniforms
<1>2. \A x \in Nat \ {0} : \A y, z \in Nat : y < z => y * x < x * z
  <2> SUFFICES ASSUME NEW x \in Nat \ {0}, NEW y \in Nat, NEW z \in Nat, y < z
               PROVE  y * x < x * z
    OBVIOUS
  <2>1. z = y + (z - y) /\ z - y \in Nat \ {0}
    OBVIOUS
  <2>2. x * z = y * x + x * (z - y)
    BY <2>1
  <2>3. \A a, b \in Nat \ {0} : a * b \in Nat \ {0}
    OBVIOUS
  <2>4. x * (z - y) > 0 /\ x * (z - y) \in Nat
    BY <2>1, <2>3
  <2>5. y * x \in Nat
    OBVIOUS
  <2> QED
    BY <2>2, <2>4, <2>5
<1> QED
  BY <1>1, <1>2

\* What Sampler::sample draws.
LEMMA SamplerPasses ==
  ASSUME NEW row \in [Vocab -> Int], config \in Configs, config.temperature # 0,
         NEW u \in Uniforms
  PROVE  LET t == SamplerSample(row, config, u)
         IN  t \in Vocab /\ Passes(LawOf(row), row, t, u)
<1> DEFINE w    == WeightsOf(row)
           n    == NucleusOf(row)
           past == {i \in 1..n : u * SumTo(w, n) < SumTo(w, i) * Levels}
           p    == Min(past)
<1>1. n \in Nat /\ n \in 1..n
  BY CutProperties
<1>2. SumTo(w, n) \in Nat \ {0}
  BY LawSums
<1>3. n \in past
  BY <1>1, <1>2, WholePassed
<1>4. past \in SUBSET Nat /\ past # {}
  <2>1. past \subseteq 1..n
    OBVIOUS
  <2>2. 1..n \subseteq Nat
    OBVIOUS
  <2> HIDE DEF past, n
  <2> QED
    BY <1>3, <2>1, <2>2
<1>5. p \in past /\ \A y \in past : p <= y
  <2> HIDE DEF past
  <2> QED
    BY <1>4, MinProperties
<1>6. SamplerSample(row, config, u) = ListOf(row)[p]
  BY <1>4 DEF SamplerSample, ListOf, WeightsOf, NucleusOf
<1>7. p \in 1..n /\ u * SumTo(w, n) < SumTo(w, p) * Levels
  <2> HIDE DEF p
  <2> QED
    BY <1>5
<1>8. p = 1 \/ ~(u * SumTo(w, n) < SumTo(w, p - 1) * Levels)
  <2> SUFFICES ASSUME p # 1 PROVE ~(u * SumTo(w, n) < SumTo(w, p - 1) * Levels)
    OBVIOUS
  <2>1. p - 1 \in 1..n /\ ~(p <= p - 1)
    <3> HIDE DEF p, n
    <3> QED
      BY <1>1, <1>7
  <2>2. p - 1 \notin past
    <3> HIDE DEF p, past
    <3> QED
      BY <1>5, <2>1
  <2> HIDE DEF p
  <2> QED
    BY <2>1, <2>2
<1> HIDE DEF p
<1>9. Passes(LawOf(row), row, ListOf(row)[p], u)
  BY <1>7, <1>8, PassesAtPlace
<1>10. ListOf(row)[p] \in Vocab
  BY <1>7, UptoPlace
<1> QED
  BY <1>6, <1>9, <1>10

\* The distribution of a row, by its parts.
LEMMA DistributionParts ==
  ASSUME NEW row \in [Vocab -> Int], config \in Configs, config.temperature # 0
  PROVE  LET d == FromLogits(row, config)
             w == WeightsOf(row)
             n == NucleusOf(row)
         IN  /\ d.weights = LawOf(row) /\ LawOf(row) \in [Vocab -> Nat]
             /\ d.total = SumTo(w, n) /\ d.total \in Nat \ {0}
             /\ Lists(ListOf(row), w, LawOf(row), d.order, n)
<1> DEFINE w == WeightsOf(row)
           n == NucleusOf(row)
           l == ListOf(row)
           law == LawOf(row)
<1>1. Size \in Nat /\ Kept(config) \in 1..Size /\ n \in 1..Kept(config)
  BY CutProperties
<1>2. /\ FromLogits(row, config).weights = law /\ law \in [Vocab -> Nat]
      /\ FromLogits(row, config).total = SumFunction(law)
      /\ FromLogits(row, config).total \in Nat \ {0}
      /\ SumFunction(law) = SumTo(w, n)
  BY FromLogitsIsLaw, LawSums
<1>3. FromLogits(row, config).order = Positive(l, w, n)
  BY DEF FromLogits, ListOf, WeightsOf, NucleusOf
<1>4. \A i \in 1..n : Weighted(l, w, law, i)
  BY UptoPlace DEF Weighted
<1>5. n \in Nat
  BY <1>1
<1> HIDE DEF w, n, l, law
<1>6. Lists(l, w, law, Positive(l, w, n), n)
  BY <1>2, <1>4, <1>5, PositiveLists
<1> QED
  BY <1>2, <1>3, <1>6 DEF w, n, l, law

\* What Distribution::sample draws.
LEMMA DistributionPasses ==
  ASSUME NEW row \in [Vocab -> Int], config \in Configs, config.temperature # 0,
         NEW u \in Uniforms
  PROVE  LET t == DistributionSample(FromLogits(row, config), u)
         IN  t \in Vocab /\ Passes(LawOf(row), row, t, u)
<1> DEFINE d    == FromLogits(row, config)
           w    == WeightsOf(row)
           n    == NucleusOf(row)
           l    == ListOf(row)
           law  == LawOf(row)
           s    == d.order
           mass == MassOf(law, s)
           past == {j \in DOMAIN s : u * d.total < SumTo(mass, j) * Levels}
           m    == Len(s)
           c    == Min(past)
<1>1. /\ d.weights = law /\ law \in [Vocab -> Nat]
      /\ d.total = SumTo(w, n) /\ d.total \in Nat \ {0}
      /\ s \in Seq(Vocab) /\ SumTo(mass, m) = SumTo(w, n)
      /\ \A j \in 1..m : \E p \in 1..n : ComesFrom(l, w, law, s, j, p)
  BY DistributionParts DEF Lists
<1>2. /\ m \in Nat /\ DOMAIN s = 1..m
      /\ \A j \in 1..m : s[j] \in Vocab
  BY <1>1, LenProperties, ElementOfSeq
<1>3. DistributionSample(d, u) = IF m = 1 \/ past = {} THEN s[m] ELSE s[c]
  BY <1>1 DEF DistributionSample, MassOf
<1> HIDE DEF d, w, n, l, law, s, mass, m
<1>4. m # 0
  <2>1. 1..0 = {}
    OBVIOUS
  <2>2. SumTo(mass, 0) = 0
    BY <2>1, SumEmpty DEF SumTo
  <2> QED
    BY <2>2, <1>1
<1>5. m \in past
  <2>1. m \in 1..m
    BY <1>2, <1>4
  <2>2. u * d.total < d.total * Levels
    BY <1>1, WholePassed
  <2> QED
    BY <1>1, <1>2, <2>1, <2>2
<1>6. past \in SUBSET Nat /\ past # {}
  <2>1. past \subseteq 1..m
    BY <1>2
  <2>2. 1..m \subseteq Nat
    BY <1>2
  <2> HIDE DEF past
  <2> QED
    BY <1>5, <2>1, <2>2
<1>7. c \in past /\ \A y \in past : c <= y
  <2> HIDE DEF past
  <2> QED
    BY <1>6, MinProperties
<1>8. c \in 1..m /\ u * d.total < SumTo(mass, c) * Levels
  <2> HIDE DEF c
  <2> QED
    BY <1>2, <1>7
<1>9. c = 1 \/ ~(u * d.total < SumTo(mass, c - 1) * Levels)
  <2> SUFFICES ASSUME c # 1 PROVE ~(u * d.total < SumTo(mass, c - 1) * Levels)
    OBVIOUS
  <2>1. c - 1 \in 1..m /\ ~(c <= c - 1)
    <3> HIDE DEF c
    <3> QED
      BY <1>2, <1>8
  <2>2. c - 1 \notin past
    <3> HIDE DEF c, past
    <3> QED
      BY <1>7, <2>1
  <2> HIDE DEF c
  <2> QED
    BY <1>2, <2>1, <2>2
<1>10. DistributionSample(d, u) = s[c]
  <2>1. m = 1 => c = m
    <3> HIDE DEF c
    <3> QED
      BY <1>8
  <2> HIDE DEF c, past
  <2> QED
    BY <1>3, <1>6, <2>1
<1> HIDE DEF c, past
<1>11. PICK p \in 1..n : ComesFrom(l, w, law, s, c, p)
  BY <1>1, <1>8
<1>12. /\ s[c] = l[p] /\ SumTo(mass, c - 1) = SumTo(w, p - 1) /\ SumTo(mass, c) = SumTo(w, p)
  BY <1>11 DEF ComesFrom, mass
<1>13. u * SumTo(w, n) < SumTo(w, p) * Levels
  BY <1>1, <1>8, <1>12
<1>14. p = 1 \/ ~(u * SumTo(w, n) < SumTo(w, p - 1) * Levels)
  <2>1. CASE c # 1
    BY <1>1, <1>9, <1>12, <2>1
  <2>2. CASE c = 1
    <3>1. SumTo(mass, 0) = 0
      <4>1. 1..0 = {}
        OBVIOUS
      <4> QED
        BY <4>1, SumEmpty DEF SumTo
    <3>2. SumTo(w, p - 1) = 0
      BY <1>12, <2>2, <3>1
    <3>3. u \in Nat /\ Levels \in Nat /\ d.total \in Nat
      BY <1>1, WholePassed, SamplingAssumption
    <3>4. u * d.total \in Nat /\ 0 * Levels = 0
      BY <3>3
    <3> QED
      BY <1>1, <3>2, <3>4
  <2> QED
    BY <2>1, <2>2
<1>15. Passes(law, row, l[p], u)
  BY <1>13, <1>14, PassesAtPlace DEF w, n, l, law
<1>16. s[c] \in Vocab
  BY <1>2, <1>8
<1> QED
  BY <1>10, <1>12, <1>15, <1>16 DEF d, law

----------------------------------------------------------------------------
\* The round.

\* Laws with their support and total.
Laws == [weights : [Vocab -> Nat], order : Seq(Vocab), total : Nat \ {0}]

\* The answer and the drafts are tokens, every draft has the law it came
\* from, the processor has recorded the answer, and the rows of a verified
\* block are the target's, each adjusted for what was before it.
LawInv ==
  /\ options \in Options /\ config \in Configs
  /\ emitted \in Seq(Vocab) /\ drafts \in Seq(Vocab) /\ before \in Seq(Vocab)
  /\ proposals \in Seq(Laws) /\ Len(proposals) = Len(drafts)
  /\ \A i \in 1..Len(proposals) : WellFormed(proposals[i])
  /\ processor = ProcessorAt(emitted)
  /\ rows # <<>> => /\ raw \in [1..(Len(drafts) + 1) -> [Vocab -> Int]]
                    /\ rows = AdjustedBlock(raw, before, drafts)

\* A distribution of a row is a law, and the token drawn from it a token.
LEMMA DrawnFromLaw ==
  ASSUME NEW row \in [Vocab -> Int], config \in Configs, NEW u \in Uniforms
  PROVE  LET d == FromLogits(row, config)
         IN  d \in Laws /\ WellFormed(d) /\ DistributionSample(d, u) \in Vocab
<1> DEFINE d == FromLogits(row, config)
<1>1. /\ WellFormed(d) /\ d.weights \in [Vocab -> Nat] /\ d.total \in Nat \ {0}
  BY FromLogitsWellFormed DEF WellFormed
<1>2. d = [weights |-> d.weights, order |-> d.order, total |-> d.total]
  BY DEF FromLogits
<1>3. CASE config.temperature = 0
  <2>1. d.order = <<Ranked(row)[1]>> /\ Ranked(row)[1] \in Vocab
    BY <1>3, GreedyLaw DEF FromLogits
  <2>2. d.order \in Seq(Vocab) /\ Len(d.order) = 1 /\ d.order[1] \in Vocab
    <3> HIDE DEF d
    <3> QED
      BY <2>1
  <2>3. DistributionSample(d, u) = d.order[1]
    <3> HIDE DEF d
    <3> QED
      BY <2>2 DEF DistributionSample
  <2> HIDE DEF d
  <2>4. d \in Laws
    BY <1>1, <1>2, <2>2 DEF Laws
  <2> QED
    BY <1>1, <2>2, <2>3, <2>4 DEF d
<1>4. CASE config.temperature # 0
  <2>1. d.order \in Seq(Vocab)
    BY <1>4, DistributionParts DEF Lists
  <2>2. DistributionSample(d, u) \in Vocab
    BY <1>4, DistributionPasses
  <2> HIDE DEF d
  <2>3. d \in Laws
    BY <1>1, <1>2, <2>1 DEF Laws
  <2> QED
    BY <1>1, <2>2, <2>3 DEF d
<1> QED
  BY <1>3, <1>4

\* It holds when a round begins.
LEMMA LawInit == RoundInit => LawInv
<1> SUFFICES ASSUME RoundInit PROVE LawInv
  OBVIOUS
<1>1. /\ options \in Options /\ config \in Configs
      /\ emitted = <<>> /\ drafts = <<>> /\ before = <<>> /\ proposals = <<>> /\ rows = <<>>
      /\ processor = NewProcessor(options)
  BY DEF RoundInit
<1>2. processor = ProcessorAt(emitted)
  BY <1>1, NewProcessorAt
<1>3. <<>> \in Seq(Vocab) /\ <<>> \in Seq(Laws) /\ Len(<<>>) = 0
  BY EmptySeq
<1>4. \A i \in 1..0 : WellFormed(proposals[i])
  OBVIOUS
<1> QED
  BY <1>1, <1>2, <1>3, <1>4 DEF LawInv

\* The row of a draw is one of integers.
LEMMA RowType ==
  ASSUME options \in Options, NEW h \in Seq(Vocab), NEW row \in Rows \cup DraftRows
  PROVE  row \in [Vocab -> Int] /\ Process(ProcessorAt(h), row) \in [Vocab -> Int]
<1>1. row \in [Vocab -> Int]
  BY LawAssumption
<1> QED
  BY <1>1, ProcessAt, AdjustedType

\* Emitting a token records it.
LEMMA EmitStep ==
  ASSUME LawInv, NEW row \in Rows, NEW u \in Uniforms, Emit(row, u)
  PROVE  LawInv'
<1> DEFINE t == DistributionSample(FromLogits(Process(processor, row), config), u)
<1>1. /\ rows = <<>> /\ drafts = <<>>
      /\ emitted' = Append(emitted, t) /\ processor' = Record(processor, t)
      /\ UNCHANGED <<options, config, drafts, proposals, raw, rows, before>>
  BY DEF Emit
<1>2. options \in Options /\ config \in Configs /\ emitted \in Seq(Vocab)
      /\ processor = ProcessorAt(emitted)
  BY DEF LawInv
<1>3. t \in Vocab
  BY <1>2, RowType, DrawnFromLaw
<1> HIDE DEF t
<1>4. emitted' \in Seq(Vocab)
  BY <1>1, <1>2, <1>3, AppendProperties
<1>5. processor' = ProcessorAt(Append(emitted, t))
  BY <1>1, <1>2, <1>3, RecordAt
<1>6. processor' = ProcessorAt(emitted)'
  BY <1>1, <1>5 DEF ProcessorAt, Penalised
<1>7. \A i \in 1..Len(proposals') : WellFormed(proposals'[i])
  BY <1>1 DEF LawInv
<1> QED
  BY <1>1, <1>4, <1>6, <1>7 DEF LawInv

\* A draft more, with the law it was drawn from.
LEMMA ProposeStep ==
  ASSUME LawInv, NEW row \in DraftRows, NEW u \in Uniforms, Propose(row, u)
  PROVE  LawInv'
<1> DEFINE seen == RecordAll(processor, drafts)
           law  == FromLogits(Process(seen, row), config)
           t    == DistributionSample(law, u)
<1>1. /\ rows = <<>>
      /\ drafts' = Append(drafts, t) /\ proposals' = Append(proposals, law)
      /\ UNCHANGED <<options, config, processor, emitted, raw, rows, before>>
  BY DEF Propose
<1>2. /\ options \in Options /\ config \in Configs
      /\ emitted \in Seq(Vocab) /\ drafts \in Seq(Vocab)
      /\ processor = ProcessorAt(emitted)
      /\ proposals \in Seq(Laws) /\ Len(proposals) = Len(drafts)
      /\ \A i \in 1..Len(proposals) : WellFormed(proposals[i])
  BY DEF LawInv
<1>3. seen = ProcessorAt(emitted \o drafts) /\ emitted \o drafts \in Seq(Vocab)
  BY <1>2, RecordAllAt, ConcatProperties
<1> HIDE DEF seen
<1>4. law \in Laws /\ WellFormed(law) /\ t \in Vocab
  BY <1>2, <1>3, RowType, DrawnFromLaw
<1> HIDE DEF law, t
<1>5. drafts' \in Seq(Vocab) /\ Len(drafts') = Len(drafts) + 1
  BY <1>1, <1>2, <1>4, AppendProperties
<1>6. /\ proposals' \in Seq(Laws) /\ Len(proposals') = Len(proposals) + 1
      /\ \A i \in 1..Len(proposals) : proposals'[i] = proposals[i]
      /\ proposals'[Len(proposals) + 1] = law /\ Len(proposals) \in Nat
  BY <1>1, <1>2, <1>4, AppendProperties, LenProperties
<1>7. \A i \in 1..Len(proposals') : WellFormed(proposals'[i])
  <2>1. \A i \in 1..(Len(proposals) + 1) : i \in 1..Len(proposals) \/ i = Len(proposals) + 1
    BY <1>6
  <2> QED
    BY <1>2, <1>4, <1>6, <2>1
<1>8. processor' = ProcessorAt(emitted)'
  BY <1>1, <1>2 DEF ProcessorAt, Penalised
<1>9. before' \in Seq(Vocab) /\ emitted' \in Seq(Vocab) /\ options' \in Options
      /\ config' \in Configs
  BY <1>1 DEF LawInv
<1> QED
  BY <1>1, <1>2, <1>5, <1>6, <1>7, <1>8, <1>9 DEF LawInv

\* The tokens of an outcome are tokens.
LEMMA VerifiedTokens ==
  ASSUME NEW ds \in Seq(Vocab), NEW qs, NEW ps, NEW v \in Verified(ds, qs, ps)
  PROVE  v.tokens \in Seq(Vocab)
<1>1. Len(ds) \in Nat /\ \A j \in 1..Len(ds) : ds[j] \in Vocab
  BY LenProperties, ElementOfSeq
<1>2. PICK k \in 0..Len(ds), t \in Vocab : v = Outcome(ds, k, t)
  BY DEF Verified, Support
<1>3. SubSeq(ds, 1, k) \in Seq(Vocab)
  <2>1. \A j \in 1..k : ds[j] \in Vocab
    BY <1>1
  <2> QED
    BY <1>1, <2>1, SubSeqProperties
<1>4. v.tokens = Append(SubSeq(ds, 1, k), t)
  BY <1>2 DEF Outcome
<1> QED
  BY <1>3, <1>4, AppendProperties

\* The verified tokens become part of the answer and are recorded.
LEMMA VerifyStep ==
  ASSUME LawInv, NEW m \in 1..(MaxDrafts + 1), NEW news \in [1..m -> Rows], Verify(news)
  PROVE  LawInv'
<1> DEFINE processed == ProcessBlock(processor, drafts, news)
<1>1. /\ Len(news) = Len(drafts) + 1
      /\ \E v \in Verified(drafts, DraftLaws(processed), Against(processed)) :
           /\ emitted' = emitted \o v.tokens
           /\ processor' = RecordAll(processor, v.tokens)
      /\ raw' = news /\ rows' = processed /\ before' = emitted
      /\ UNCHANGED <<options, config, drafts, proposals>>
  BY DEF Verify, RecordEmitted
<1>2. /\ options \in Options /\ config \in Configs
      /\ emitted \in Seq(Vocab) /\ drafts \in Seq(Vocab)
      /\ processor = ProcessorAt(emitted)
  BY DEF LawInv
<1> HIDE DEF processed
<1>3. PICK v \in Verified(drafts, DraftLaws(processed), Against(processed)) :
           /\ emitted' = emitted \o v.tokens
           /\ processor' = RecordAll(processor, v.tokens)
  BY <1>1
<1>4. v.tokens \in Seq(Vocab)
  BY <1>2, <1>3, VerifiedTokens
<1>5. emitted' \in Seq(Vocab) /\ processor' = ProcessorAt(emitted \o v.tokens)
  BY <1>2, <1>3, <1>4, RecordAllAt, ConcatProperties
<1>6. processor' = ProcessorAt(emitted)'
  BY <1>1, <1>3, <1>5 DEF ProcessorAt, Penalised
<1> DEFINE n == Len(drafts) + 1
<1>7. m = n /\ news \in [1..n -> [Vocab -> Int]]
  <2>1. m \in Nat
    BY LawAssumption
  <2>2. Len(news) = m
    BY <2>1
  <2>3. m = n
    BY <1>1, <2>2
  <2>4. \A i \in 1..m : news[i] \in [Vocab -> Int]
    BY LawAssumption
  <2> HIDE DEF n
  <2> QED
    BY <2>3, <2>4
<1>8. processed = AdjustedBlock(news, emitted, drafts)
  <2>1. n = Len(drafts) + 1
    OBVIOUS
  <2> HIDE DEF n
  <2> QED
    BY <1>2, <1>7, <2>1, BlockIsAdjusted DEF processed
<1>9. rows' = AdjustedBlock(raw, before, drafts)'
  BY <1>1, <1>8 DEF AdjustedBlock, Adjusted
<1>10. /\ options' \in Options /\ config' \in Configs /\ drafts' \in Seq(Vocab)
       /\ before' \in Seq(Vocab) /\ proposals' \in Seq(Laws) /\ Len(proposals') = Len(drafts')
       /\ \A i \in 1..Len(proposals') : WellFormed(proposals'[i])
  BY <1>1 DEF LawInv
<1>11. raw' \in [1..(Len(drafts') + 1) -> [Vocab -> Int]]
  BY <1>1, <1>7
<1> QED
  BY <1>5, <1>6, <1>9, <1>10, <1>11 DEF LawInv

\* Every step keeps it.
LEMMA LawNext == LawInv /\ [RoundNext]_roundVars => LawInv'
<1> SUFFICES ASSUME LawInv, [RoundNext]_roundVars PROVE LawInv'
  OBVIOUS
<1>1. CASE \E row \in Rows, u \in Uniforms : Emit(row, u)
  BY <1>1, EmitStep
<1>2. CASE \E row \in DraftRows, u \in Uniforms : Propose(row, u)
  BY <1>2, ProposeStep
<1>3. CASE \E news \in UNION {[1..n -> Rows] : n \in 1..(MaxDrafts + 1)} : Verify(news)
  <2>1. PICK m \in 1..(MaxDrafts + 1) : \E news \in [1..m -> Rows] : Verify(news)
    BY <1>3
  <2> QED
    BY <2>1, VerifyStep
<1>4. CASE UNCHANGED roundVars
  <2>1. UNCHANGED <<options, config, processor, emitted, drafts, proposals, raw, rows, before>>
    BY <1>4 DEF roundVars
  <2>2. ProcessorAt(emitted)' = ProcessorAt(emitted)
    BY <2>1 DEF ProcessorAt, Penalised
  <2>3. AdjustedBlock(raw, before, drafts)' = AdjustedBlock(raw, before, drafts)
    BY <2>1 DEF AdjustedBlock, Adjusted
  <2> QED
    BY <2>1, <2>2, <2>3 DEF LawInv
<1> QED
  BY <1>1, <1>2, <1>3, <1>4 DEF RoundNext

\* It is an invariant.
LEMMA LawInvariant == RoundSpec => []LawInv
  BY LawInit, LawNext, PTL DEF RoundSpec

\* What the rows of a verified block are, place by place.
LEMMA PlaceProperties ==
  ASSUME LawInv, NEW i \in DOMAIN rows
  PROVE  /\ DOMAIN rows = 1..(Len(drafts) + 1) /\ Len(rows) = Len(drafts) + 1
         /\ Len(drafts) \in Nat
         /\ rows[i] \in [Vocab -> Int]
         /\ rows[i] = Adjusted(raw[i], before \o SubSeq(drafts, 1, i - 1))
         /\ WellFormed(TargetOf(rows[i]))
         /\ TargetOf(rows[i]).weights = Law(raw[i], before \o SubSeq(drafts, 1, i - 1))
         /\ i <= Len(drafts) => WellFormed(proposals[i])
<1> DEFINE n == Len(drafts) + 1
           h == before \o SubSeq(drafts, 1, i - 1)
<1>1. rows # <<>>
  OBVIOUS
<1>2. /\ raw \in [1..n -> [Vocab -> Int]] /\ rows = AdjustedBlock(raw, before, drafts)
      /\ options \in Options /\ config \in Configs
      /\ drafts \in Seq(Vocab) /\ before \in Seq(Vocab)
      /\ Len(proposals) = Len(drafts)
      /\ \A j \in 1..Len(proposals) : WellFormed(proposals[j])
  BY <1>1 DEF LawInv
<1>3. Len(drafts) \in Nat /\ n \in Nat
  BY <1>2, LenProperties
<1>4. rows = [j \in 1..n |-> Adjusted(raw[j], before \o SubSeq(drafts, 1, j - 1))]
  BY <1>2 DEF AdjustedBlock
<1>5. DOMAIN rows = 1..n /\ Len(rows) = n
  BY <1>3, <1>4
<1>6. i \in 1..n
  BY <1>5
<1>7. rows[i] = Adjusted(raw[i], h)
  BY <1>4, <1>6
<1>8. h \in Seq(Vocab)
  <2>1. i - 1 \in 0..Len(drafts)
    BY <1>3, <1>6
  <2> QED
    BY <1>2, <2>1, HistoryType
<1>9. raw[i] \in [Vocab -> Int]
  BY <1>2, <1>6
<1>10. rows[i] \in [Vocab -> Int]
  <2> HIDE DEF h
  <2>1. Adjusted(raw[i], h) \in [Vocab -> Int]
    BY <1>2, <1>8, <1>9, AdjustedType, ZenonT(30)
  <2> QED
    BY <1>7, <2>1
<1>11. WellFormed(TargetOf(rows[i])) /\ TargetOf(rows[i]).weights = LawOf(rows[i])
  BY <1>2, <1>10, FromLogitsWellFormed DEF TargetOf
<1>12. LawOf(rows[i]) = Law(raw[i], h)
  BY <1>7 DEF Law
<1>13. i <= Len(drafts) => WellFormed(proposals[i])
  BY <1>2, <1>3, <1>6
<1> HIDE DEF h
<1> QED
  BY <1>3, <1>5, <1>7, <1>10, <1>11, <1>12, <1>13 DEF h

\* Drafts and bonus have the target's law.
LEMMA LawInvPreserves == LawInv => LawPreserved
<1> SUFFICES ASSUME LawInv, NEW i \in DOMAIN rows, NEW t \in Vocab
             PROVE  LET target == Law(raw[i], before \o SubSeq(drafts, 1, i - 1))
                        p      == Against(rows)[i]
                        q      == DraftLaws(rows)[i]
                        rest   == Residual(p, q)
                        r      == SumFunction(rest)
                        lost   == SumFunction([u \in Vocab |-> RejectMass(p, q, u)])
                    IN  IF i = Len(rows) THEN HasShare(target, t, p[t], SumFunction(p))
                        ELSE HasShare(target, t,
                               AcceptMass(p, q, t) * (IF r = 0 THEN 1 ELSE r) + lost * rest[t],
                               SumFunction(p) * (IF r = 0 THEN 1 ELSE r))
  BY DEF LawPreserved
<1> DEFINE target == Law(raw[i], before \o SubSeq(drafts, 1, i - 1))
           w == TargetOf(rows[i])
           d == proposals[i]
<1>1. /\ DOMAIN rows = 1..(Len(drafts) + 1) /\ Len(rows) = Len(drafts) + 1
      /\ Len(drafts) \in Nat
      /\ WellFormed(w) /\ w.weights = target
      /\ i <= Len(drafts) => WellFormed(d)
  BY PlaceProperties
<1>2. CASE i = Len(rows)
  <2>1. Against(rows)[i] = w.weights
    BY <1>1, <1>2 DEF Against
  <2> HIDE DEF target, w
  <2>2. HasShare(target, t, target[t], SumFunction(target))
    BY DEF HasShare
  <2> QED
    BY <1>1, <1>2, <2>1, <2>2 DEF target
<1>3. CASE i # Len(rows)
  <2>1. i <= Len(drafts) /\ i \in DOMAIN drafts
    <3>1. DOMAIN drafts = 1..Len(drafts)
      BY LenProperties DEF LawInv
    <3> QED
      BY <1>1, <1>3, <3>1
  <2>2. Against(rows)[i] = Scaled(w, d)
    BY <2>1 DEF Against
  <2>3. DraftLaws(rows)[i] = Scaled(d, w)
    BY <2>1 DEF DraftLaws
  <2> HIDE DEF w, d, target
  <2>4. LET p    == Scaled(w, d)
            q    == Scaled(d, w)
            rest == Residual(p, q)
            r    == SumFunction(rest)
            lost == SumFunction([u \in Vocab |-> RejectMass(p, q, u)])
        IN  HasShare(target, t,
                     AcceptMass(p, q, t) * (IF r = 0 THEN 1 ELSE r) + lost * rest[t],
                     SumFunction(p) * (IF r = 0 THEN 1 ELSE r))
    BY <1>1, <2>1, PlaceHasLaw
  <2> QED
    BY <1>3, <2>2, <2>3, <2>4 DEF target
<1> QED
  BY <1>2, <1>3

\* A rejected draft can be corrected.
LEMMA LawInvCorrects == LawInv => RejectionHasCorrection
<1> SUFFICES ASSUME LawInv, NEW i \in DOMAIN drafts \cap DOMAIN rows,
                    RejectMass(Against(rows)[i], DraftLaws(rows)[i], drafts[i]) > 0
             PROVE  Support(Residual(Against(rows)[i], DraftLaws(rows)[i])) # {}
  BY DEF RejectionHasCorrection
<1> DEFINE w == TargetOf(rows[i])
           d == proposals[i]
           p == Scaled(w, d)
           q == Scaled(d, w)
           rest == Residual(p, q)
<1>1. drafts \in Seq(Vocab) /\ DOMAIN drafts = 1..Len(drafts) /\ drafts[i] \in Vocab
      /\ i <= Len(drafts)
  BY LenProperties, ElementOfSeq DEF LawInv
<1>2. WellFormed(w) /\ WellFormed(d)
  BY <1>1, PlaceProperties
<1>3. Against(rows)[i] = p
  BY <1>1 DEF Against
<1>4. DraftLaws(rows)[i] = q
  BY <1>1 DEF DraftLaws
<1> HIDE DEF w, d
<1>5. /\ p \in [Vocab -> Nat] /\ q \in [Vocab -> Nat]
      /\ SumFunction(p) = w.total * d.total /\ SumFunction(q) = d.total * w.total
      /\ w.total \in Nat /\ d.total \in Nat
  BY <1>2, ScaledTotals DEF WellFormed
<1>6. SumFunction(p) = SumFunction(q)
  <2>1. \A x, y \in Nat : x * y = y * x
    OBVIOUS
  <2> QED
    BY <1>5, <2>1
<1> HIDE DEF p, q
<1>7. /\ SumFunction(rest) \in Nat /\ RejectMass(p, q, drafts[i]) <= SumFunction(rest)
      /\ RejectMass(p, q, drafts[i]) \in Nat /\ rest \in [Vocab -> Nat]
  BY <1>1, <1>5, <1>6, ResidualMass, ResidualParts
<1>8. SumFunction(rest) # 0
  BY <1>3, <1>4, <1>7
<1> HIDE DEF rest
<1>9. \E t \in Vocab : rest[t] # 0
  <2> SUFFICES ASSUME \A t \in Vocab : rest[t] = 0 PROVE FALSE
    OBVIOUS
  <2>1. SumFunctionOnSet(rest, Vocab) = 0
    BY SamplingAssumption, SumOfZeroes
  <2>2. SumFunction(rest) = SumFunctionOnSet(rest, Vocab)
    BY <1>7 DEF SumFunction
  <2> QED
    BY <1>8, <2>1, <2>2
<1>10. \E t \in Vocab : rest[t] > 0
  <2>1. PICK t \in Vocab : rest[t] # 0
    BY <1>9
  <2>2. rest[t] \in Nat
    BY <1>7
  <2> QED
    BY <2>1, <2>2
<1>11. Support(rest) # {}
  BY <1>10 DEF Support
<1> QED
  BY <1>3, <1>4, <1>11 DEF rest

\* Both samplers follow the law.
LEMMA DrawsFollowLaw ==
  ASSUME LawInv, NEW row \in Rows, NEW u \in Uniforms
  PROVE  LET adjusted == Process(processor, row)
             law      == Law(row, emitted)
             s        == SamplerSample(adjusted, config, u)
             t        == DistributionSample(FromLogits(adjusted, config), u)
         IN  /\ s \in Vocab /\ Passes(law, adjusted, s, u)
             /\ t \in Vocab /\ Passes(law, adjusted, t, u)
<1> DEFINE adjusted == Process(processor, row)
<1>1. /\ options \in Options /\ config \in Configs /\ emitted \in Seq(Vocab)
      /\ processor = ProcessorAt(emitted)
  BY DEF LawInv
<1>2. adjusted \in [Vocab -> Int] /\ adjusted = Adjusted(row, emitted)
  <2>1. row \in [Vocab -> Int]
    BY LawAssumption
  <2> QED
    BY <1>1, <2>1, ProcessAt, AdjustedType
<1>3. Law(row, emitted) = LawOf(adjusted)
  BY <1>2 DEF Law
<1> HIDE DEF adjusted
<1>4. CASE config.temperature # 0
  BY <1>1, <1>2, <1>3, <1>4, SamplerPasses, DistributionPasses DEF adjusted
<1>5. CASE config.temperature = 0
  <2> DEFINE t == Ranked(adjusted)[1]
             law == LawOf(adjusted)
  <2>1. /\ law = [v \in Vocab |-> IF v = t THEN 1 ELSE 0] /\ t \in Vocab
        /\ SumFunction(law) = 1
        /\ \A S \in SUBSET Vocab : t \in S => SumFunctionOnSet(law, S) = 1
    BY <1>1, <1>2, <1>5, GreedyLaw
  <2>2. ~Ahead(adjusted, t, t)
    BY <1>2, <2>1, AheadOrder
  <2>3. Upto(law, adjusted, t) = 1 /\ law[t] = 1
    BY <2>1, <2>2 DEF Upto
  <2>4. u * 1 < 1 * Levels /\ u \in Nat /\ Levels \in Nat
    BY WholePassed, SamplingAssumption
  <2>5. u * 1 >= (1 - 1) * Levels
    BY <2>4
  <2>6. Passes(law, adjusted, t, u)
    BY <2>1, <2>3, <2>4, <2>5 DEF Passes
  <2>7. SamplerSample(adjusted, config, u) = t
    BY <1>5 DEF SamplerSample
  <2>8. DistributionSample(FromLogits(adjusted, config), u) = t
    <3>1. FromLogits(adjusted, config).order = <<t>>
      BY <1>5 DEF FromLogits
    <3> DEFINE d == FromLogits(adjusted, config)
    <3> HIDE DEF d, t
    <3>2. Len(d.order) = 1 /\ d.order[1] = t
      BY <3>1 DEF d
    <3>3. DistributionSample(d, u) = d.order[Len(d.order)]
      BY <3>2 DEF DistributionSample
    <3> QED
      BY <3>2, <3>3 DEF d
  <2> HIDE DEF t, law
  <2> QED
    BY <1>3, <2>1, <2>6, <2>7, <2>8 DEF law, adjusted
<1> QED
  BY <1>4, <1>5

\* That is the property.
LEMMA LawInvSamples == LawInv => SamplersFollowLaw
<1> SUFFICES ASSUME LawInv, NEW row \in Rows
             PROVE  LET adjusted == Process(processor, row)
                        law      == Law(row, emitted)
                        total    == SumFunction(law)
                        upTo     == [t \in Vocab |-> Upto(law, adjusted, t)]
                        passes(t, u) == /\ u * total < upTo[t] * Levels
                                        /\ u * total >= (upTo[t] - law[t]) * Levels
                    IN  \A u \in Uniforms :
                          /\ passes(SamplerSample(adjusted, config, u), u)
                          /\ passes(DistributionSample(FromLogits(adjusted, config), u), u)
  BY DEF SamplersFollowLaw, Upto
<1> QED
  BY DrawsFollowLaw DEF Passes

\* For any vocabulary, options, settings, rows and drafts: accepted,
\* corrected or bonus, a verified token has exactly the law that the target
\* alone would give it (speculative.rs: verify).
THEOREM Lossless == RoundSpec => []LawPreserved
  BY LawInvariant, LawInvPreserves, PTL

\* The error on an empty residual (speculative.rs: residual) is unreachable.
THEOREM Correctable == RoundSpec => []RejectionHasCorrection
  BY LawInvariant, LawInvCorrects, PTL

\* The samplers of the two generators (chat/sampling.rs and speculative.rs)
\* make the same draw from the same row, answer and random number: the one
\* the law makes.
THEOREM SamplersAgree == RoundSpec => []SamplersFollowLaw
  BY LawInvariant, LawInvSamples, PTL
=============================================================================
