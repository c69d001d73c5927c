---------------------------- MODULE EngineProofs ----------------------------
(***************************************************************************)
(* Proofs about Engine for every vocabulary, context length and block      *)
(* width.  The inductive invariant is the conjunction of the four state    *)
(* invariants the run checks: none of them is inductive alone, since what  *)
(* the next block computes is right only if conv, state and the KV slots   *)
(* agree, and what a commit restores is right only if the snapshots do.    *)
(***************************************************************************)
EXTENDS Engine, SequenceTheorems, TLAPS

Coherent == TypeOK /\ RecurrentCoherent /\ AttentionCoherent

IInv == Coherent /\ PrefixRestorable

\* The blocks a successful call may evaluate.
GoodBlocks == {ts \in Seq(Vocab) : Len(ts) \in 1..MaxBlock}

USE EngineAssumption

----------------------------------------------------------------------------
\* Lemmas on prefixes of sequences.

\* A prefix of a sequence is a sequence of the length asked for.
LEMMA PrefixType ==
  ASSUME NEW S, NEW s \in Seq(S), NEW n \in 0..Len(s)
  PROVE  /\ SubSeq(s, 1, n) \in Seq(S)
         /\ Len(SubSeq(s, 1, n)) = n
         /\ \A i \in 1..n : SubSeq(s, 1, n)[i] = s[i]
<1>1. Len(s) \in Nat
  BY LenProperties
<1>2. \A i \in 1..n : s[i] \in S
  BY <1>1, ElementOfSeq
<1>3. QED
  BY <1>1, <1>2, SubSeqProperties

\* A prefix of a prefix is a prefix of the whole.
LEMMA PrefixOfPrefix ==
  ASSUME NEW S, NEW s \in Seq(S), NEW n \in 0..Len(s), NEW m \in 0..n
  PROVE  SubSeq(SubSeq(s, 1, n), 1, m) = SubSeq(s, 1, m)
<1>1. Len(s) \in Nat
  BY LenProperties
<1> DEFINE p == SubSeq(s, 1, n)
<1>2. p \in Seq(S) /\ Len(p) = n /\ \A i \in 1..n : p[i] = s[i]
  BY PrefixType
<1> HIDE DEF p
<1>3. SubSeq(p, 1, m) \in Seq(S) /\ Len(SubSeq(p, 1, m)) = m
      /\ \A i \in 1..m : SubSeq(p, 1, m)[i] = p[i]
  BY <1>1, <1>2, PrefixType
<1>4. SubSeq(s, 1, m) \in Seq(S) /\ Len(SubSeq(s, 1, m)) = m
      /\ \A i \in 1..m : SubSeq(s, 1, m)[i] = s[i]
  BY <1>1, PrefixType
<1>5. SubSeq(p, 1, m) = SubSeq(s, 1, m)
  BY <1>1, <1>2, <1>3, <1>4, SeqEqual
<1>6. QED
  BY <1>5 DEF p

\* s followed by the first k elements of t.
Extended(s, t, k) == s \o SubSeq(t, 1, k)

\* A prefix no longer than s is a prefix of s; a longer one is s followed
\* by a prefix of t.
LEMMA PrefixOfExtended ==
  ASSUME NEW S, NEW s \in Seq(S), NEW t \in Seq(S), NEW k \in 0..Len(t)
  PROVE  /\ Extended(s, t, k) \in Seq(S)
         /\ Len(Extended(s, t, k)) = Len(s) + k
         /\ \A n \in 0..Len(s) :
              SubSeq(Extended(s, t, k), 1, n) = SubSeq(s, 1, n)
         /\ \A m \in 0..k :
              SubSeq(Extended(s, t, k), 1, Len(s) + m) = Extended(s, t, m)
<1>0. Len(s) \in Nat /\ Len(t) \in Nat
  BY LenProperties
<1> DEFINE pre(m) == SubSeq(t, 1, m)
           c(m)   == s \o pre(m)
<1>1. ASSUME NEW m \in 0..k
      PROVE  /\ pre(m) \in Seq(S) /\ Len(pre(m)) = m
             /\ \A i \in 1..m : pre(m)[i] = t[i]
  BY <1>0, PrefixType
<1> HIDE DEF pre
<1>2. ASSUME NEW m \in 0..k
      PROVE  /\ c(m) \in Seq(S) /\ Len(c(m)) = Len(s) + m
             /\ \A i \in 1..(Len(s) + m) :
                  c(m)[i] = IF i <= Len(s) THEN s[i] ELSE t[i - Len(s)]
  <2>1. pre(m) \in Seq(S) /\ Len(pre(m)) = m /\ \A i \in 1..m : pre(m)[i] = t[i]
    BY <1>1
  <2>2. /\ c(m) \in Seq(S) /\ Len(c(m)) = Len(s) + m
        /\ \A i \in 1..(Len(s) + m) :
             c(m)[i] = IF i <= Len(s) THEN s[i] ELSE pre(m)[i - Len(s)]
    BY <2>1, ConcatProperties, ZenonT(30)
  <2>3. ASSUME NEW i \in 1..(Len(s) + m), ~(i <= Len(s))
        PROVE  pre(m)[i - Len(s)] = t[i - Len(s)]
    <3>1. i - Len(s) \in 1..m
      BY <1>0, <2>3
    <3>2. QED BY <2>1, <3>1
  <2>4. QED BY <2>2, <2>3
<1> HIDE DEF c
<1>3. k \in 0..k
  BY <1>0
<1>4. c(k) \in Seq(S) /\ Len(c(k)) = Len(s) + k
  BY <1>2, <1>3
<1>5. ASSUME NEW n \in 0..Len(s) PROVE SubSeq(c(k), 1, n) = SubSeq(s, 1, n)
  <2>1. n \in 0..Len(c(k))
    BY <1>0, <1>4
  <2>2. /\ SubSeq(c(k), 1, n) \in Seq(S) /\ Len(SubSeq(c(k), 1, n)) = n
        /\ \A i \in 1..n : SubSeq(c(k), 1, n)[i] = c(k)[i]
    BY <1>4, <2>1, PrefixType
  <2>3. /\ SubSeq(s, 1, n) \in Seq(S) /\ Len(SubSeq(s, 1, n)) = n
        /\ \A i \in 1..n : SubSeq(s, 1, n)[i] = s[i]
    BY PrefixType
  <2>4. ASSUME NEW i \in 1..n PROVE c(k)[i] = s[i]
    <3>1. i \in 1..(Len(s) + k) /\ i <= Len(s)
      BY <1>0, <1>3
    <3>2. c(k)[i] = IF i <= Len(s) THEN s[i] ELSE t[i - Len(s)]
      BY <1>2, <1>3, <3>1
    <3>3. QED BY <3>1, <3>2
  <2>5. QED BY <1>0, <2>2, <2>3, <2>4, SeqEqual
<1>6. ASSUME NEW m \in 0..k PROVE SubSeq(c(k), 1, Len(s) + m) = c(m)
  <2>1. Len(s) + m \in 0..Len(c(k))
    BY <1>0, <1>4
  <2>2. /\ SubSeq(c(k), 1, Len(s) + m) \in Seq(S)
        /\ Len(SubSeq(c(k), 1, Len(s) + m)) = Len(s) + m
        /\ \A i \in 1..(Len(s) + m) :
             SubSeq(c(k), 1, Len(s) + m)[i] = c(k)[i]
    BY <1>4, <2>1, PrefixType
  <2>3. \A i \in 1..(Len(s) + m) : c(k)[i] = c(m)[i]
    BY <1>0, <1>2, <1>3
  <2>4. c(m) \in Seq(S) /\ Len(c(m)) = Len(s) + m
    BY <1>2
  <2>5. QED BY <1>0, <2>2, <2>3, <2>4, SeqEqual
<1>7. QED
  BY <1>4, <1>5, <1>6 DEF c, pre, Extended

----------------------------------------------------------------------------
\* What a call computes in a coherent state.

LEMMA CoherentLive == Coherent => Live = state
<1> SUFFICES ASSUME Coherent PROVE Live = state
  OBVIOUS
<1>1. state # Garbage
  BY DEF Coherent, RecurrentCoherent
<1>2. QED
  BY <1>1 DEF Coherent, RecurrentCoherent, AttentionCoherent, Live

\* After a block in a coherent state a recurrent buffer holds the old
\* history followed by the block.
LEMMA AfterValue ==
  ASSUME Coherent, NEW ts \in Seq(Vocab), NEW k \in 0..Len(ts)
  PROVE  /\ After(ts, k) = Extended(state, ts, k)
         /\ After(ts, k) \in Seq(Vocab)
         /\ After(ts, k) \in Contents
         /\ Len(After(ts, k)) = position + k
         /\ \A n \in 0..position : SubSeq(After(ts, k), 1, n) = SubSeq(state, 1, n)
         /\ \A m \in 0..k : SubSeq(After(ts, k), 1, position + m) = After(ts, m)
<1>1. Live = state /\ state # Garbage
  BY CoherentLive DEF Coherent, RecurrentCoherent
<1>2. \A m \in 0..Len(ts) : After(ts, m) = state \o SubSeq(ts, 1, m)
  BY <1>1 DEF After
<1>3. state \in Seq(Vocab) /\ Len(state) = position /\ position \in Nat
  BY DEF Coherent, RecurrentCoherent, TypeOK
<1>4. Len(ts) \in Nat
  BY LenProperties
<1>5. /\ After(ts, k) = Extended(state, ts, k)
      /\ \A m \in 0..k : After(ts, m) = Extended(state, ts, m)
  BY <1>2, <1>4 DEF Extended
<1>6. /\ Extended(state, ts, k) \in Seq(Vocab)
      /\ Len(Extended(state, ts, k)) = Len(state) + k
      /\ \A n \in 0..Len(state) :
           SubSeq(Extended(state, ts, k), 1, n) = SubSeq(state, 1, n)
      /\ \A m \in 0..k :
           SubSeq(Extended(state, ts, k), 1, Len(state) + m)
             = Extended(state, ts, m)
  BY <1>3, PrefixOfExtended, ZenonT(30)
<1>7. \A m \in 0..k : SubSeq(After(ts, k), 1, position + m) = After(ts, m)
  BY <1>3, <1>5, <1>6
<1>8. \A n \in 0..position : SubSeq(After(ts, k), 1, n) = SubSeq(state, 1, n)
  BY <1>3, <1>5, <1>6
<1>9. QED
  BY <1>3, <1>5, <1>6, <1>7, <1>8 DEF Contents

\* Absorbing a block keeps the buffers and the KV slots in step.
LEMMA AbsorbKeepsCoherence ==
  ASSUME Coherent, NEW ts \in GoodBlocks, position + Len(ts) <= Context,
         conv' = After(ts, Len(ts)), state' = After(ts, Len(ts)),
         kvcache' = KvAfter(ts), position' = position + Len(ts)
  PROVE  /\ position' \in 0..Context
         /\ conv' \in Contents /\ state' \in Contents
         /\ kvcache' \in [KvSlots -> Contents]
         /\ RecurrentCoherent' /\ AttentionCoherent'
<1>1. /\ ts \in Seq(Vocab) /\ Len(ts) \in Nat /\ Len(ts) \in 0..Len(ts)
      /\ position \in Nat /\ Context \in Nat
  BY DEF GoodBlocks, Coherent, TypeOK
<1>2. \A k \in 0..Len(ts) : After(ts, k) \in Contents
  BY <1>1, AfterValue
<1>3. conv' \in Contents /\ state' \in Contents
  BY <1>1, <1>2
<1>4. kvcache' \in [KvSlots -> Contents]
  <2>1. ASSUME NEW i \in KvSlots, i \in position..(position + Len(ts) - 1)
        PROVE  After(ts, i - position + 1) \in Contents
    <3>1. i - position + 1 \in 0..Len(ts)
      BY <1>1, <2>1 DEF KvSlots
    <3>2. QED BY <1>2, <3>1
  <2>2. kvcache \in [KvSlots -> Contents]
    BY DEF Coherent, TypeOK
  <2>3. QED BY <2>1, <2>2 DEF KvAfter
<1>5. RecurrentCoherent'
  BY <1>1, AfterValue DEF RecurrentCoherent
<1>6. ASSUME NEW i \in 0..(position' - 1)
      PROVE  kvcache'[i] = SubSeq(state', 1, i + 1)
  <2>1. i \in KvSlots
    BY <1>1 DEF KvSlots
  <2>2. CASE i < position
    <3>1. kvcache'[i] = kvcache[i]
      BY <1>1, <2>1, <2>2 DEF KvAfter
    <3>2. kvcache[i] = SubSeq(state, 1, i + 1)
      BY <1>1, <2>2 DEF Coherent, AttentionCoherent
    <3>3. i + 1 \in 0..position
      BY <1>1, <2>2
    <3>4. SubSeq(After(ts, Len(ts)), 1, i + 1) = SubSeq(state, 1, i + 1)
      BY <1>1, <3>3, AfterValue
    <3>5. QED BY <3>1, <3>2, <3>4
  <2>3. CASE ~(i < position)
    <3>1. i - position + 1 \in 0..Len(ts) /\ i \in position..(position + Len(ts) - 1)
      BY <1>1, <2>3
    <3>2. kvcache'[i] = After(ts, i - position + 1)
      BY <2>1, <3>1 DEF KvAfter
    <3>3. SubSeq(After(ts, Len(ts)), 1, position + (i - position + 1))
            = After(ts, i - position + 1)
      BY <1>1, <3>1, AfterValue
    <3>4. position + (i - position + 1) = i + 1
      BY <1>1
    <3>5. QED BY <3>2, <3>3, <3>4
  <2>4. QED BY <2>2, <2>3
<1>7. AttentionCoherent'
  BY <1>6 DEF AttentionCoherent
<1>8. position' \in 0..Context
  BY <1>1
<1>9. QED
  BY <1>3, <1>4, <1>5, <1>7, <1>8

\* One token is a block of width one.
LEMMA SingletonBlock ==
  ASSUME NEW t \in Vocab
  PROVE  <<t>> \in GoodBlocks /\ Len(<<t>>) = 1
  BY DEF GoodBlocks

\* A valid block of a call is a sequence of vocabulary tokens.
LEMMA ValidBlock ==
  ASSUME NEW ts \in Calls, BlockValid(ts)
  PROVE  ts \in GoodBlocks /\ position + Len(ts) <= Context
<1>1. PICK n \in 0..(MaxBlock + 1) : ts \in [1..n -> Inputs]
  BY DEF Calls
<1>2. Len(ts) = n /\ ts \in Seq(Inputs)
  BY <1>1
<1>3. \A i \in 1..n : ts[i] \in Vocab
  BY <1>2 DEF BlockValid
<1>4. ts \in [1..n -> Vocab]
  BY <1>1, <1>3
<1>5. ts \in Seq(Vocab)
  BY <1>1, <1>4
<1>6. QED
  BY <1>2, <1>5 DEF BlockValid, GoodBlocks

\* The rows of a block are histories of vocabulary tokens.
LEMMA RowsType ==
  ASSUME Coherent, NEW ts \in GoodBlocks
  PROVE  RowsOf(ts) \in Seq(Contents)
<1>1. ts \in Seq(Vocab) /\ Len(ts) \in Nat
  BY DEF GoodBlocks
<1>2. \A i \in 1..Len(ts) : After(ts, i) \in Contents
  BY <1>1, AfterValue
<1>3. RowsOf(ts) \in [1..Len(ts) -> Contents]
  BY <1>2 DEF RowsOf
<1>4. QED
  BY <1>1, <1>3

----------------------------------------------------------------------------
\* The invariant, one lemma per call.

\* A buffer the GPU saves before a block is slot 0; later slots are the
\* proper prefixes of what the block leaves live.
LEMMA SnapshotsArePrefixes ==
  ASSUME Coherent, NEW ts \in GoodBlocks, NEW snap \in [SnapSlots -> Contents],
         NEW k \in 0..(Len(ts) - 1)
  PROVE  SnapAfter(snap, state, ts)[k] = SubSeq(After(ts, Len(ts)), 1, position + k)
<1>1. /\ ts \in Seq(Vocab) /\ Len(ts) \in 1..MaxBlock /\ Len(ts) \in 0..Len(ts)
      /\ position \in Nat /\ k \in 0..Len(ts) /\ k \in SnapSlots
      /\ state \in Seq(Vocab) /\ Len(state) = position
  BY DEF GoodBlocks, Coherent, TypeOK, RecurrentCoherent, SnapSlots
<1>2. CASE k = 0
  <2>1. SnapAfter(snap, state, ts)[k] = state
    BY <1>1, <1>2 DEF SnapAfter
  <2>2. position + k = position /\ position \in 0..position
    BY <1>1, <1>2
  <2>3. SubSeq(After(ts, Len(ts)), 1, position) = SubSeq(state, 1, position)
    BY <1>1, <2>2, AfterValue, ZenonT(30)
  <2>4. SubSeq(state, 1, position) = state
    BY <1>1, SubSeqFull
  <2>5. QED BY <2>1, <2>2, <2>3, <2>4
<1>3. CASE k # 0
  <2>1. SnapAfter(snap, state, ts)[k] = After(ts, k)
    BY <1>1, <1>3 DEF SnapAfter
  <2>2. SubSeq(After(ts, Len(ts)), 1, position + k) = After(ts, k)
    BY <1>1, AfterValue
  <2>3. QED BY <2>1, <2>2
<1>4. QED
  BY <1>2, <1>3

\* The snapshots a block leaves are of the right type.
LEMMA SnapshotType ==
  ASSUME Coherent, NEW ts \in GoodBlocks, NEW snap \in [SnapSlots -> Contents]
  PROVE  SnapAfter(snap, state, ts) \in [SnapSlots -> Contents]
<1>1. \A k \in 0..Len(ts) : After(ts, k) \in Contents
  BY AfterValue DEF GoodBlocks
<1>2. \A k \in 1..(Len(ts) - 1) : After(ts, k) \in Contents
  BY <1>1 DEF GoodBlocks
<1>3. state \in Contents
  BY DEF Coherent, TypeOK
<1>4. QED
  BY <1>2, <1>3 DEF SnapAfter

\* A reset, from whatever state, restores the invariant.
LEMMA ResetKeepsInv ==
  ASSUME IInv, ResetBuffers, rows' = <<>>,
         kvcache' \in [KvSlots -> Contents], allocated' \in BOOLEAN,
         batchedDelta' \in BOOLEAN, snapConv' \in [SnapSlots -> Contents],
         snapState' \in [SnapSlots -> Contents]
  PROVE  IInv'
<1>1. Zero \in Seq(Vocab) /\ Len(Zero) = 0 /\ Zero \in Contents
      /\ <<>> \in Seq(Contents)
  BY DEF Zero, Contents
<1>2. NoPending \in [base_position : 0..Context, tokens : 0..MaxBlock]
      /\ NoPending.tokens = 0
  BY DEF NoPending
<1>3. TypeOK'
  BY <1>1, <1>2 DEF ResetBuffers, TypeOK
<1>4. RecurrentCoherent'
  BY <1>1 DEF ResetBuffers, RecurrentCoherent
<1>5. AttentionCoherent'
  BY DEF ResetBuffers, AttentionCoherent
<1>6. PrefixRestorable'
  BY <1>2 DEF ResetBuffers, PrefixRestorable, Idle
<1>7. QED
  BY <1>3, <1>4, <1>5, <1>6 DEF IInv, Coherent

\* A successful forward keeps the invariant.
LEMMA ForwardKeepsInv ==
  ASSUME IInv, NEW t \in Inputs, NEW want \in BOOLEAN, Forward(t, want)
  PROVE  IInv'
<1>1. t \in Vocab /\ position < Context /\ Idle
  BY DEF Forward, ForwardValid
<1>2. Coherent
  BY DEF IInv
<1>3. <<t>> \in GoodBlocks /\ Len(<<t>>) = 1 /\ position + Len(<<t>>) <= Context
  BY <1>1, <1>2, SingletonBlock DEF Coherent, TypeOK
<1>4. /\ conv' = After(<<t>>, Len(<<t>>)) /\ state' = After(<<t>>, Len(<<t>>))
      /\ kvcache' = KvAfter(<<t>>) /\ position' = position + Len(<<t>>)
  BY <1>3 DEF Forward
<1>5. /\ position' \in 0..Context
      /\ conv' \in Contents /\ state' \in Contents
      /\ kvcache' \in [KvSlots -> Contents]
      /\ RecurrentCoherent' /\ AttentionCoherent'
  BY <1>2, <1>3, <1>4, AbsorbKeepsCoherence
<1>6. rows' \in Seq(Contents)
  BY <1>2, <1>3, RowsType DEF Forward
<1>7. TypeOK'
  BY <1>2, <1>5, <1>6 DEF Forward, TypeOK, Coherent
<1>8. PrefixRestorable'
  BY <1>1 DEF Forward, PrefixRestorable, Idle
<1>9. QED
  BY <1>5, <1>7, <1>8 DEF IInv, Coherent

\* A successful block, verified or prefilled, keeps the invariant.
LEMMA BlockKeepsInv ==
  ASSUME IInv, NEW ts \in Calls, BlockEffects(ts), UNCHANGED batchedDelta,
         \/ pending' = NoPending
         \/ pending' = [base_position |-> position, tokens |-> Len(ts)]
  PROVE  IInv'
<1>1. ts \in GoodBlocks /\ position + Len(ts) <= Context
  BY ValidBlock DEF BlockEffects
<1>2. Coherent /\ conv = state
  BY DEF IInv, Coherent, RecurrentCoherent
<1>3. Len(ts) \in 1..MaxBlock /\ position \in 0..Context
  BY <1>1, <1>2 DEF GoodBlocks, Coherent, TypeOK
<1>4. /\ conv' = After(ts, Len(ts)) /\ state' = After(ts, Len(ts))
      /\ kvcache' = KvAfter(ts) /\ position' = position + Len(ts)
      /\ snapConv' = SnapAfter(snapConv, state, ts)
      /\ snapState' = SnapAfter(snapState, state, ts)
      /\ rows' = RowsOf(ts) /\ allocated' = TRUE
  BY <1>2 DEF BlockEffects
<1>5. /\ position' \in 0..Context
      /\ conv' \in Contents /\ state' \in Contents
      /\ kvcache' \in [KvSlots -> Contents]
      /\ RecurrentCoherent' /\ AttentionCoherent'
  BY <1>1, <1>2, <1>4, AbsorbKeepsCoherence
<1>6. snapConv \in [SnapSlots -> Contents] /\ snapState \in [SnapSlots -> Contents]
  BY <1>2 DEF Coherent, TypeOK
<1>7. snapConv' \in [SnapSlots -> Contents] /\ snapState' \in [SnapSlots -> Contents]
  BY <1>1, <1>2, <1>4, <1>6, SnapshotType
<1>8. rows' \in Seq(Contents)
  BY <1>1, <1>2, <1>4, RowsType
<1>9. pending' \in [base_position : 0..Context, tokens : 0..MaxBlock]
  BY <1>3 DEF NoPending
<1>10. TypeOK'
  BY <1>2, <1>4, <1>5, <1>7, <1>8, <1>9 DEF TypeOK, Coherent
<1>11. PrefixRestorable'
  <2>1. CASE pending' = NoPending
    BY <2>1 DEF PrefixRestorable, Idle, NoPending
  <2>2. CASE pending' = [base_position |-> position, tokens |-> Len(ts)]
    <3>1. pending'.base_position = position /\ pending'.tokens = Len(ts)
      BY <2>2
    <3>2. ASSUME NEW k \in 0..(Len(ts) - 1)
          PROVE  /\ snapConv'[k] = SubSeq(state', 1, position + k)
                 /\ snapState'[k] = SubSeq(state', 1, position + k)
      BY <1>1, <1>2, <1>4, <1>6, SnapshotsArePrefixes
    <3>3. QED BY <1>4, <3>1, <3>2 DEF PrefixRestorable
  <2>3. QED BY <2>1, <2>2
<1>12. QED
  BY <1>5, <1>10, <1>11 DEF IInv, Coherent

\* After a commit the live buffers are the accepted prefix.
LEMMA CommitValue ==
  ASSUME IInv, NEW n \in 0..(MaxBlock + 1), CommitBlockPrefix(n)
  PROVE  /\ n \in 0..pending.tokens /\ pending.tokens # 0
         /\ pending.base_position \in 0..position
         /\ position = pending.base_position + pending.tokens
         /\ pending.base_position + n \in 0..position
         /\ conv' = SubSeq(state, 1, pending.base_position + n)
         /\ state' = SubSeq(state, 1, pending.base_position + n)
         /\ position' = pending.base_position + n
<1>1. /\ state \in Seq(Vocab) /\ conv = state /\ Len(state) = position
      /\ position \in 0..Context
      /\ pending \in [base_position : 0..Context, tokens : 0..MaxBlock]
  BY DEF IInv, Coherent, TypeOK, RecurrentCoherent
<1>2. pending.tokens # 0 /\ n <= pending.tokens
  BY DEF CommitBlockPrefix, CommitValid, Idle
<1>3. /\ position = pending.base_position + pending.tokens
      /\ \A k \in 0..(pending.tokens - 1) :
           /\ snapConv[k]  = SubSeq(state, 1, pending.base_position + k)
           /\ snapState[k] = SubSeq(state, 1, pending.base_position + k)
  BY <1>2 DEF IInv, PrefixRestorable, Idle
<1>4. /\ n \in 0..pending.tokens /\ pending.base_position \in 0..position
      /\ pending.base_position + n \in 0..position
  BY <1>1, <1>2, <1>3
<1>5. CASE n = pending.tokens
  <2>1. conv' = state /\ state' = state /\ pending.base_position + n = position
    BY <1>1, <1>3, <1>5 DEF CommitBlockPrefix
  <2>2. SubSeq(state, 1, position) = state
    BY <1>1, SubSeqFull
  <2>3. QED BY <1>2, <1>3, <1>4, <2>1, <2>2 DEF CommitBlockPrefix
<1>6. CASE n # pending.tokens
  <2>1. n \in 0..(pending.tokens - 1)
    BY <1>1, <1>4, <1>6
  <2>2. conv' = snapConv[n] /\ state' = snapState[n]
    BY <1>6 DEF CommitBlockPrefix
  <2>3. QED BY <1>2, <1>3, <1>4, <2>1, <2>2 DEF CommitBlockPrefix
<1>7. QED
  BY <1>5, <1>6

\* A commit of any prefix keeps the invariant.
LEMMA CommitKeepsInv ==
  ASSUME IInv, NEW n \in 0..(MaxBlock + 1), CommitBlockPrefix(n)
  PROVE  IInv'
<1> DEFINE end == pending.base_position + n
<1>1. /\ end \in 0..position /\ position' = end
      /\ conv' = SubSeq(state, 1, end) /\ state' = SubSeq(state, 1, end)
  BY CommitValue
<1>2. state \in Seq(Vocab) /\ Len(state) = position /\ position \in 0..Context
  BY DEF IInv, Coherent, TypeOK, RecurrentCoherent
<1>3. pending' = NoPending /\ kvcache' = kvcache /\ rows' = <<>>
      /\ UNCHANGED <<allocated, batchedDelta, snapConv, snapState>>
  BY DEF CommitBlockPrefix
<1> HIDE DEF end
<1>4. state' \in Seq(Vocab) /\ Len(state') = end
  BY <1>1, <1>2, PrefixType
<1>5. RecurrentCoherent'
  BY <1>1, <1>4 DEF RecurrentCoherent
<1>6. ASSUME NEW i \in 0..(end - 1)
      PROVE  kvcache[i] = SubSeq(state', 1, i + 1)
  <2>1. i \in 0..(position - 1) /\ i + 1 \in 0..end
    BY <1>1, <1>2
  <2>2. kvcache[i] = SubSeq(state, 1, i + 1)
    BY <2>1 DEF IInv, Coherent, AttentionCoherent
  <2>3. SubSeq(SubSeq(state, 1, end), 1, i + 1) = SubSeq(state, 1, i + 1)
    BY <1>1, <1>2, <2>1, PrefixOfPrefix
  <2>4. QED BY <1>1, <2>2, <2>3
<1>7. AttentionCoherent'
  BY <1>1, <1>3, <1>6 DEF AttentionCoherent
<1>8. TypeOK'
  <2>1. NoPending \in [base_position : 0..Context, tokens : 0..MaxBlock]
    BY DEF NoPending
  <2>2. end \in 0..Context
    BY <1>1, <1>2
  <2>3. QED BY <1>1, <1>3, <1>4, <2>1, <2>2 DEF IInv, Coherent, TypeOK, Contents
<1>9. PrefixRestorable'
  BY <1>3 DEF PrefixRestorable, Idle, NoPending
<1>10. QED
  BY <1>5, <1>7, <1>8, <1>9 DEF IInv, Coherent

\* What a failed command leaves in the slots is of the right type.
LEMMA FailedForwardKeepsInv ==
  ASSUME IInv, NEW t \in Inputs, FailedForward(t)
  PROVE  IInv'
<1>1. Coherent /\ TypeOK /\ t \in Vocab
  BY DEF IInv, Coherent, FailedForward, ForwardValid
<1>2. After(<<t>>, 1) \in Contents /\ Garbage \in Contents
  <2>1. <<t>> \in Seq(Vocab) /\ 1 \in 0..Len(<<t>>)
    BY <1>1, SingletonBlock DEF GoodBlocks
  <2>2. After(<<t>>, 1) \in Contents
    BY <1>1, <2>1, AfterValue
  <2>3. QED BY <2>2 DEF Contents
<1>3. position \in KvSlots
  BY <1>1 DEF FailedForward, ForwardValid, TypeOK, KvSlots
<1>4. kvcache' \in [KvSlots -> Contents]
  BY <1>1, <1>2, <1>3 DEF FailedForward, TypeOK
<1>5. QED
  BY <1>1, <1>4, ResetKeepsInv DEF FailedForward, TypeOK

\* A block that fails after any number of dispatches keeps the invariant.
LEMMA FailedBlockKeepsInv ==
  ASSUME IInv, NEW ts \in Calls, FailedBlock(ts)
  PROVE  IInv'
<1>1. Coherent /\ TypeOK /\ conv = state
  BY DEF IInv, Coherent, RecurrentCoherent
<1>2. ts \in GoodBlocks /\ position + Len(ts) <= Context
  BY ValidBlock DEF FailedBlock
<1>3. KvAfter(ts) \in [KvSlots -> Contents]
  <2>1. \A k \in 0..Len(ts) : After(ts, k) \in Contents
    BY <1>1, <1>2, AfterValue DEF GoodBlocks
  <2>2. ASSUME NEW i \in KvSlots, i \in position..(position + Len(ts) - 1)
        PROVE  After(ts, i - position + 1) \in Contents
    BY <1>1, <1>2, <2>1, <2>2 DEF TypeOK, GoodBlocks, KvSlots
  <2>3. QED BY <1>1, <2>2 DEF KvAfter, TypeOK
<1>4. /\ SnapAfter(snapConv, conv, ts) \in [SnapSlots -> Contents]
      /\ SnapAfter(snapState, state, ts) \in [SnapSlots -> Contents]
  BY <1>1, <1>2, SnapshotType DEF TypeOK
<1>5. /\ kvcache' \in [KvSlots -> Contents]
      /\ snapConv' \in [SnapSlots -> Contents]
      /\ snapState' \in [SnapSlots -> Contents]
  BY <1>1, <1>3, <1>4 DEF FailedBlock, TypeOK, Contents
<1>6. QED
  BY <1>1, <1>5, ResetKeepsInv DEF FailedBlock, TypeOK

\* Every call preserves the invariant.
LEMMA NextKeepsInv == IInv /\ [Next]_vars => IInv'
<1> SUFFICES ASSUME IInv, [Next]_vars PROVE IInv'
  OBVIOUS
<1>1. TypeOK
  BY DEF IInv, Coherent
<1>2. CASE Reset
  BY <1>1, <1>2, ResetKeepsInv DEF Reset, TypeOK
<1>3. CASE \E t \in Inputs, want \in BOOLEAN : Forward(t, want)
  BY <1>3, ForwardKeepsInv
<1>4. CASE \E t \in Inputs : FailedForward(t)
  BY <1>4, FailedForwardKeepsInv
<1>5. ASSUME NEW ts \in Calls,
             VerifyBlock(ts) \/ PrefillBlock(ts) \/ FailedBlock(ts)
      PROVE  IInv'
  <2>1. CASE VerifyBlock(ts)
    BY <2>1, BlockKeepsInv DEF VerifyBlock
  <2>2. CASE PrefillBlock(ts)
    BY <2>2, BlockKeepsInv DEF PrefillBlock
  <2>3. CASE FailedBlock(ts)
    BY <2>3, FailedBlockKeepsInv
  <2>4. QED BY <1>5, <2>1, <2>2, <2>3
<1>6. ASSUME NEW n \in 0..(MaxBlock + 1), CommitBlockPrefix(n) \/ FailedCommit(n)
      PROVE  IInv'
  <2>1. CASE CommitBlockPrefix(n)
    BY <2>1, CommitKeepsInv
  <2>2. CASE FailedCommit(n)
    BY <1>1, <2>2, ResetKeepsInv DEF FailedCommit, TypeOK
  <2>3. QED BY <1>6, <2>1, <2>2
<1>7. CASE \E mode \in BOOLEAN : SetBlockKernelMode(mode)
  BY <1>7 DEF SetBlockKernelMode, IInv, Coherent, TypeOK, RecurrentCoherent,
              AttentionCoherent, PrefixRestorable, Idle
<1>8. CASE Refused
  BY <1>8 DEF Refused, IInv, Coherent, TypeOK, RecurrentCoherent,
              AttentionCoherent, PrefixRestorable, Idle
<1>9. CASE UNCHANGED vars
  BY <1>9 DEF vars, IInv, Coherent, TypeOK, RecurrentCoherent,
              AttentionCoherent, PrefixRestorable, Idle
<1>10. QED
  BY <1>2, <1>3, <1>4, <1>5, <1>6, <1>7, <1>8, <1>9 DEF Next

\* The loaded engine satisfies the invariant.
LEMMA InitInv == Init => IInv
<1> SUFFICES ASSUME Init PROVE IInv
  OBVIOUS
<1>1. Zero \in Seq(Vocab) /\ Len(Zero) = 0 /\ Zero \in Contents
      /\ <<>> \in Seq(Contents) /\ Garbage \in Contents
  BY DEF Zero, Contents
<1>2. pending.tokens = 0
      /\ pending \in [base_position : 0..Context, tokens : 0..MaxBlock]
  BY DEF Init, NoPending
<1>3. TypeOK
  <2>1. /\ kvcache \in [KvSlots -> Contents] /\ snapConv \in [SnapSlots -> Contents]
        /\ snapState \in [SnapSlots -> Contents]
    BY <1>1 DEF Init
  <2>2. position \in 0..Context
    BY DEF Init
  <2>3. allocated \in BOOLEAN /\ batchedDelta \in BOOLEAN
    BY Zenon DEF Init
  <2>4. conv \in Contents /\ state \in Contents /\ rows \in Seq(Contents)
    BY <1>1 DEF Init
  <2>5. QED BY <1>2, <2>1, <2>2, <2>3, <2>4 DEF TypeOK
<1>4. RecurrentCoherent /\ AttentionCoherent
  BY <1>1 DEF Init, RecurrentCoherent, AttentionCoherent
<1>5. PrefixRestorable
  BY <1>2 DEF PrefixRestorable, Idle
<1>6. QED
  BY <1>3, <1>4, <1>5 DEF IInv, Coherent

----------------------------------------------------------------------------
\* The theorems.

\* The inductive invariant holds in every reachable state.
THEOREM InvariantHolds == Spec => []IInv
  BY InitInv, NextKeepsInv, PTL DEF Spec

\* Every variable of the engine keeps its type: the position stays within
\* the context and buffers hold a history of vocabulary tokens or Garbage.
THEOREM TypeCorrect == Spec => []TypeOK
<1>1. IInv => TypeOK
  BY DEF IInv, Coherent
<1>2. QED
  BY <1>1, InvariantHolds, PTL

\* conv_state and state always hold the same history, as long as position.
THEOREM RecurrentStateCorrect == Spec => []RecurrentCoherent
<1>1. IInv => RecurrentCoherent
  BY DEF IInv, Coherent
<1>2. QED
  BY <1>1, InvariantHolds, PTL

\* Every KV slot below position belongs to the live history.
THEOREM AttentionCorrect == Spec => []AttentionCoherent
<1>1. IInv => AttentionCoherent
  BY DEF IInv, Coherent
<1>2. QED
  BY <1>1, InvariantHolds, PTL

\* Whatever prefix a commit may ask for, its snapshots are there.
THEOREM SnapshotsCorrect == Spec => []PrefixRestorable
<1>1. IInv => PrefixRestorable
  BY DEF IInv
<1>2. QED
  BY <1>1, InvariantHolds, PTL

\* A change of the block kernel schedule finds both buffers zeroed.
THEOREM ScheduleCorrect == Spec => ScheduleChangesOnZeroState
<1>1. IInv /\ [Next]_vars
        => [batchedDelta' # batchedDelta => conv = Zero /\ state = Zero]_vars
  <2> SUFFICES ASSUME IInv, Next, batchedDelta' # batchedDelta
               PROVE  conv = Zero /\ state = Zero
    BY DEF vars
  <2>1. position = 0
    BY DEF Next, Reset, Forward, FailedForward, VerifyBlock, PrefillBlock,
           FailedBlock, CommitBlockPrefix, FailedCommit, SetBlockKernelMode,
           SetModeValid, Refused
  <2>2. conv = state /\ state \in Seq(Vocab) /\ Len(state) = 0
    BY <2>1 DEF IInv, Coherent, RecurrentCoherent
  <2>3. state = <<>>
    BY <2>2, EmptySeq
  <2>4. QED BY <2>2, <2>3 DEF Zero
<1>2. QED
  BY <1>1, InvariantHolds, PTL DEF Spec, ScheduleChangesOnZeroState

----------------------------------------------------------------------------
\* Engine implements TargetLog.

\* A valid block is one the log accepts.
LEMMA BlockOfLog ==
  ASSUME NEW ts \in GoodBlocks
  PROVE  ts \in Log!Blocks
<1>1. ts \in Seq(Vocab) /\ Len(ts) \in 1..MaxBlock
  BY DEF GoodBlocks
<1>2. ts \in [1..Len(ts) -> Vocab]
  BY <1>1, LenProperties
<1>3. QED
  BY <1>1, <1>2 DEF Log!Blocks

\* What a block leaves live is the log of before it, then the block.
LEMMA LiveAfterBlock ==
  ASSUME Coherent, NEW ts \in GoodBlocks
  PROVE  /\ After(ts, Len(ts)) = state \o ts
         /\ SubSeq(After(ts, Len(ts)), 1, position) = state
         /\ SubSeq(After(ts, Len(ts)), position + 1, position + Len(ts)) = ts
         /\ RowsOf(ts) = Log!RowsAfter(state, ts)
<1>1. /\ ts \in Seq(Vocab) /\ Len(ts) \in Nat /\ Len(ts) \in 1..MaxBlock
      /\ state \in Seq(Vocab) /\ Len(state) = position /\ position \in Nat
      /\ Len(ts) \in 0..Len(ts)
  BY DEF GoodBlocks, Coherent, TypeOK, RecurrentCoherent
<1>2. \A k \in 0..Len(ts) : After(ts, k) = state \o SubSeq(ts, 1, k)
  BY <1>1, AfterValue DEF Extended
<1>3. SubSeq(ts, 1, Len(ts)) = ts
  BY <1>1, SubSeqFull
<1>4. After(ts, Len(ts)) = state \o ts
  BY <1>1, <1>2, <1>3
<1>5. SubSeq(After(ts, Len(ts)), 1, position) = state
  <2>1. position \in 0..position
    BY <1>1
  <2>2. SubSeq(After(ts, Len(ts)), 1, position) = SubSeq(state, 1, position)
    BY <1>1, <2>1, AfterValue, ZenonT(30)
  <2>3. SubSeq(state, 1, position) = state
    BY <1>1, SubSeqFull
  <2>4. QED BY <2>2, <2>3
<1>6. SubSeq(After(ts, Len(ts)), position + 1, position + Len(ts)) = ts
  <2> DEFINE m == position + 1
             n == position + Len(ts)
  <2>1. m \in Len(state)+1 .. Len(state)+Len(ts) /\ n \in Len(state)+1 .. Len(state)+Len(ts)
    BY <1>1
  <2>2. m - Len(state) = 1 /\ n - Len(state) = Len(ts)
    BY <1>1
  <2> HIDE DEF m, n
  <2>3. SubSeq(state \o ts, m, n) = SubSeq(ts, m - Len(state), n - Len(state))
    BY <1>1, <2>1, SubSeqOfConcat2
  <2>4. SubSeq(After(ts, Len(ts)), m, n) = ts
    BY <1>3, <1>4, <2>2, <2>3
  <2>5. QED BY <2>4 DEF m, n
<1>7. RowsOf(ts) = Log!RowsAfter(state, ts)
  BY <1>1, <1>2, SMTT(30) DEF RowsOf, Log!RowsAfter
<1>8. QED
  BY <1>4, <1>5, <1>6, <1>7

\* A call that absorbs tokens and leaves nothing pending.
LEMMA AbsorbStep ==
  ASSUME Coherent, Idle, NEW ts \in GoodBlocks, position + Len(ts) <= Context,
         state' = After(ts, Len(ts)), rows' \in {<<>>, RowsOf(ts)},
         pending'.tokens = 0
  PROVE  Log!Next
<1>1. /\ After(ts, Len(ts)) = state \o ts
      /\ RowsOf(ts) = Log!RowsAfter(state, ts)
  BY LiveAfterBlock
<1>2. LogOf = state /\ ProposalOf = <<>> /\ LogOf' = state' /\ ProposalOf' = <<>>
  BY DEF LogOf, ProposalOf, Idle
<1>3. Len(state) = position
  BY DEF Coherent, RecurrentCoherent
<1>4. Log!Absorb(ts)
  BY <1>1, <1>2, <1>3 DEF Log!Absorb
<1>5. QED
  BY <1>4, BlockOfLog DEF Log!Next

\* Evaluating a block is a Propose of the log.
LEMMA VerifyStep ==
  ASSUME Coherent, NEW ts \in Calls, VerifyBlock(ts)
  PROVE  Log!Next
<1>1. ts \in GoodBlocks /\ position + Len(ts) <= Context
  BY ValidBlock DEF VerifyBlock, BlockEffects
<1>2. Idle /\ Len(ts) # 0 /\ Len(state) = position
  BY <1>1 DEF VerifyBlock, BlockEffects, BlockValid, GoodBlocks, Coherent,
              RecurrentCoherent
<1>3. /\ state' = After(ts, Len(ts)) /\ position' = position + Len(ts)
      /\ rows' = RowsOf(ts)
      /\ pending'.base_position = position /\ pending'.tokens = Len(ts)
  BY DEF VerifyBlock, BlockEffects
<1>4. LogOf = state /\ ProposalOf = <<>>
  BY <1>2 DEF LogOf, ProposalOf
<1>5. /\ LogOf' = SubSeq(state', 1, position)
      /\ ProposalOf' = SubSeq(state', position + 1, position + Len(ts))
  BY <1>2, <1>3 DEF LogOf, ProposalOf, Idle
<1>6. LogOf' = state /\ ProposalOf' = ts /\ rows' = Log!RowsAfter(state, ts)
  BY <1>1, <1>3, <1>5, LiveAfterBlock
<1>7. Log!Propose(ts)
  BY <1>1, <1>2, <1>4, <1>6 DEF Log!Propose
<1>8. QED
  BY <1>1, <1>7, BlockOfLog DEF Log!Next

\* Committing a prefix is an Accept of the log.
LEMMA CommitStep ==
  ASSUME IInv, NEW n \in 0..(MaxBlock + 1), CommitBlockPrefix(n)
  PROVE  Log!Next
<1> DEFINE base  == pending.base_position
           width == pending.tokens
<1>1. /\ n \in 0..width /\ width # 0
      /\ base \in 0..position /\ position = base + width
      /\ base + n \in 0..position /\ state' = SubSeq(state, 1, base + n)
  BY CommitValue
<1>2. /\ state \in Seq(Vocab) /\ Len(state) = position /\ position \in Nat
      /\ width \in 0..MaxBlock /\ MaxBlock \in Nat /\ base \in Nat
      /\ n \in Nat /\ width \in Nat
  BY DEF IInv, Coherent, TypeOK, RecurrentCoherent
<1>3. /\ LogOf = SubSeq(state, 1, base)
      /\ ProposalOf = SubSeq(state, base + 1, position)
  BY <1>1 DEF LogOf, ProposalOf, Idle
<1>4. pending'.tokens = 0 /\ rows' = <<>>
  BY DEF CommitBlockPrefix, NoPending
<1>5. LogOf' = SubSeq(state, 1, base + n) /\ ProposalOf' = <<>>
  BY <1>1, <1>4 DEF LogOf, ProposalOf, Idle
<1> HIDE DEF base, width
<1> DEFINE prop == SubSeq(state, base + 1, position)
<1>6. /\ prop \in Seq(Vocab) /\ Len(prop) = width
      /\ \A i \in 1..width : prop[i] = state[base + i]
  <2>1. \A i \in (base + 1)..position : state[i] \in Vocab
    BY <1>1, <1>2, ElementOfSeq
  <2>2. /\ prop \in Seq(Vocab)
        /\ Len(prop) = IF base + 1 <= position THEN position - (base + 1) + 1 ELSE 0
        /\ \A i \in 1..(position - (base + 1) + 1) : prop[i] = state[base + 1 + i - 1]
    BY <1>1, <1>2, <2>1, SubSeqProperties
  <2>3. position - (base + 1) + 1 = width /\ base + 1 <= position
    BY <1>1, <1>2
  <2>4. prop \in Seq(Vocab) /\ Len(prop) = width
    BY <2>2, <2>3
  <2>5. \A i \in 1..width : prop[i] = state[base + 1 + i - 1]
    BY <2>2, <2>3
  <2> HIDE DEF prop
  <2>6. ASSUME NEW i \in 1..width PROVE prop[i] = state[base + i]
    <3>1. base + 1 + i - 1 = base + i
      BY <1>2
    <3>2. QED BY <2>5, <3>1
  <2>7. QED BY <2>4, <2>6
<1>7. ProposalOf = prop
  BY <1>3
<1> HIDE DEF prop
<1>8. n <= Len(prop) /\ prop # <<>> /\ n \in 0..Len(prop)
  BY <1>1, <1>2, <1>6
<1> DEFINE p == SubSeq(prop, 1, n)
           b == SubSeq(state, 1, base)
           w == SubSeq(state, 1, base + n)
<1>9. p \in Seq(Vocab) /\ Len(p) = n /\ \A i \in 1..n : p[i] = prop[i]
  BY <1>6, <1>8, PrefixType
<1>10. b \in Seq(Vocab) /\ Len(b) = base /\ \A i \in 1..base : b[i] = state[i]
  BY <1>1, <1>2, PrefixType
<1>11. w \in Seq(Vocab) /\ Len(w) = base + n /\ \A i \in 1..(base + n) : w[i] = state[i]
  BY <1>1, <1>2, PrefixType
<1> HIDE DEF p, b, w
<1>12. /\ b \o p \in Seq(Vocab) /\ Len(b \o p) = base + n
       /\ \A i \in 1..(base + n) :
            (b \o p)[i] = IF i <= base THEN b[i] ELSE p[i - base]
  <2>1. b \in Seq(Vocab) /\ p \in Seq(Vocab)
    BY <1>9, <1>10
  <2>2. /\ b \o p \in Seq(Vocab) /\ Len(b \o p) = Len(b) + Len(p)
        /\ \A i \in 1..(Len(b) + Len(p)) :
             (b \o p)[i] = IF i <= Len(b) THEN b[i] ELSE p[i - Len(b)]
    BY <2>1, ConcatProperties, ZenonT(30)
  <2> QED
    BY <1>9, <1>10, <2>2
<1>13. ASSUME NEW i \in 1..(base + n) PROVE (b \o p)[i] = w[i]
  <2>1. CASE i <= base
    BY <1>1, <1>2, <1>10, <1>11, <1>12, <2>1
  <2>2. CASE ~(i <= base)
    <3>1. i - base \in 1..n /\ i - base \in 1..width /\ base + (i - base) = i
      BY <1>1, <1>2, <2>2
    <3>2. p[i - base] = prop[i - base]
      BY <1>9, <3>1
    <3>3. prop[i - base] = state[base + (i - base)]
      BY <1>6, <3>1
    <3>4. w[i] = state[i]
      BY <1>11
    <3>5. (b \o p)[i] = p[i - base]
      BY <1>12, <2>2
    <3>6. QED BY <3>1, <3>2, <3>3, <3>4, <3>5
  <2>3. QED BY <2>1, <2>2
<1>14. b \o p = w
  BY <1>11, <1>12, <1>13, SeqEqual
<1>15. Log!Accept(n)
  BY <1>3, <1>4, <1>5, <1>7, <1>8, <1>14 DEF Log!Accept, p, b, w
<1>16. n \in 0..MaxBlock
  BY <1>1, <1>2
<1>17. QED
  BY <1>15, <1>16 DEF Log!Next

\* A reset is a Forget of the log.
LEMMA ForgetStep ==
  ASSUME ResetBuffers, rows' = <<>>
  PROVE  Log!Next
<1>1. LogOf' = <<>> /\ ProposalOf' = <<>>
  BY DEF ResetBuffers, LogOf, ProposalOf, Idle, NoPending, Zero
<1>2. QED
  BY <1>1 DEF Log!Next, Log!Forget

\* Every step of the engine is a step of the log or leaves it alone.
LEMMA StepSimulates == IInv /\ [Next]_vars => [Log!Next]_(Log!logVars)
<1> SUFFICES ASSUME IInv, [Next]_vars
             PROVE  [Log!Next]_(Log!logVars)
  OBVIOUS
<1>0. Coherent
  BY DEF IInv
<1>1. CASE Reset
  BY <1>1, ForgetStep DEF Reset
<1>2. ASSUME NEW t \in Inputs, NEW want \in BOOLEAN, Forward(t, want)
      PROVE  Log!Next
  <2>1. t \in Vocab /\ position < Context /\ Idle
    BY <1>2 DEF Forward, ForwardValid
  <2>2. <<t>> \in GoodBlocks /\ Len(<<t>>) = 1 /\ position + Len(<<t>>) <= Context
    BY <1>0, <2>1, SingletonBlock DEF Coherent, TypeOK
  <2>3. /\ state' = After(<<t>>, Len(<<t>>)) /\ rows' \in {<<>>, RowsOf(<<t>>)}
        /\ pending'.tokens = 0
    BY <1>2, <2>1, <2>2 DEF Forward, Idle
  <2>4. QED BY <1>0, <2>1, <2>2, <2>3, AbsorbStep
<1>3. CASE \E t \in Inputs : FailedForward(t)
  BY <1>3, ForgetStep DEF FailedForward
<1>4. ASSUME NEW ts \in Calls,
             VerifyBlock(ts) \/ PrefillBlock(ts) \/ FailedBlock(ts)
      PROVE  Log!Next
  <2>1. CASE VerifyBlock(ts)
    BY <1>0, <2>1, VerifyStep
  <2>2. CASE PrefillBlock(ts)
    <3>1. ts \in GoodBlocks /\ position + Len(ts) <= Context /\ Idle
      BY <2>2, ValidBlock DEF PrefillBlock, BlockEffects, BlockValid
    <3>2. /\ state' = After(ts, Len(ts)) /\ rows' \in {<<>>, RowsOf(ts)}
          /\ pending'.tokens = 0
      BY <2>2 DEF PrefillBlock, BlockEffects, NoPending
    <3>3. QED BY <1>0, <3>1, <3>2, AbsorbStep
  <2>3. CASE FailedBlock(ts)
    BY <2>3, ForgetStep DEF FailedBlock
  <2>4. QED BY <1>4, <2>1, <2>2, <2>3
<1>5. ASSUME NEW n \in 0..(MaxBlock + 1), CommitBlockPrefix(n) \/ FailedCommit(n)
      PROVE  Log!Next
  BY <1>5, CommitStep, ForgetStep DEF FailedCommit
<1>6. ASSUME UNCHANGED <<state, position, pending>>, rows' = <<>>
      PROVE  Log!Next
  BY <1>6 DEF Log!Next, Log!Refuse, LogOf, ProposalOf, Idle
<1>7. CASE \E mode \in BOOLEAN : SetBlockKernelMode(mode)
  BY <1>6, <1>7 DEF SetBlockKernelMode
<1>8. CASE Refused
  BY <1>6, <1>8 DEF Refused
<1>9. CASE UNCHANGED vars
  BY <1>9 DEF vars, Log!logVars, LogOf, ProposalOf, Idle
<1>10. QED
  BY <1>1, <1>2, <1>3, <1>4, <1>5, <1>7, <1>8, <1>9 DEF Next

\* The loaded engine is the empty log.
LEMMA InitSimulates == Init => Log!Init
  BY DEF Init, Log!Init, LogOf, ProposalOf, Idle, NoPending, Zero

\* The engine, with its buffers, slots and snapshots, implements the log of
\* tokens its callers see.
THEOREM EngineImplementsLog == Spec => ImplementsLog
  BY InitSimulates, StepSimulates, InvariantHolds, PTL
     DEF Spec, ImplementsLog, Log!Spec
=============================================================================
