-------------------------- MODULE CheckpointProofs --------------------------
(***************************************************************************)
(* Proofs about the loading of a checkpoint, for any shards, names and     *)
(* contents: reading the files one after the other decides exactly whether *)
(* the checkpoint is consistent as a whole, and the norm weights of what   *)
(* is opened are all taken the same way.                                   *)
(*                                                                         *)
(* The loader remembers little: canonical names, the index names it has    *)
(* met, one layout.  The invariant IInv says that this is all there is to  *)
(* know of the files read so far, and that they agree.                     *)
(*                                                                         *)
(* And about the reading of one file's header, for any width of usize and  *)
(* any entries: checked arithmetic refuses just what no file could hold    *)
(* (LengthIsExact, FitIsExact), and sorting the ranges and scanning them   *)
(* decides just whether they partition the data (TilesIsExact).  FileInv   *)
(* says what the entries read so far have left behind.                     *)
(***************************************************************************)
EXTENDS Checkpoint, Safetensors, SequenceTheorems, FiniteSetTheorems, WellFoundedInduction,
        TLAPS

Read == [file : Shards \cup {NoIndex}, contents : SUBSET Tensor]
LayoutsOfConvs == {"hf", "mlx", "ambiguous"}

\* Tensor t was read with the i-th file.
At(ss, i, t) == i \in 1..Len(ss) /\ t \in ss[i].contents

\* What was read agrees with the index and with itself.
Agreed(ss, index) ==
  /\ index # NoIndex =>
       \A i, t : At(ss, i, t) => t.name \in DOMAIN index /\ index[t.name] = ss[i].file
  /\ \A i, t, j, u :
       At(ss, i, t) /\ At(ss, j, u) /\ Canonical(t.name) = Canonical(u.name) => i = j /\ t = u
  /\ \A i, t, j, u :
       At(ss, i, t) /\ At(ss, j, u) /\ t.layout # "none" /\ u.layout # "none" =>
         t.layout = u.layout
  /\ \A i, t : At(ss, i, t) => t.layout # "ambiguous"

\* What the loader keeps of it.
NamesKept(ss, index, names) ==
  index # NoIndex => \A n : n \in names <=> \E i, t : At(ss, i, t) /\ t.name = n
TensorsKept(ss, ts) ==
  \A c : c \in DOMAIN ts <=> \E i, t : At(ss, i, t) /\ Canonical(t.name) = c
LayoutKept(ss, layout) ==
  /\ \A i, t : At(ss, i, t) => t.layout \in {"none", layout}
  /\ layout # "none" => \E i, t : At(ss, i, t) /\ t.layout = layout

TypeOK ==
  /\ weight_map # NoIndex => IsFiniteSet(DOMAIN weight_map)
  /\ unread \subseteq Shards \cup {NoIndex}
  /\ shards \in Seq(Read)
  /\ conv_layout \in {"none", "hf", "mlx"}
  /\ outcome \in {"reading", "refused", "incomplete", "opened"}

Gathered ==
  /\ Agreed(shards, weight_map)
  /\ NamesKept(shards, weight_map, seen)
  /\ TensorsKept(shards, tensors)
  /\ LayoutKept(shards, conv_layout)

IInv ==
  /\ TypeOK
  /\ outcome # "refused" => Gathered
  /\ outcome = "refused" => ~Agreed(shards, weight_map)
  /\ outcome = "incomplete" => weight_map # NoIndex /\ seen # DOMAIN weight_map
  /\ outcome = "opened" =>
       /\ weight_map # NoIndex => seen = DOMAIN weight_map
       /\ conv_layout # "none" => \A c \in DOMAIN tensors : tensors[c] <=> conv_layout = "hf"

----------------------------------------------------------------------------
\* Sets and the definitions they stand for.

LEMMA AtMostOne ==
  ASSUME NEW L, IsFiniteSet(L)
  PROVE  Cardinality(L) <= 1 <=> \A x, y \in L : x = y
<1>1. ASSUME Cardinality(L) <= 1, NEW x \in L, NEW y \in L, x # y PROVE FALSE
  <2>1. IsFiniteSet({x}) /\ Cardinality({x}) = 1
    BY FS_Singleton
  <2>2. Cardinality({x} \cup {y}) = 2
    BY <1>1, <2>1, FS_AddElement
  <2>3. {x} \cup {y} \in SUBSET L
    OBVIOUS
  <2>4. Cardinality({x} \cup {y}) <= Cardinality(L)
    BY <2>3, FS_Subset
  <2>5. Cardinality(L) \in Nat
    BY FS_CardinalityType
  <2> QED
    BY <1>1, <2>2, <2>4, <2>5
<1>2. ASSUME \A x, y \in L : x = y PROVE Cardinality(L) <= 1
  <2>1. CASE L = {}
    BY <2>1, FS_EmptySet
  <2>2. CASE L # {}
    <3>1. PICK x : x \in L
      BY <2>2
    <3>2. L = {x}
      BY <1>2, <3>1
    <3> QED
      BY <3>2, FS_Singleton
  <2> QED
    BY <2>1, <2>2
<1> QED
  BY <1>1, <1>2

LEMMA FewLayouts == IsFiniteSet(LayoutsOfConvs)
<1>1. IsFiniteSet({"hf"})
  BY FS_Singleton
<1>2. IsFiniteSet({"hf"} \cup {"mlx"})
  BY <1>1, FS_AddElement
<1>3. IsFiniteSet(({"hf"} \cup {"mlx"}) \cup {"ambiguous"})
  BY <1>2, FS_AddElement
<1>4. ({"hf"} \cup {"mlx"}) \cup {"ambiguous"} = LayoutsOfConvs
  BY DEF LayoutsOfConvs
<1> QED
  BY <1>3, <1>4

LEMMA LayoutType ==
  ASSUME NEW t \in Tensor
  PROVE  t.layout \in LayoutsOfConvs \cup {"none"}
BY DEF Tensor, LayoutsOfConvs

LEMMA HeldIs ==
  ASSUME TypeOK
  PROVE  /\ \A h \in Held : At(shards, h[1], h[2]) /\ h[2] \in Tensor
         /\ \A i, t : At(shards, i, t) => <<i, t>> \in Held /\ t \in Tensor
<1>1. \A h \in Held : At(shards, h[1], h[2]) /\ h[2] \in Tensor
  BY DEF Held, At
<1>2. ASSUME NEW i, NEW t, At(shards, i, t) PROVE <<i, t>> \in Held /\ t \in Tensor
  <2>1. shards[i] \in Read
    BY <1>2, ElementOfSeq DEF TypeOK, At
  <2>2. i \in 1..Len(shards) /\ t \in Tensor /\ t \in shards[i].contents
    BY <1>2, <2>1 DEF At, Read
  <2> QED
    BY <2>2 DEF Held
<1> QED
  BY <1>1, <1>2

LEMMA ConsistentIs ==
  ASSUME TypeOK
  PROVE  Consistent <=> Agreed(shards, weight_map)
<1> DEFINE L == {h[2].layout : h \in Held} \ {"none"}
<1>1. L \subseteq LayoutsOfConvs
  BY HeldIs, LayoutType
<1>2. IsFiniteSet(L)
  BY <1>1, FewLayouts, FS_Subset
<1>3. Cardinality(L) <= 1 <=> \A x, y \in L : x = y
  BY <1>2, AtMostOne
<1>4. (\A x, y \in L : x = y) <=>
        \A i, t, j, u :
          At(shards, i, t) /\ At(shards, j, u) /\ t.layout # "none" /\ u.layout # "none" =>
            t.layout = u.layout
  <2>1. ASSUME \A x, y \in L : x = y,
               NEW i, NEW t, NEW j, NEW u, At(shards, i, t), At(shards, j, u),
               t.layout # "none", u.layout # "none"
        PROVE  t.layout = u.layout
    <3>1. <<i, t>> \in Held /\ <<j, u>> \in Held
      BY <2>1, HeldIs
    <3>2. <<i, t>>[2].layout = t.layout /\ <<j, u>>[2].layout = u.layout
      OBVIOUS
    <3>3. t.layout \in L /\ u.layout \in L
      BY <2>1, <3>1, <3>2
    <3> QED
      BY <2>1, <3>3
  <2>2. ASSUME \A i, t, j, u :
                 At(shards, i, t) /\ At(shards, j, u) /\ t.layout # "none" /\ u.layout # "none"
                   => t.layout = u.layout,
               NEW x \in L, NEW y \in L
        PROVE  x = y
    <3>1. PICK g \in Held : g[2].layout = x
      OBVIOUS
    <3>2. PICK h \in Held : h[2].layout = y
      OBVIOUS
    <3> QED
      BY <2>2, <3>1, <3>2, HeldIs
  <2> QED
    BY <2>1, <2>2
<1>5. (weight_map # NoIndex =>
         \A h \in Held : h[2].name \in DOMAIN weight_map
                         /\ weight_map[h[2].name] = shards[h[1]].file) <=>
      (weight_map # NoIndex =>
         \A i, t : At(shards, i, t) => t.name \in DOMAIN weight_map
                                       /\ weight_map[t.name] = shards[i].file)
  <2>1. ASSUME \A h \in Held : h[2].name \in DOMAIN weight_map
                                /\ weight_map[h[2].name] = shards[h[1]].file,
               NEW i, NEW t, At(shards, i, t)
        PROVE  t.name \in DOMAIN weight_map /\ weight_map[t.name] = shards[i].file
    <3>1. <<i, t>> \in Held
      BY <2>1, HeldIs
    <3>2. <<i, t>>[1] = i /\ <<i, t>>[2] = t
      OBVIOUS
    <3> QED
      BY <2>1, <3>1, <3>2
  <2>2. ASSUME \A i, t : At(shards, i, t) => t.name \in DOMAIN weight_map
                                             /\ weight_map[t.name] = shards[i].file,
               NEW h \in Held
        PROVE  h[2].name \in DOMAIN weight_map /\ weight_map[h[2].name] = shards[h[1]].file
    BY <2>2, HeldIs
  <2> QED
    BY <2>1, <2>2
<1>6. (\A g, h \in Held : Canonical(g[2].name) = Canonical(h[2].name) => g = h) <=>
      \A i, t, j, u :
        At(shards, i, t) /\ At(shards, j, u) /\ Canonical(t.name) = Canonical(u.name) =>
          i = j /\ t = u
  <2>1. ASSUME \A g, h \in Held : Canonical(g[2].name) = Canonical(h[2].name) => g = h,
               NEW i, NEW t, NEW j, NEW u, At(shards, i, t), At(shards, j, u),
               Canonical(t.name) = Canonical(u.name)
        PROVE  i = j /\ t = u
    <3>1. <<i, t>> \in Held /\ <<j, u>> \in Held
      BY <2>1, HeldIs
    <3>2. <<i, t>> = <<j, u>>
      BY <2>1, <3>1
    <3> QED
      BY <3>2
  <2>2. ASSUME \A i, t, j, u :
                 At(shards, i, t) /\ At(shards, j, u) /\ Canonical(t.name) = Canonical(u.name)
                   => i = j /\ t = u,
               NEW g \in Held, NEW h \in Held, Canonical(g[2].name) = Canonical(h[2].name)
        PROVE  g = h
    <3>1. g[1] = h[1] /\ g[2] = h[2]
      BY <2>2, HeldIs
    <3> QED
      BY <3>1 DEF Held
  <2> QED
    BY <2>1, <2>2
<1>7. (\A h \in Held : h[2].layout # "ambiguous") <=>
      \A i, t : At(shards, i, t) => t.layout # "ambiguous"
  <2>1. \A i, t : <<i, t>>[2] = t
    OBVIOUS
  <2> QED
    BY <2>1, HeldIs
<1> QED
  BY <1>3, <1>4, <1>5, <1>6, <1>7 DEF Consistent, Agreed

LEMMA TotalIs ==
  ASSUME TypeOK, NamesKept(shards, weight_map, seen)
  PROVE  Total <=> (weight_map # NoIndex => DOMAIN weight_map = seen)
<1>1. ASSUME weight_map # NoIndex PROVE seen = {h[2].name : h \in Held}
  <2>2. ASSUME NEW n \in seen PROVE n \in {h[2].name : h \in Held}
    <3>1. PICK i, t : At(shards, i, t) /\ t.name = n
      BY <1>1 DEF NamesKept
    <3>2. <<i, t>> \in Held /\ <<i, t>>[2] = t
      BY <3>1, HeldIs
    <3> QED
      BY <3>1, <3>2
  <2>3. ASSUME NEW h \in Held PROVE h[2].name \in seen
    BY <1>1, HeldIs DEF NamesKept
  <2> QED
    BY <2>2, <2>3
<1> QED
  BY <1>1 DEF Total


----------------------------------------------------------------------------
\* One more file.

LEMMA OneMore ==
  ASSUME TypeOK, NEW f \in Shards \cup {NoIndex}, NEW contents \in SUBSET Tensor
  PROVE  LET ss == Append(shards, [file |-> f, contents |-> contents])
             n  == Len(shards) + 1
         IN  /\ ss \in Seq(Read)
             /\ ss[n].file = f
             /\ n \notin 1..Len(shards)
             /\ \A i \in 1..Len(shards) : ss[i] = shards[i]
             /\ \A i, t : At(ss, i, t) <=> At(shards, i, t) \/ (i = n /\ t \in contents)
<1> DEFINE x == [file |-> f, contents |-> contents]
           ss == Append(shards, x)
           n  == Len(shards) + 1
<1>1. x \in Read /\ x.file = f /\ x.contents = contents
  BY DEF Read
<1> HIDE DEF x
<1>2. /\ ss \in Seq(Read) /\ Len(ss) = n /\ ss[n] = x
      /\ \A i \in 1..Len(shards) : ss[i] = shards[i]
  BY <1>1, AppendProperties DEF TypeOK
<1>3. Len(shards) \in Nat
  BY LenProperties DEF TypeOK
<1> HIDE DEF ss
<1>4. ASSUME NEW i, NEW t PROVE At(ss, i, t) <=> At(shards, i, t) \/ (i = n /\ t \in contents)
  <2>1. i \in 1..n <=> i \in 1..Len(shards) \/ i = n
    BY <1>3
  <2>2. n \notin 1..Len(shards)
    BY <1>3
  <2> QED
    BY <1>1, <1>2, <2>1, <2>2 DEF At
<1> QED
  BY <1>1, <1>2, <1>3, <1>4 DEF ss, x

\* The three checks of a shard decide whether what was read still agrees.
LEMMA ChecksDecide ==
  ASSUME TypeOK, Gathered, NEW f \in Shards \cup {NoIndex}, NEW contents \in SUBSET Tensor
  PROVE  Agreed(Append(shards, [file |-> f, contents |-> contents]), weight_map) <=>
           Placed(f, contents) /\ SameLayout(contents) /\ Distinct(contents)
<1> DEFINE ss == Append(shards, [file |-> f, contents |-> contents])
           n  == Len(shards) + 1
<1>1. /\ ss[n].file = f
      /\ n \notin 1..Len(shards)
      /\ \A i \in 1..Len(shards) : ss[i] = shards[i]
      /\ \A i, t : At(ss, i, t) <=> At(shards, i, t) \/ (i = n /\ t \in contents)
  BY OneMore
<1> HIDE DEF ss, n
<1>2. /\ Agreed(shards, weight_map) /\ TensorsKept(shards, tensors)
      /\ LayoutKept(shards, conv_layout)
  BY DEF Gathered
<1>3. \A i, t : At(shards, i, t) => i \in 1..Len(shards) /\ i # n
  BY <1>1 DEF At
<1>4. \A l : l \in Layouts(contents) <=> l # "none" /\ \E t \in contents : t.layout = l
  BY DEF Layouts
<1>5. ASSUME Agreed(ss, weight_map)
      PROVE  Placed(f, contents) /\ SameLayout(contents) /\ Distinct(contents)
  <2>1. \A t \in contents : At(ss, n, t)
    BY <1>1
  <2>2. Placed(f, contents)
    BY <1>1, <1>5, <2>1 DEF Agreed, Placed
  <2>3. SameLayout(contents)
    <3> SUFFICES ASSUME NEW l \in Layouts(contents)
                 PROVE  /\ l # "ambiguous"
                        /\ Layouts(contents) = {l}
                        /\ conv_layout \in {"none", l}
      BY DEF SameLayout
    <3>1. PICK t \in contents : t.layout = l /\ l # "none"
      BY <1>4
    <3>2. l # "ambiguous"
      BY <1>5, <2>1, <3>1 DEF Agreed
    <3>3. ASSUME NEW m \in Layouts(contents) PROVE m = l
      <4>1. PICK u \in contents : u.layout = m /\ m # "none"
        BY <1>4
      <4> QED
        BY <1>5, <2>1, <3>1, <4>1 DEF Agreed
    <3>4. ASSUME conv_layout # "none" PROVE conv_layout = l
      <4>1. PICK i, u : At(shards, i, u) /\ u.layout = conv_layout
        BY <1>2, <3>4 DEF LayoutKept
      <4>2. At(ss, i, u)
        BY <1>1, <4>1
      <4> QED
        BY <1>5, <2>1, <3>1, <3>4, <4>1, <4>2 DEF Agreed
    <3> QED
      BY <3>2, <3>3, <3>4
  <2>4. Distinct(contents)
    <3>1. \A a, b \in contents : Canonical(a.name) = Canonical(b.name) => a = b
      BY <1>5, <2>1 DEF Agreed
    <3>2. ASSUME NEW t \in contents, Canonical(t.name) \in DOMAIN tensors PROVE FALSE
      <4>1. PICK i, u : At(shards, i, u) /\ Canonical(u.name) = Canonical(t.name)
        BY <1>2, <3>2 DEF TensorsKept
      <4>2. At(ss, i, u) /\ i # n
        BY <1>1, <1>3, <4>1
      <4> QED
        BY <1>5, <2>1, <4>1, <4>2 DEF Agreed
    <3> QED
      BY <3>1, <3>2 DEF Distinct
  <2> QED
    BY <2>2, <2>3, <2>4
<1>6. ASSUME Placed(f, contents), SameLayout(contents), Distinct(contents)
      PROVE  Agreed(ss, weight_map)
  <2>1. ASSUME weight_map # NoIndex, NEW i, NEW t, At(ss, i, t)
        PROVE  t.name \in DOMAIN weight_map /\ weight_map[t.name] = ss[i].file
    <3>1. CASE At(shards, i, t)
      <4>1. t.name \in DOMAIN weight_map /\ weight_map[t.name] = shards[i].file
        BY <1>2, <2>1, <3>1 DEF Agreed
      <4> QED
        BY <1>1, <1>3, <3>1, <4>1
    <3>2. CASE i = n /\ t \in contents
      BY <1>1, <1>6, <2>1, <3>2 DEF Placed
    <3> QED
      BY <1>1, <2>1, <3>1, <3>2
  <2>2. ASSUME NEW i, NEW t, NEW j, NEW u, At(ss, i, t), At(ss, j, u),
               Canonical(t.name) = Canonical(u.name)
        PROVE  i = j /\ t = u
    <3>1. CASE At(shards, i, t) /\ At(shards, j, u)
      BY <1>2, <2>2, <3>1 DEF Agreed
    <3>2. CASE i = n /\ t \in contents /\ j = n /\ u \in contents
      BY <1>6, <2>2, <3>2 DEF Distinct
    <3>3. ASSUME NEW k, NEW v, NEW w, At(shards, k, v), w \in contents,
                 Canonical(v.name) = Canonical(w.name)
          PROVE  FALSE
      <4>1. Canonical(v.name) \in DOMAIN tensors
        BY <1>2, <3>3 DEF TensorsKept
      <4> QED
        BY <1>6, <3>3, <4>1 DEF Distinct
    <3>4. ~(At(shards, i, t) /\ u \in contents) /\ ~(At(shards, j, u) /\ t \in contents)
      BY <2>2, <3>3
    <3> QED
      BY <1>1, <2>2, <3>1, <3>2, <3>4
  <2>3. ASSUME NEW i, NEW t, At(ss, i, t), t.layout # "none"
        PROVE  /\ t.layout # "ambiguous"
               /\ At(shards, i, t) => t.layout = conv_layout
               /\ t \in contents => /\ Layouts(contents) = {t.layout}
                                    /\ conv_layout \in {"none", t.layout}
    <3>1. At(shards, i, t) => t.layout = conv_layout /\ t.layout # "ambiguous"
      BY <1>2, <2>3 DEF LayoutKept, Agreed
    <3>2. t \in contents => t.layout \in Layouts(contents)
      BY <1>4, <2>3
    <3> QED
      BY <1>1, <1>6, <2>3, <3>1, <3>2 DEF SameLayout
  <2>4. ASSUME NEW i, NEW t, NEW j, NEW u, At(ss, i, t), At(ss, j, u),
               t.layout # "none", u.layout # "none"
        PROVE  t.layout = u.layout
    <3>1. At(shards, i, t) \/ t \in contents
      BY <1>1, <2>4
    <3>2. At(shards, j, u) \/ u \in contents
      BY <1>1, <2>4
    <3>3. /\ At(shards, i, t) => t.layout = conv_layout
          /\ t \in contents => Layouts(contents) = {t.layout} /\ conv_layout \in {"none", t.layout}
      BY <2>3, <2>4
    <3>4. /\ At(shards, j, u) => u.layout = conv_layout
          /\ u \in contents => Layouts(contents) = {u.layout} /\ conv_layout \in {"none", u.layout}
      BY <2>3, <2>4
    <3> QED
      BY <2>4, <3>1, <3>2, <3>3, <3>4
  <2>5. \A i, t : At(ss, i, t) => t.layout # "ambiguous"
    BY <2>3
  <2> QED
    BY <2>1, <2>2, <2>4, <2>5 DEF Agreed
<1> QED
  BY <1>5, <1>6 DEF ss


\* What is kept of one more file, if it passes.
LEMMA GatherMore ==
  ASSUME TypeOK, Gathered, NEW f \in Shards \cup {NoIndex}, NEW contents \in SUBSET Tensor,
         shards' = Append(shards, [file |-> f, contents |-> contents]),
         Agreed(shards', weight_map), SameLayout(contents), weight_map' = weight_map,
         seen' = IF weight_map = NoIndex THEN seen ELSE seen \cup {t.name : t \in contents},
         DOMAIN tensors' = DOMAIN tensors \cup {Canonical(t.name) : t \in contents},
         conv_layout' = IF Layouts(contents) = {} THEN conv_layout
                                                  ELSE CHOOSE l \in Layouts(contents) : TRUE
  PROVE  Gathered' /\ conv_layout' \in {"none", "hf", "mlx"}
<1> DEFINE n == Len(shards) + 1
<1>1. \A i, t : At(shards', i, t) <=> At(shards, i, t) \/ (i = n /\ t \in contents)
  BY OneMore
<1> HIDE DEF n
<1>2. /\ NamesKept(shards, weight_map, seen) /\ TensorsKept(shards, tensors)
      /\ LayoutKept(shards, conv_layout)
  BY DEF Gathered
<1>3. NamesKept(shards', weight_map, seen')
  <2> SUFFICES ASSUME weight_map # NoIndex, NEW m
               PROVE  m \in seen' <=> \E i, t : At(shards', i, t) /\ t.name = m
    BY DEF NamesKept
  <2>1. m \in seen' <=> m \in seen \/ \E t \in contents : t.name = m
    OBVIOUS
  <2>2. m \in seen <=> \E i, t : At(shards, i, t) /\ t.name = m
    BY <1>2 DEF NamesKept
  <2> QED
    BY <1>1, <2>1, <2>2
<1>4. TensorsKept(shards', tensors')
  <2> SUFFICES ASSUME NEW c
               PROVE  c \in DOMAIN tensors' <=> \E i, t : At(shards', i, t) /\ Canonical(t.name) = c
    BY DEF TensorsKept
  <2>1. c \in DOMAIN tensors' <=>
          c \in DOMAIN tensors \/ \E t \in contents : Canonical(t.name) = c
    OBVIOUS
  <2>2. c \in DOMAIN tensors <=> \E i, t : At(shards, i, t) /\ Canonical(t.name) = c
    BY <1>2 DEF TensorsKept
  <2> QED
    BY <1>1, <2>1, <2>2
<1>5. \A l : l \in Layouts(contents) <=> l # "none" /\ \E t \in contents : t.layout = l
  BY DEF Layouts
<1>6. LayoutKept(shards', conv_layout') /\ conv_layout' \in {"none", "hf", "mlx"}
  <2>1. CASE Layouts(contents) = {}
    <3>1. conv_layout' = conv_layout
      BY <2>1
    <3>2. \A t \in contents : t.layout = "none"
      BY <1>5, <2>1
    <3> QED
      BY <1>1, <1>2, <3>1, <3>2 DEF LayoutKept, TypeOK
  <2>2. CASE Layouts(contents) # {}
    <3>1. PICK l : l \in Layouts(contents)
      BY <2>2
    <3>2. Layouts(contents) = {l} /\ l # "ambiguous" /\ conv_layout \in {"none", l}
      BY <3>1 DEF SameLayout
    <3>3. conv_layout' = l
      BY <2>2, <3>2
    <3>4. PICK u \in contents : u.layout = l /\ l # "none"
      BY <1>5, <3>1
    <3>5. l \in {"hf", "mlx"}
      <4>1. u \in Tensor
        OBVIOUS
      <4> QED
        BY <3>2, <3>4, <4>1, LayoutType DEF LayoutsOfConvs
    <3>6. \A t \in contents : t.layout \in {"none", l}
      BY <1>5, <3>2
    <3>7. \A i, t : At(shards, i, t) => t.layout \in {"none", l}
      BY <1>2, <3>2 DEF LayoutKept
    <3> QED
      BY <1>1, <3>3, <3>4, <3>5, <3>6, <3>7 DEF LayoutKept
  <2> QED
    BY <2>1, <2>2
<1> QED
  BY <1>3, <1>4, <1>6 DEF Gathered

LEMMA ReadKeeps ==
  ASSUME IInv, NEW f \in unread, NEW contents \in Contents, ReadShard(f, contents)
  PROVE  IInv'
<1>1. /\ TypeOK /\ Gathered /\ outcome = "reading" /\ weight_map' = weight_map
      /\ shards' = Append(shards, [file |-> f, contents |-> contents])
      /\ unread' = unread \ {f}
  BY DEF IInv, ReadShard
<1>2. f \in Shards \cup {NoIndex} /\ contents \in SUBSET Tensor
  BY <1>1 DEF TypeOK, Contents
<1>3. shards' \in Seq(Read)
  BY <1>1, <1>2, OneMore
<1>4. Agreed(shards', weight_map') <=>
        Placed(f, contents) /\ SameLayout(contents) /\ Distinct(contents)
  BY <1>1, <1>2, ChecksDecide
<1>5. CASE Placed(f, contents) /\ SameLayout(contents) /\ Distinct(contents)
  <2>1. /\ outcome' = "reading"
        /\ seen' = IF weight_map = NoIndex THEN seen ELSE seen \cup {t.name : t \in contents}
        /\ DOMAIN tensors' = DOMAIN tensors \cup {Canonical(t.name) : t \in contents}
        /\ conv_layout' = IF Layouts(contents) = {} THEN conv_layout
                                                    ELSE CHOOSE l \in Layouts(contents) : TRUE
    BY <1>1, <1>5 DEF ReadShard
  <2>2. Gathered' /\ conv_layout' \in {"none", "hf", "mlx"}
    BY <1>1, <1>2, <1>4, <1>5, <2>1, GatherMore
  <2>3. TypeOK'
    BY <1>1, <1>3, <2>1, <2>2 DEF TypeOK
  <2> QED
    BY <2>1, <2>2, <2>3 DEF IInv
<1>6. CASE ~(Placed(f, contents) /\ SameLayout(contents) /\ Distinct(contents))
  <2>1. outcome' = "refused" /\ conv_layout' = conv_layout
    BY <1>6 DEF ReadShard
  <2>2. TypeOK'
    BY <1>1, <1>3, <2>1 DEF TypeOK
  <2> QED
    BY <1>4, <1>6, <2>1, <2>2 DEF IInv
<1> QED
  BY <1>5, <1>6

LEMMA OpenKeeps ==
  ASSUME IInv, Open
  PROVE  IInv'
<1>1. /\ TypeOK /\ Gathered /\ outcome = "reading"
      /\ UNCHANGED <<weight_map, unread, shards, seen, conv_layout>>
  BY DEF IInv, Open
<1>2. weight_map # NoIndex => (AllSeen <=> seen = DOMAIN weight_map)
  <2> SUFFICES ASSUME weight_map # NoIndex
               PROVE  Cardinality(seen) = Cardinality(DOMAIN weight_map)
                        <=> seen = DOMAIN weight_map
    BY DEF AllSeen
  <2>1. seen \in SUBSET DOMAIN weight_map
    BY <1>1 DEF Gathered, NamesKept, Agreed
  <2>2. IsFiniteSet(DOMAIN weight_map)
    BY <1>1 DEF TypeOK
  <2> QED
    BY <2>1, <2>2, FS_Subset
<1>3. DOMAIN tensors' = DOMAIN tensors
  BY DEF Open, Settled
<1>4. Gathered'
  BY <1>1, <1>3 DEF Gathered, TensorsKept
<1>5. CASE AllSeen
  <2>1. outcome' = "opened" /\ tensors' = Settled
    BY <1>5 DEF Open
  <2>2. conv_layout # "none" => \A c \in DOMAIN tensors' : tensors'[c] <=> conv_layout = "hf"
    BY <2>1 DEF Settled
  <2>3. TypeOK'
    BY <1>1, <2>1 DEF TypeOK
  <2> QED
    BY <1>1, <1>2, <1>4, <1>5, <2>1, <2>2, <2>3 DEF IInv
<1>6. CASE ~AllSeen
  <2>1. outcome' = "incomplete"
    BY <1>6 DEF Open
  <2>2. weight_map # NoIndex
    BY <1>6 DEF AllSeen
  <2>3. TypeOK'
    BY <1>1, <2>1 DEF TypeOK
  <2> QED
    BY <1>1, <1>2, <1>4, <1>6, <2>1, <2>2, <2>3 DEF IInv
<1> QED
  BY <1>5, <1>6

LEMMA InitOK ==
  ASSUME Init
  PROVE  IInv
<1>1. shards = <<>> /\ shards \in Seq(Read) /\ \A i, t : ~At(shards, i, t)
  <2>1. <<>> \in Seq(Read) /\ Len(<<>>) = 0
    BY EmptySeq
  <2> QED
    BY <2>1 DEF Init, At
<1>2. weight_map # NoIndex =>
        /\ IsFiniteSet(DOMAIN weight_map)
        /\ {weight_map[n] : n \in DOMAIN weight_map} \subseteq Shards
  <2> SUFFICES ASSUME weight_map # NoIndex
               PROVE  /\ IsFiniteSet(DOMAIN weight_map)
                      /\ {weight_map[n] : n \in DOMAIN weight_map} \subseteq Shards
    OBVIOUS
  <2>1. PICK ns \in SUBSET Names : weight_map \in [ns -> Shards]
    BY DEF Init, Indexes
  <2>2. IsFiniteSet(ns)
    BY CheckpointAssumption, FS_Subset
  <2> QED
    BY <2>1, <2>2
<1>3. TypeOK
  BY <1>1, <1>2 DEF Init, TypeOK
<1>4. DOMAIN tensors = {} /\ seen = {} /\ conv_layout = "none"
  <2>1. <<>> \in Seq({}) /\ Len(<<>>) = 0
    BY EmptySeq
  <2>2. DOMAIN <<>> = {}
    BY <2>1, LenProperties
  <2> QED
    BY <2>2 DEF Init
<1>5. Gathered
  BY <1>1, <1>4 DEF Gathered, Agreed, NamesKept, TensorsKept, LayoutKept
<1> QED
  BY <1>3, <1>5 DEF Init, IInv

LEMMA InvariantHolds == Spec => []IInv
<1>1. Init => IInv
  BY InitOK
<1>2. IInv /\ [Next]_vars => IInv'
  <2>1. IInv /\ UNCHANGED vars => IInv'
    BY DEF IInv, vars, TypeOK, Gathered
  <2> QED
    BY <2>1, ReadKeeps, OpenKeeps DEF Next
<1> QED
  BY <1>1, <1>2, PTL DEF Spec

----------------------------------------------------------------------------
\* The promises.

\* Reading file by file, with nothing remembered but names and one layout,
\* refuses a checkpoint just when it is inconsistent as a whole or the index
\* names what no file has (Checkpoint::from_config and add_shard).
THEOREM LoadingIsExact == Spec => []OpenIsExact
<1>1. IInv => OpenIsExact
  <2> SUFFICES ASSUME IInv PROVE OpenIsExact
    OBVIOUS
  <2>1. TypeOK /\ (Consistent <=> Agreed(shards, weight_map))
    BY ConsistentIs DEF IInv
  <2>2. outcome # "refused" => /\ Consistent
                               /\ Total <=> (weight_map # NoIndex => DOMAIN weight_map = seen)
    BY <2>1, TotalIs DEF IInv, Gathered
  <2>3. outcome = "refused" => ~Consistent
    BY <2>1 DEF IInv
  <2>4. outcome = "incomplete" => ~Total
    BY <2>2 DEF IInv
  <2>5. outcome = "opened" => Total
    BY <2>2 DEF IInv
  <2>6. outcome \in {"reading", "refused", "incomplete", "opened"}
    BY <2>1 DEF TypeOK
  <2> QED
    BY <2>2, <2>3, <2>4, <2>5, <2>6 DEF OpenIsExact
<1> QED
  BY <1>1, InvariantHolds, PTL

\* In an open checkpoint that has a convolution all norm weights are taken as
\* zero-centered or none is, as the convolutions of all its files say
\* (the settling of raw_hf at the end of Checkpoint::from_config).
THEOREM NormsAreTakenAlike == Spec => []NormsAgree
<1>1. IInv => NormsAgree
  <2> SUFFICES ASSUME IInv, outcome = "opened", NEW g \in Held, g[2].layout # "none",
                      NEW c \in DOMAIN tensors
               PROVE  tensors[c] <=> \E h \in Held : h[2].layout = "hf"
    BY DEF NormsAgree
  <2>1. TypeOK /\ LayoutKept(shards, conv_layout)
    BY DEF IInv, Gathered
  <2>2. \A h \in Held : h[2].layout \in {"none", conv_layout}
    BY <2>1, HeldIs DEF LayoutKept
  <2>3. g[2].layout = conv_layout /\ conv_layout # "none"
    BY <2>2
  <2>4. tensors[c] <=> conv_layout = "hf"
    BY <2>3 DEF IInv
  <2>5. (\E h \in Held : h[2].layout = "hf") <=> conv_layout = "hf"
    BY <2>2, <2>3
  <2> QED
    BY <2>4, <2>5
<1> QED
  BY <1>1, InvariantHolds, PTL

----------------------------------------------------------------------------
\* The reading of a header.

\* A set of numbers with 0 and the successor of each of its members is Nat.
LEMMA Induction ==
  ASSUME NEW T \in SUBSET Nat, 0 \in T, \A n \in T : n + 1 \in T
  PROVE  T = Nat
<1> DEFINE Missing == Nat \ T
<1> SUFFICES ASSUME Missing # {} PROVE FALSE
  OBVIOUS
<1>1. PICK x \in Missing : \A y \in Missing : ~ (<<y, x>> \in OpToRel(<, Nat))
  BY WFMin, NatLessThanWellFounded
<1>2. \A y \in Missing : ~ (y < x)
  BY <1>1 DEF OpToRel
<1>3. x # 0 /\ x \in Nat
  OBVIOUS
<1>4. x - 1 \in T
  BY <1>2, <1>3
<1> QED
  BY <1>3, <1>4

\* A function on 0..n that starts at base and takes the step at each number.
Recursion(f, n, S, base, step) ==
  /\ f \in [0..n -> S]
  /\ f[0] = base
  /\ \A i \in 1..n : f[i] = step[<<i, f[i - 1]>>]

\* There is one.
LEMMA RecursionExists ==
  ASSUME NEW n \in Nat, NEW S, NEW base \in S, NEW step \in [(1..n) \X S -> S]
  PROVE  \E f : Recursion(f, n, S, base, step)
<1> DEFINE Good(f, m) == \A i \in 0..m : f[i] = IF i = 0 THEN base ELSE step[<<i, f[i - 1]>>]
           T == {m \in Nat : m <= n => \E f \in [0..m -> S] : Good(f, m)}
<1>1. 0 \in T
  <2> DEFINE f == [i \in 0..0 |-> base]
  <2>1. f \in [0..0 -> S] /\ Good(f, 0)
    OBVIOUS
  <2> QED
    BY <2>1
<1>2. ASSUME NEW m \in T PROVE m + 1 \in T
  <2> SUFFICES ASSUME m + 1 <= n PROVE \E f \in [0..(m + 1) -> S] : Good(f, m + 1)
    OBVIOUS
  <2>1. PICK f \in [0..m -> S] : Good(f, m)
    OBVIOUS
  <2> DEFINE v == step[<<m + 1, f[m]>>]
             g == [i \in 0..(m + 1) |-> IF i = m + 1 THEN v ELSE f[i]]
  <2>2. v \in S
    OBVIOUS
  <2>3. g \in [0..(m + 1) -> S]
    BY <2>2
  <2>4. ASSUME NEW i \in 0..(m + 1)
        PROVE  g[i] = IF i = 0 THEN base ELSE step[<<i, g[i - 1]>>]
    <3>1. CASE i = m + 1
      <4>1. g[i] = v /\ g[i - 1] = f[m] /\ i # 0
        BY <3>1
      <4> QED
        BY <3>1, <4>1
    <3>2. CASE i # m + 1
      <4>1. i \in 0..m /\ g[i] = f[i] /\ (i # 0 => g[i - 1] = f[i - 1])
        BY <3>2
      <4> QED
        BY <2>1, <4>1
    <3> QED
      BY <3>1, <3>2
  <2> QED
    BY <2>3, <2>4
<1>3. n \in T
  <2> HIDE DEF T
  <2>1. T \in SUBSET Nat
    BY DEF T
  <2> QED
    BY <1>1, <1>2, <2>1, Induction
<1>4. PICK f \in [0..n -> S] : Good(f, n)
  BY <1>3
<1>5. f[0] = base /\ \A i \in 1..n : f[i] = step[<<i, f[i - 1]>>]
  <2>1. 0 \in 0..n /\ \A i \in 1..n : i \in 0..n /\ i # 0
    OBVIOUS
  <2> QED
    BY <1>4, <2>1
<1>6. Recursion(f, n, S, base, step)
  BY <1>5 DEF Recursion
<1> QED
  BY <1>6

----------------------------------------------------------------------------
\* The length of a tensor: while nothing overflows the checked product is the
\* exact one, and without a zero it never shrinks back into range.

\* A product of positive numbers is at least either.
LEMMA ProductGrows ==
  ASSUME NEW x \in Nat, NEW y \in Nat, x > 0, y > 0
  PROVE  x * y \in Nat /\ x * y >= x /\ x * y > 0
<1>1. y - 1 \in Nat
  OBVIOUS
<1>2. \A a, b \in Nat : a * b \in Nat
  OBVIOUS
<1>3. x * (y - 1) \in Nat
  BY <1>1, <1>2
<1>4. x * y = x * (y - 1) + x
  OBVIOUS
<1> QED
  BY <1>2, <1>3, <1>4

\* What a checked product c says of the exact one x.
Counted(c, x) ==
  /\ x \in Nat /\ x > 0
  /\ c = x \/ (c = Overflow /\ x > MaxUsize)

\* One more checked multiplication.
LEMMA CountedTimes ==
  ASSUME NEW c, NEW x, NEW d \in Nat, d > 0, Counted(c, x)
  PROVE  Counted(CheckedMul(c, d), x * d)
         /\ (CheckedMul(c, d) # Overflow <=> x * d <= MaxUsize)
<1>1. x \in Nat /\ x > 0 /\ MaxUsize \in Nat
  BY SafetensorsAssumption DEF Counted
<1>2. x * d \in Nat /\ x * d >= x /\ x * d > 0
  BY <1>1, ProductGrows
<1>3. CASE c = Overflow
  <2>1. CheckedMul(c, d) = Overflow /\ x > MaxUsize
    BY <1>1, <1>3 DEF Counted, CheckedMul, Overflow
  <2> QED
    BY <1>1, <1>2, <2>1 DEF Counted
<1>4. CASE c # Overflow
  <2>1. c = x
    BY <1>4 DEF Counted
  <2>2. CheckedMul(c, d) = IF x * d \notin Usize THEN Overflow ELSE x * d
    BY <1>4, <2>1 DEF CheckedMul
  <2> DEFINE y == x * d
  <2>3. y \in Nat /\ y > 0
    BY <1>2
  <2> HIDE DEF y
  <2>4. y \in Usize <=> y <= MaxUsize
    BY <1>1, <2>3 DEF Usize
  <2>5. CheckedMul(c, d) = IF y \notin Usize THEN Overflow ELSE y
    BY <2>2 DEF y
  <2>6. Counted(CheckedMul(c, d), y) /\ (CheckedMul(c, d) # Overflow <=> y <= MaxUsize)
    BY <1>1, <2>3, <2>4, <2>5 DEF Counted, Overflow
  <2> QED
    BY <2>6 DEF y
<1> QED
  BY <1>3, <1>4

\* The two counts of an entry's elements.
CheckedCount(e) ==
  CHOOSE f : f = [i \in 0..Len(e.shape) |->
                    IF i = 0 THEN 1 ELSE CheckedMul(f[i - 1], e.shape[i])]
ExactCount(e) ==
  CHOOSE f : f = [i \in 0..Len(e.shape) |-> IF i = 0 THEN 1 ELSE f[i - 1] * e.shape[i]]

\* Entries are what they say.
LEMMA EntryType ==
  ASSUME NEW e \in Entry
  PROVE  /\ Len(e.shape) \in Nat
         /\ \A i \in 1..Len(e.shape) : e.shape[i] \in Nat
         /\ e.item \in Nat /\ e.item > 0
         /\ e.start \in Usize /\ e.end \in Usize /\ e.start \in Nat /\ e.end \in Nat
         /\ e.start \in Int /\ e.end \in Int
<1>1. e.shape \in Seq(Nat) /\ e.item \in Nat \ {0} /\ e.start \in Usize /\ e.end \in Usize
  BY SafetensorsAssumption DEF Entry
<1>2. MaxUsize \in Nat
  BY SafetensorsAssumption
<1> QED
  BY <1>1, <1>2 DEF Usize

\* Both follow their recursions.
LEMMA CheckedCountIs ==
  ASSUME NEW e \in Entry
  PROVE  CheckedCount(e) = [i \in 0..Len(e.shape) |->
           IF i = 0 THEN 1 ELSE CheckedMul(CheckedCount(e)[i - 1], e.shape[i])]
<1> DEFINE n == Len(e.shape)
           step == [x \in (1..n) \X Int |-> CheckedMul(x[2], e.shape[x[1]])]
<1>1. n \in Nat /\ \A i \in 1..n : e.shape[i] \in Nat
  BY EntryType
<1> HIDE DEF n
<1>2. step \in [(1..n) \X Int -> Int]
  <2>1. \A a \in Int, b \in Nat : a * b \in Int
    OBVIOUS
  <2>2. \A a \in Int, b \in Nat : CheckedMul(a, b) \in Int
    BY <2>1 DEF CheckedMul, Overflow
  <2>3. \A x \in (1..n) \X Int : x[2] \in Int /\ e.shape[x[1]] \in Nat
    BY <1>1
  <2> QED
    BY <2>2, <2>3
<1>3. \E f : Recursion(f, n, Int, 1, step)
  <2>1. 1 \in Int
    OBVIOUS
  <2> HIDE DEF step
  <2> QED
    BY <1>1, <1>2, <2>1, RecursionExists
<1>4. PICK f : Recursion(f, n, Int, 1, step)
  BY <1>3
<1>5. /\ f \in [0..n -> Int] /\ f[0] = 1
      /\ \A i \in 1..n : f[i] = step[<<i, f[i - 1]>>]
  BY <1>4 DEF Recursion
<1>6. \A i \in 1..n : f[i] = CheckedMul(f[i - 1], e.shape[i])
  <2>1. \A i \in 1..n : i - 1 \in 0..n
    BY <1>1
  <2>2. \A i \in 1..n : <<i, f[i - 1]>> \in (1..n) \X Int
    BY <1>5, <2>1
  <2> QED
    BY <1>5, <2>2
<1>7. \A i \in 0..n : i = 0 \/ i \in 1..n
  BY <1>1
<1>8. f = [i \in 0..n |-> IF i = 0 THEN 1 ELSE CheckedMul(f[i - 1], e.shape[i])]
  BY <1>5, <1>6, <1>7
<1> QED
  BY <1>8 DEF CheckedCount, n

\* And the exact one.
LEMMA ExactCountIs ==
  ASSUME NEW e \in Entry
  PROVE  ExactCount(e) = [i \in 0..Len(e.shape) |->
           IF i = 0 THEN 1 ELSE ExactCount(e)[i - 1] * e.shape[i]]
<1> DEFINE n == Len(e.shape)
           step == [x \in (1..n) \X Int |-> x[2] * e.shape[x[1]]]
<1>1. n \in Nat /\ \A i \in 1..n : e.shape[i] \in Nat
  BY EntryType
<1> HIDE DEF n
<1>2. step \in [(1..n) \X Int -> Int]
  <2>1. \A a \in Int, b \in Nat : a * b \in Int
    OBVIOUS
  <2>3. \A x \in (1..n) \X Int : x[2] \in Int /\ e.shape[x[1]] \in Nat
    BY <1>1
  <2> QED
    BY <2>1, <2>3
<1>3. \E f : Recursion(f, n, Int, 1, step)
  <2>1. 1 \in Int
    OBVIOUS
  <2> HIDE DEF step
  <2> QED
    BY <1>1, <1>2, <2>1, RecursionExists
<1>4. PICK f : Recursion(f, n, Int, 1, step)
  BY <1>3
<1>5. /\ f \in [0..n -> Int] /\ f[0] = 1
      /\ \A i \in 1..n : f[i] = step[<<i, f[i - 1]>>]
  BY <1>4 DEF Recursion
<1>6. \A i \in 1..n : f[i] = f[i - 1] * e.shape[i]
  <2>1. \A i \in 1..n : i - 1 \in 0..n
    BY <1>1
  <2>2. \A i \in 1..n : <<i, f[i - 1]>> \in (1..n) \X Int
    BY <1>5, <2>1
  <2> QED
    BY <1>5, <2>2
<1>7. \A i \in 0..n : i = 0 \/ i \in 1..n
  BY <1>1
<1>8. f = [i \in 0..n |-> IF i = 0 THEN 1 ELSE f[i - 1] * e.shape[i]]
  BY <1>5, <1>6, <1>7
<1> QED
  BY <1>8 DEF ExactCount, n

\* Without a dimension of zero, the length read off the header is the exact
\* one, or that is out of range.
LEMMA LengthIsExact ==
  ASSUME NEW e \in Entry, \A i \in 1..Len(e.shape) : e.shape[i] > 0
  PROVE  /\ Size(e) \in Nat /\ Size(e) > 0
         /\ ByteLength(e) # Overflow <=> Size(e) <= MaxUsize
         /\ ByteLength(e) # Overflow => ByteLength(e) = Size(e)
<1> DEFINE n == Len(e.shape)
           c == CheckedCount(e)
           x == ExactCount(e)
           T == {i \in Nat : i <= n => Counted(c[i], x[i])}
<1>1. n \in Nat /\ \A i \in 1..n : e.shape[i] \in Nat /\ e.shape[i] > 0
  BY EntryType
<1>2. c = [i \in 0..n |-> IF i = 0 THEN 1 ELSE CheckedMul(c[i - 1], e.shape[i])]
  BY CheckedCountIs
<1>3. x = [i \in 0..n |-> IF i = 0 THEN 1 ELSE x[i - 1] * e.shape[i]]
  BY ExactCountIs
<1>4. ByteLength(e) = CheckedMul(c[n], e.item)
  BY DEF ByteLength, CheckedCount
<1>5. Size(e) = x[n] * e.item
  BY DEF Size, ExactCount
<1> HIDE DEF n, c, x
<1>6. 0 \in T
  <2>1. 0 \in 0..n
    BY <1>1
  <2>2. c[0] = 1 /\ x[0] = 1
    BY <1>2, <1>3, <2>1
  <2> QED
    BY <2>2 DEF Counted
<1>7. ASSUME NEW i \in T PROVE i + 1 \in T
  <2> SUFFICES ASSUME i + 1 <= n PROVE Counted(c[i + 1], x[i + 1])
    OBVIOUS
  <2>1. i \in Nat /\ i <= n /\ i + 1 \in 1..n /\ i + 1 \in 0..n /\ i + 1 # 0 /\ (i + 1) - 1 = i
    BY <1>1
  <2>2. c[i + 1] = CheckedMul(c[i], e.shape[i + 1]) /\ x[i + 1] = x[i] * e.shape[i + 1]
    BY <1>2, <1>3, <2>1
  <2>3. Counted(c[i], x[i])
    BY <2>1
  <2> DEFINE d == e.shape[i + 1]
  <2>4. d \in Nat /\ d > 0
    BY <1>1, <2>1
  <2> HIDE DEF d
  <2>5. Counted(CheckedMul(c[i], d), x[i] * d)
    BY <2>3, <2>4, CountedTimes
  <2> QED
    BY <2>2, <2>5 DEF d
<1>8. T = Nat
  <2> HIDE DEF T
  <2>1. T \in SUBSET Nat
    BY DEF T
  <2> QED
    BY <1>6, <1>7, <2>1, Induction
<1>9. Counted(c[n], x[n])
  BY <1>1, <1>8
<1> HIDE DEF T
<1>10. e.item \in Nat /\ e.item > 0
  BY EntryType
<1>11. /\ Counted(CheckedMul(c[n], e.item), x[n] * e.item)
       /\ CheckedMul(c[n], e.item) # Overflow <=> x[n] * e.item <= MaxUsize
  BY <1>9, <1>10, CountedTimes
<1> QED
  BY <1>4, <1>5, <1>11 DEF Counted

\* An entry is refused exactly when no file of this length could hold it.
LEMMA FitIsExact ==
  ASSUME NEW e \in Entry, header_len \in Nat, mmap_len \in Usize, data_start <= mmap_len
  PROVE  EntryFits(e) <=> ~Unfit(e)
<1>1. /\ MaxUsize \in Nat /\ HeaderBytes \in Nat /\ data_start \in Nat
      /\ mmap_len \in Nat /\ mmap_len <= MaxUsize
  BY SafetensorsAssumption DEF Usize, data_start
<1>2. /\ e.start \in Nat /\ e.end \in Nat /\ e.end <= MaxUsize
      /\ \A i \in 1..Len(e.shape) : e.shape[i] \in Nat
  BY EntryType, <1>1 DEF Usize
<1>3. CASE \E i \in 1..Len(e.shape) : ~(e.shape[i] > 0)
  <2>1. \E i \in 1..Len(e.shape) : e.shape[i] = 0
    BY <1>2, <1>3
  <2> QED
    BY <1>3, <2>1 DEF EntryFits, Unfit
<1>4. CASE \A i \in 1..Len(e.shape) : e.shape[i] > 0
  <2>1. /\ Size(e) \in Nat /\ Size(e) > 0
        /\ ByteLength(e) # Overflow <=> Size(e) <= MaxUsize
        /\ ByteLength(e) # Overflow => ByteLength(e) = Size(e)
    BY <1>4, LengthIsExact
  <2>2. ~\E i \in 1..Len(e.shape) : e.shape[i] = 0
    BY <1>4
  <2>3. ASSUME EntryFits(e) PROVE ~Unfit(e)
    <3>1. e.end - e.start = Size(e) /\ AbsoluteEnd(e) # Overflow /\ AbsoluteEnd(e) <= mmap_len
      BY <2>1, <2>3 DEF EntryFits
    <3>2. data_start + e.end <= mmap_len
      BY <3>1 DEF AbsoluteEnd, CheckedAdd
    <3>3. ~(e.end > mmap_len - data_start)
      BY <1>1, <1>2, <3>2
    <3> QED
      BY <2>2, <3>1, <3>3 DEF Unfit
  <2>4. ASSUME ~Unfit(e) PROVE EntryFits(e)
    <3>1. e.end - e.start = Size(e) /\ ~(e.end > mmap_len - data_start)
      BY <2>4 DEF Unfit
    <3>2. Size(e) <= MaxUsize /\ e.end >= e.start
      BY <1>1, <1>2, <2>1, <3>1
    <3>3. data_start + e.end \in Usize /\ data_start + e.start \in Usize
          /\ data_start + e.end <= mmap_len
          /\ data_start + e.end # -1 /\ data_start + e.start # -1
      BY <1>1, <1>2, <3>1, <3>2 DEF Usize
    <3>4. /\ CheckedAdd(data_start, e.start) # Overflow
          /\ AbsoluteEnd(e) # Overflow /\ AbsoluteEnd(e) <= mmap_len
      BY <3>3 DEF CheckedAdd, AbsoluteEnd, Overflow
    <3> QED
      BY <1>4, <2>1, <3>1, <3>2, <3>4 DEF EntryFits
  <2> QED
    BY <2>3, <2>4
<1> QED
  BY <1>3, <1>4

----------------------------------------------------------------------------
\* The sort.

\* Pairs of numbers.
PairSeq == Seq(Nat \X Nat)

\* Index i is sorted ahead of index j.
Earlier(pairs, i, j) == Before(pairs[i], pairs[j]) \/ (pairs[i] = pairs[j] /\ i < j)

EarlierThan(pairs, j) == {i \in DOMAIN pairs : Earlier(pairs, i, j)}

\* That is a strict order on the indices, finer than the one on pairs.
LEMMA EarlierOrder ==
  ASSUME NEW pairs \in PairSeq
  PROVE  /\ DOMAIN pairs = 1..Len(pairs) /\ Len(pairs) \in Nat
         /\ \A i \in DOMAIN pairs : i \in Nat /\ ~Earlier(pairs, i, i)
         /\ \A i, j \in DOMAIN pairs : i # j => (Earlier(pairs, i, j) \/ Earlier(pairs, j, i))
         /\ \A i, j \in DOMAIN pairs : Earlier(pairs, i, j) => ~Before(pairs[j], pairs[i])
         /\ \A i, j, k \in DOMAIN pairs :
              Earlier(pairs, i, j) /\ Earlier(pairs, j, k) => Earlier(pairs, i, k)
<1>1. DOMAIN pairs = 1..Len(pairs) /\ Len(pairs) \in Nat
  BY LenProperties DEF PairSeq
<1>2. \A i \in DOMAIN pairs : i \in Nat /\ pairs[i] \in Nat \X Nat
  BY <1>1, ElementOfSeq DEF PairSeq
<1>3. \A p, q \in Nat \X Nat : p[1] = q[1] /\ p[2] = q[2] => p = q
  OBVIOUS
<1>4. \A p \in Nat \X Nat : p[1] \in Nat /\ p[2] \in Nat
  OBVIOUS
<1>5. \A p, q \in Nat \X Nat :
        /\ ~Before(p, p)
        /\ p # q => Before(p, q) \/ Before(q, p)
        /\ ~(Before(p, q) /\ Before(q, p))
  BY <1>3, <1>4 DEF Before
<1>6. \A p, q, r \in Nat \X Nat : Before(p, q) /\ Before(q, r) => Before(p, r)
  BY <1>4 DEF Before
<1>7. \A i, j \in DOMAIN pairs : i # j => (Earlier(pairs, i, j) \/ Earlier(pairs, j, i))
  BY <1>2, <1>5 DEF Earlier
<1>8. \A i, j \in DOMAIN pairs : Earlier(pairs, i, j) => ~Before(pairs[j], pairs[i])
  BY <1>2, <1>5 DEF Earlier
<1>9. \A i, j, k \in DOMAIN pairs :
        Earlier(pairs, i, j) /\ Earlier(pairs, j, k) => Earlier(pairs, i, k)
  BY <1>2, <1>6 DEF Earlier
<1>10. \A i \in DOMAIN pairs : i \in Nat /\ ~Earlier(pairs, i, i)
  BY <1>2, <1>5 DEF Earlier
<1> QED
  BY <1>1, <1>7, <1>8, <1>9, <1>10

\* Fewer indices are ahead of an index that is ahead.
LEMMA EarlierGrows ==
  ASSUME NEW pairs \in PairSeq, NEW i \in DOMAIN pairs, NEW j \in DOMAIN pairs,
         Earlier(pairs, i, j)
  PROVE  Cardinality(EarlierThan(pairs, i)) < Cardinality(EarlierThan(pairs, j))
<1>1. IsFiniteSet(DOMAIN pairs)
  <2>1. DOMAIN pairs = 1..Len(pairs) /\ 1 \in Int /\ Len(pairs) \in Int
    BY EarlierOrder
  <2> QED
    BY <2>1, FS_Interval
<1>2. /\ EarlierThan(pairs, i) \cup {i} \subseteq EarlierThan(pairs, j)
      /\ i \notin EarlierThan(pairs, i)
      /\ EarlierThan(pairs, i) \subseteq DOMAIN pairs
      /\ EarlierThan(pairs, j) \subseteq DOMAIN pairs
  BY EarlierOrder DEF EarlierThan
<1>3. IsFiniteSet(EarlierThan(pairs, i)) /\ IsFiniteSet(EarlierThan(pairs, j))
  BY <1>1, <1>2, FS_Subset
<1>4. Cardinality(EarlierThan(pairs, i) \cup {i}) = Cardinality(EarlierThan(pairs, i)) + 1
  BY <1>2, <1>3, FS_AddElement
<1>5. Cardinality(EarlierThan(pairs, i) \cup {i}) <= Cardinality(EarlierThan(pairs, j))
  BY <1>2, <1>3, FS_Subset
<1> QED
  BY <1>3, <1>4, <1>5, FS_CardinalityType

\* An order to sort pairs in.
SortOrder(pairs, p) ==
  /\ p \in Bijection(DOMAIN pairs, DOMAIN pairs)
  /\ \A i, j \in DOMAIN pairs : i < j => ~Before(pairs[p[j]], pairs[p[i]])

\* There is one: each index goes behind those ahead of it.
LEMMA SortExists ==
  ASSUME NEW pairs \in PairSeq
  PROVE  \E p : SortOrder(pairs, p)
<1> DEFINE D == DOMAIN pairs
           n == Len(pairs)
           rank == [i \in D |-> Cardinality(EarlierThan(pairs, i)) + 1]
<1>1. n \in Nat /\ D = 1..n /\ IsFiniteSet(D) /\ Cardinality(D) = n
  <2>1. D = 1..n /\ 1 \in Int /\ n \in Nat /\ n \in Int
    BY EarlierOrder
  <2>2. IsFiniteSet(1..n) /\ Cardinality(1..n) = IF 1 > n THEN 0 ELSE n - 1 + 1
    BY <2>1, FS_Interval
  <2> HIDE DEF D, n
  <2> QED
    BY <2>1, <2>2
<1>2. \A i \in D : i \in Nat
  BY <1>1
<1>3. ASSUME NEW i \in D PROVE rank[i] \in D
  <2>1. EarlierThan(pairs, i) \subseteq D \ {i}
    BY EarlierOrder DEF EarlierThan
  <2>2. IsFiniteSet(D \ {i}) /\ Cardinality(D \ {i}) = Cardinality(D) - 1
    BY <1>1, FS_RemoveElement
  <2>3. IsFiniteSet(EarlierThan(pairs, i))
        /\ Cardinality(EarlierThan(pairs, i)) <= Cardinality(D \ {i})
    BY <2>1, <2>2, FS_Subset
  <2>4. Cardinality(EarlierThan(pairs, i)) \in Nat
    BY <2>3, FS_CardinalityType
  <2>5. rank[i] = Cardinality(EarlierThan(pairs, i)) + 1
    OBVIOUS
  <2> HIDE DEF rank, D, n
  <2> QED
    BY <1>1, <2>2, <2>3, <2>4, <2>5
<1>4. \A i, j \in D : Earlier(pairs, i, j) => rank[i] < rank[j]
  <2> SUFFICES ASSUME NEW i \in D, NEW j \in D, Earlier(pairs, i, j) PROVE rank[i] < rank[j]
    OBVIOUS
  <2>1. Cardinality(EarlierThan(pairs, i)) < Cardinality(EarlierThan(pairs, j))
    BY EarlierGrows
  <2>2. rank[i] \in Int /\ rank[j] \in Int
    BY <1>2, <1>3
  <2>3. \A k \in D : IsFiniteSet(EarlierThan(pairs, k))
    BY <1>1, FS_Subset DEF EarlierThan
  <2>4. Cardinality(EarlierThan(pairs, i)) \in Nat /\ Cardinality(EarlierThan(pairs, j)) \in Nat
    BY <2>3, FS_CardinalityType
  <2> QED
    BY <2>1, <2>4
<1> HIDE DEF rank
<1>5. \A i, j \in D : rank[i] = rank[j] => i = j
  <2>1. \A i \in D : rank[i] \in Nat
    BY <1>2, <1>3
  <2>2. \A i, j \in D : rank[i] = rank[j] => ~(rank[i] < rank[j]) /\ ~(rank[j] < rank[i])
    BY <2>1
  <2> QED
    BY <1>4, <2>2, EarlierOrder
<1>6. DOMAIN rank = D
  BY DEF rank
<1>7. \A k \in D : \E i \in D : rank[i] = k
  <2> DEFINE image == {rank[i] : i \in D}
  <2>1. rank \in Bijection(D, image)
    BY <1>3, <1>5, <1>6 DEF Bijection, Injection, Surjection, IsInjective, rank
  <2>2. Cardinality(image) = Cardinality(D) /\ IsFiniteSet(image)
    BY <1>1, <2>1, FS_Bijection DEF ExistsBijection
  <2>3. image \subseteq D
    BY <1>3
  <2>4. image = D
    <3> HIDE DEF image, D
    <3> QED
      BY <1>1, <2>2, <2>3, FS_Subset
  <2> QED
    BY <2>4
<1> DEFINE p == [k \in D |-> CHOOSE i \in D : rank[i] = k]
<1>8. \A k \in D : p[k] \in D /\ rank[p[k]] = k
  BY <1>7
<1>9. DOMAIN p = D /\ p \in [D -> D]
  <2>1. \A k \in D : (CHOOSE i \in D : rank[i] = k) \in D
    BY <1>7
  <2> QED
    BY <2>1
<1> HIDE DEF p
<1>10. \A i \in D : p[rank[i]] = i
  BY <1>3, <1>5, <1>8
<1>11. p \in Bijection(D, D)
  <2>1. \A k, l \in D : p[k] = p[l] => k = l
    BY <1>8
  <2>2. \A i \in D : \E k \in D : p[k] = i
    BY <1>3, <1>10
  <2> QED
    BY <1>9, <2>1, <2>2 DEF Bijection, Injection, Surjection, IsInjective
<1>12. ASSUME NEW k \in D, NEW l \in D, k < l PROVE ~Before(pairs[p[l]], pairs[p[k]])
  <2>1. p[k] \in D /\ p[l] \in D /\ rank[p[k]] = k /\ rank[p[l]] = l
    BY <1>8
  <2>2. ~(l < k) /\ k # l
    BY <1>2, <1>12
  <2>3. ~Earlier(pairs, p[l], p[k])
    BY <1>4, <2>1, <2>2
  <2>4. Earlier(pairs, p[k], p[l])
    BY <2>1, <2>2, <2>3, EarlierOrder
  <2> QED
    BY <2>1, <2>4, EarlierOrder
<1> QED
  BY <1>11, <1>12 DEF SortOrder

\* Sorted has each pair once, and in order.
LEMMA SortedProperties ==
  ASSUME NEW pairs \in PairSeq
  PROVE  \E p : /\ SortOrder(pairs, p)
                /\ Sorted(pairs) = [i \in DOMAIN pairs |-> pairs[p[i]]]
<1> DEFINE p == CHOOSE q \in Bijection(DOMAIN pairs, DOMAIN pairs) :
                 \A i, j \in DOMAIN pairs : i < j => ~Before(pairs[q[j]], pairs[q[i]])
<1>1. SortOrder(pairs, p)
  BY SortExists DEF SortOrder
<1>2. Sorted(pairs) = [i \in DOMAIN pairs |-> pairs[p[i]]]
  BY DEF Sorted
<1> HIDE DEF p
<1> QED
  BY <1>1, <1>2

----------------------------------------------------------------------------
\* The scan.

Covers(range, byte) == range[1] <= byte /\ byte < range[2]

\* Each of the first bytes is in exactly one range.
EachOnce(pairs, bytes) ==
  \A byte \in 0..(bytes - 1) :
    \E i \in DOMAIN pairs :
      Covers(pairs[i], byte) /\ \A j \in DOMAIN pairs : Covers(pairs[j], byte) => j = i

\* Sorting does not change that.
LEMMA EachOnceSorted ==
  ASSUME NEW pairs \in PairSeq, NEW p, NEW bytes, SortOrder(pairs, p)
  PROVE  EachOnce([i \in DOMAIN pairs |-> pairs[p[i]]], bytes) <=> EachOnce(pairs, bytes)
<1> DEFINE D == DOMAIN pairs
           s == [i \in D |-> pairs[p[i]]]
<1>1. /\ \A k \in D : p[k] \in D
      /\ \A k, l \in D : p[k] = p[l] => k = l
      /\ \A i \in D : \E k \in D : p[k] = i
  BY DEF SortOrder, Bijection, Injection, Surjection, IsInjective
<1>2. DOMAIN s = D /\ \A k \in D : s[k] = pairs[p[k]]
  OBVIOUS
<1> HIDE DEF s, D
<1>3. ASSUME EachOnce(pairs, bytes), NEW byte \in 0..(bytes - 1)
      PROVE  \E k \in D : Covers(s[k], byte) /\ \A l \in D : Covers(s[l], byte) => l = k
  <2>1. PICK i \in D : Covers(pairs[i], byte)
                       /\ \A j \in D : Covers(pairs[j], byte) => j = i
    BY <1>3 DEF EachOnce, D
  <2>2. PICK k \in D : p[k] = i
    BY <1>1
  <2>3. \A l \in D : Covers(s[l], byte) => l = k
    BY <1>1, <1>2, <2>1, <2>2
  <2> QED
    BY <1>2, <2>1, <2>2, <2>3
<1>4. ASSUME EachOnce(s, bytes), NEW byte \in 0..(bytes - 1)
      PROVE  \E i \in D : Covers(pairs[i], byte) /\ \A j \in D : Covers(pairs[j], byte) => j = i
  <2>1. PICK k \in D : Covers(s[k], byte) /\ \A l \in D : Covers(s[l], byte) => l = k
    BY <1>2, <1>4 DEF EachOnce
  <2>2. ASSUME NEW j \in D, Covers(pairs[j], byte) PROVE j = p[k]
    <3>1. PICK l \in D : p[l] = j
      BY <1>1
    <3>2. Covers(s[l], byte)
      BY <1>2, <2>2, <3>1
    <3> QED
      BY <2>1, <3>1, <3>2
  <2> QED
    BY <1>1, <1>2, <2>1, <2>2
<1>5. EachOnce(pairs, bytes) => EachOnce(s, bytes)
  BY <1>2, <1>3 DEF EachOnce
<1>6. EachOnce(s, bytes) => EachOnce(pairs, bytes)
  BY <1>4 DEF EachOnce, D
<1> QED
  BY <1>5, <1>6 DEF s, D

\* Where the indexed data ends after each of n ranges.
Scan(u, s, n) ==
  /\ u \in [0..n -> Int] /\ u[0] = 0
  /\ \A i \in 1..n : u[i] = IF u[i - 1] = Overflow THEN Overflow ELSE Follows(u[i - 1], s[i])

\* Ranges none of which is empty or ends behind the data, in order.
InOrder(s, n, bytes) ==
  /\ \A i \in 1..n : /\ s[i][1] \in Nat /\ s[i][2] \in Nat
                     /\ s[i][1] < s[i][2] /\ s[i][2] <= bytes
  /\ \A i, j \in 1..n : i < j => s[i][1] <= s[j][1]

\* A scan that succeeds goes through the data from end to end.
LEMMA ScanSucceeds ==
  ASSUME NEW n \in Nat, NEW bytes \in Nat, NEW u, NEW s,
         Scan(u, s, n), InOrder(s, n, bytes), u[n] # Overflow
  PROVE  /\ \A i \in 0..n : u[i] \in Nat /\ u[i] # Overflow
         /\ \A i \in 1..n : s[i][1] = u[i - 1] /\ s[i][2] = u[i] /\ u[i - 1] < u[i]
<1>1. /\ u \in [0..n -> Int] /\ u[0] = 0
      /\ \A i \in 1..n : u[i] = IF u[i - 1] = Overflow THEN Overflow
                                ELSE IF s[i][1] = u[i - 1] THEN s[i][2] ELSE Overflow
  BY DEF Scan, Follows
<1> DEFINE T == {k \in Nat : k <= n => u[n - k] # Overflow}
<1>2. 0 \in T
  <2>1. n - 0 = n
    OBVIOUS
  <2> QED
    BY <2>1
<1>3. ASSUME NEW k \in T PROVE k + 1 \in T
  <2> SUFFICES ASSUME k + 1 <= n PROVE u[n - (k + 1)] # Overflow
    OBVIOUS
  <2>1. n - k \in 1..n /\ (n - k) - 1 = n - (k + 1) /\ k <= n
    OBVIOUS
  <2>2. u[n - k] # Overflow
    BY <2>1
  <2> HIDE DEF T
  <2> DEFINE i == n - k
  <2>3. i \in 1..n /\ i - 1 = n - (k + 1) /\ u[i] # Overflow
    BY <2>1, <2>2
  <2> HIDE DEF i
  <2> QED
    BY <1>1, <2>3
<1>4. T = Nat
  <2> HIDE DEF T
  <2>1. T \in SUBSET Nat
    BY DEF T
  <2> QED
    BY <1>2, <1>3, <2>1, Induction
<1>5. ASSUME NEW i \in 0..n PROVE u[i] # Overflow
  <2>1. n - i \in Nat /\ n - i <= n /\ n - (n - i) = i
    OBVIOUS
  <2>2. n - i \in T
    BY <1>4, <2>1
  <2>3. u[n - (n - i)] # Overflow
    BY <2>1, <2>2
  <2> QED
    BY <2>1, <2>3
<1> HIDE DEF T
<1>6. ASSUME NEW i \in 1..n
      PROVE  s[i][1] = u[i - 1] /\ s[i][2] = u[i] /\ u[i - 1] < u[i] /\ u[i] \in Nat
  <2>1. i \in 0..n /\ i - 1 \in 0..n
    OBVIOUS
  <2>2. u[i - 1] # Overflow /\ u[i] # Overflow
    BY <1>5, <2>1
  <2>3. s[i][1] = u[i - 1] /\ s[i][2] = u[i]
    BY <1>1, <2>2
  <2>4. s[i][1] < s[i][2] /\ s[i][2] \in Nat
    BY DEF InOrder
  <2> QED
    BY <2>3, <2>4
<1>7. \A i \in 0..n : i = 0 \/ i \in 1..n
  OBVIOUS
<1>8. \A i \in 0..n : u[i] \in Nat
  BY <1>1, <1>6, <1>7
<1> QED
  BY <1>5, <1>6, <1>8

\* Then each byte is in exactly one range.
LEMMA ScanPartitions ==
  ASSUME NEW n \in Nat, NEW bytes \in Nat, NEW u, NEW s, DOMAIN s = 1..n,
         Scan(u, s, n), InOrder(s, n, bytes), u[n] = bytes
  PROVE  EachOnce(s, bytes)
<1>1. u[n] # Overflow
  BY DEF Overflow
<1>2. /\ \A i \in 0..n : u[i] \in Nat
      /\ \A i \in 1..n : s[i][1] = u[i - 1] /\ s[i][2] = u[i] /\ u[i - 1] < u[i]
  BY <1>1, ScanSucceeds
<1>3. u[0] = 0
  BY DEF Scan
<1> DEFINE
      R == {i \in Nat : i <= n => \A byte \in Nat : byte < u[i] =>
              \E k \in 1..i : u[k - 1] <= byte /\ byte < u[k]}
      M == {k \in Nat : \A i \in 0..n : i + k <= n => u[i] <= u[i + k]}
<1>4. 0 \in R
  BY <1>3
<1>5. ASSUME NEW i \in R PROVE i + 1 \in R
  <2> SUFFICES ASSUME i + 1 <= n, NEW byte \in Nat, byte < u[i + 1]
               PROVE  \E k \in 1..(i + 1) : u[k - 1] <= byte /\ byte < u[k]
    OBVIOUS
  <2>1. i \in 0..n /\ i <= n /\ (i + 1) - 1 = i /\ i + 1 \in 1..(i + 1)
    OBVIOUS
  <2>2. u[i] \in Nat
    BY <1>2, <2>1
  <2>3. CASE byte < u[i]
    <3>1. PICK k \in 1..i : u[k - 1] <= byte /\ byte < u[k]
      BY <2>1, <2>3
    <3>2. k \in 1..(i + 1)
      OBVIOUS
    <3> QED
      BY <3>1, <3>2
  <2>4. CASE ~(byte < u[i])
    <3>1. u[i] <= byte
      BY <2>2, <2>4
    <3> QED
      BY <2>1, <3>1
  <2> QED
    BY <2>3, <2>4
<1>6. R = Nat
  <2> HIDE DEF R
  <2>1. R \in SUBSET Nat
    BY DEF R
  <2> QED
    BY <1>4, <1>5, <2>1, Induction
<1>7. 0 \in M
  BY <1>2
<1>8. ASSUME NEW k \in M PROVE k + 1 \in M
  <2> SUFFICES ASSUME NEW i \in 0..n, i + (k + 1) <= n PROVE u[i] <= u[i + (k + 1)]
    OBVIOUS
  <2> DEFINE j == i + (k + 1)
  <2>1. i + k <= n /\ i + k \in 0..n /\ j \in 1..n /\ j \in 0..n /\ j - 1 = i + k
    OBVIOUS
  <2>2. u[i] <= u[i + k]
    BY <2>1
  <2> HIDE DEF j, M
  <2>3. u[i + k] < u[j]
    BY <1>2, <2>1
  <2>4. u[i] \in Nat /\ u[i + k] \in Nat /\ u[j] \in Nat
    BY <1>2, <2>1
  <2>5. u[i] <= u[j]
    BY <2>2, <2>3, <2>4
  <2> QED
    BY <2>5 DEF j
<1>9. M = Nat
  <2> HIDE DEF M
  <2>1. M \in SUBSET Nat
    BY DEF M
  <2> QED
    BY <1>7, <1>8, <2>1, Induction
<1>10. \A i, j \in 0..n : i <= j => u[i] <= u[j]
  <2> SUFFICES ASSUME NEW i \in 0..n, NEW j \in 0..n, i <= j PROVE u[i] <= u[j]
    OBVIOUS
  <2>1. j - i \in Nat /\ i + (j - i) = j
    OBVIOUS
  <2>2. j - i \in M
    BY <1>9, <2>1
  <2>3. i + (j - i) <= n => u[i] <= u[i + (j - i)]
    BY <2>2
  <2> QED
    BY <2>1, <2>3
<1>11. ASSUME NEW byte \in 0..(bytes - 1)
       PROVE  \E i \in 1..n :
                Covers(s[i], byte) /\ \A j \in 1..n : Covers(s[j], byte) => j = i
  <2>1. byte \in Nat /\ byte < u[n]
    OBVIOUS
  <2>2. n \in R
    BY <1>6
  <2>3. PICK k \in 1..n : u[k - 1] <= byte /\ byte < u[k]
    BY <2>1, <2>2
  <2>4. Covers(s[k], byte)
    BY <1>2, <2>3 DEF Covers
  <2>5. ASSUME NEW j \in 1..n, Covers(s[j], byte) PROVE j = k
    <3>1. u[j - 1] <= byte /\ byte < u[j]
      BY <1>2, <2>5 DEF Covers
    <3>2. j - 1 \in 0..n /\ k - 1 \in 0..n /\ j \in 0..n /\ k \in 0..n
      OBVIOUS
    <3>3. u[j - 1] \in Nat /\ u[k - 1] \in Nat /\ u[j] \in Nat /\ u[k] \in Nat
      BY <1>2, <3>2
    <3>4. ~(u[j] <= u[k - 1]) /\ ~(u[k] <= u[j - 1])
      BY <2>1, <2>3, <3>1, <3>3
    <3>5. ~(j <= k - 1) /\ ~(k <= j - 1)
      BY <1>10, <3>2, <3>4
    <3> QED
      BY <3>5
  <2> QED
    BY <2>4, <2>5
<1> QED
  BY <1>11 DEF EachOnce

\* When each byte is in exactly one range the scan succeeds, and reaches the end.
LEMMA PartitionScans ==
  ASSUME NEW n \in Nat, NEW bytes \in Nat, NEW u, NEW s, DOMAIN s = 1..n,
         Scan(u, s, n), InOrder(s, n, bytes), EachOnce(s, bytes)
  PROVE  u[n] = bytes
<1>1. /\ u \in [0..n -> Int] /\ u[0] = 0
      /\ \A i \in 1..n : u[i] = IF u[i - 1] = Overflow THEN Overflow
                                ELSE IF s[i][1] = u[i - 1] THEN s[i][2] ELSE Overflow
  BY DEF Scan, Follows
<1>2. /\ \A i \in 1..n : /\ s[i][1] \in Nat /\ s[i][2] \in Nat
                         /\ s[i][1] < s[i][2] /\ s[i][2] <= bytes
      /\ \A i, j \in 1..n : i < j => s[i][1] <= s[j][1]
  BY DEF InOrder
<1>3. ASSUME NEW byte \in 0..(bytes - 1)
      PROVE  /\ \E i \in 1..n : s[i][1] <= byte /\ byte < s[i][2]
             /\ \A i, j \in 1..n :
                  s[i][1] <= byte /\ byte < s[i][2] /\ s[j][1] <= byte /\ byte < s[j][2]
                    => i = j
  <2>1. PICK k \in 1..n : Covers(s[k], byte) /\ \A j \in 1..n : Covers(s[j], byte) => j = k
    BY DEF EachOnce
  <2>2. \A i \in 1..n : Covers(s[i], byte) <=> s[i][1] <= byte /\ byte < s[i][2]
    BY DEF Covers
  <2>3. \E i \in 1..n : s[i][1] <= byte /\ byte < s[i][2]
    BY <2>1, <2>2
  <2>4. ASSUME NEW i \in 1..n, NEW j \in 1..n,
               s[i][1] <= byte, byte < s[i][2], s[j][1] <= byte, byte < s[j][2]
        PROVE  i = j
    <3>1. Covers(s[i], byte) /\ Covers(s[j], byte)
      BY <2>2, <2>4
    <3> QED
      BY <2>1, <3>1
  <2> QED
    BY <2>3, <2>4
<1> DEFINE
      Reached(i) ==
        /\ u[i] \in Nat /\ u[i] <= bytes
        /\ \A byte \in Nat : byte < u[i] => \E k \in 1..i : s[k][1] <= byte /\ byte < s[k][2]
        /\ \A k \in 1..i : s[k][2] <= u[i]
      R == {i \in Nat : i <= n => Reached(i)}
<1>4. 0 \in R
  BY <1>1
<1>5. ASSUME NEW i \in R PROVE i + 1 \in R
  <2> SUFFICES ASSUME i + 1 <= n PROVE Reached(i + 1)
    OBVIOUS
  <2> DEFINE j == i + 1
  <2>1. i \in Nat /\ i <= n /\ j \in 1..n /\ j - 1 = i /\ i \in 0..n
    OBVIOUS
  <2>2. Reached(i)
    BY <2>1
  <2> HIDE DEF R, j
  <2>3. s[j][1] \in Nat /\ s[j][2] \in Nat /\ s[j][1] < s[j][2] /\ s[j][2] <= bytes
    BY <1>2, <2>1
  <2>4. \A k \in 1..i : k \in 1..n /\ k < j /\ k # j
    BY <2>1
  <2>5. ~(s[j][1] < u[i])
    <3> SUFFICES ASSUME s[j][1] < u[i] PROVE FALSE
      OBVIOUS
    <3> DEFINE byte == s[j][1]
    <3>1. byte \in Nat /\ byte < u[i] /\ s[j][1] <= byte /\ byte < s[j][2]
      BY <2>3
    <3>2. byte \in 0..(bytes - 1)
      BY <2>3
    <3> HIDE DEF byte
    <3>3. PICK k \in 1..i : s[k][1] <= byte /\ byte < s[k][2]
      BY <2>2, <3>1
    <3> QED
      BY <1>3, <2>1, <2>4, <3>1, <3>2, <3>3
  <2>6. ~(s[j][1] > u[i])
    <3> SUFFICES ASSUME s[j][1] > u[i] PROVE FALSE
      OBVIOUS
    <3>1. u[i] \in 0..(bytes - 1)
      BY <2>2, <2>3
    <3>2. PICK k \in 1..n : s[k][1] <= u[i] /\ u[i] < s[k][2]
      BY <1>3, <3>1
    <3>3. s[k][1] \in Nat /\ s[k][2] \in Nat
      BY <1>2
    <3>4. k \notin 1..i
      BY <2>2, <3>2, <3>3
    <3>5. k = j \/ j < k
      BY <2>1, <3>4
    <3>6. s[j][1] <= s[k][1]
      BY <1>2, <2>1, <2>3, <3>5
    <3> QED
      BY <2>2, <2>3, <3>2, <3>3, <3>6
  <2>7. s[j][1] = u[i] /\ u[j] = s[j][2]
    <3>1. s[j][1] = u[i]
      BY <2>2, <2>3, <2>5, <2>6
    <3>2. u[i] # Overflow
      BY <2>2 DEF Overflow
    <3> QED
      BY <1>1, <2>1, <3>1, <3>2
  <2>8. u[j] \in Nat /\ u[j] <= bytes /\ u[i] < u[j]
    BY <2>3, <2>7
  <2>9. ASSUME NEW byte \in Nat, byte < u[j]
        PROVE  \E k \in 1..j : s[k][1] <= byte /\ byte < s[k][2]
    <3>1. CASE byte < u[i]
      <4>1. PICK k \in 1..i : s[k][1] <= byte /\ byte < s[k][2]
        BY <2>2, <3>1
      <4>2. k \in 1..j
        BY <2>1
      <4> QED
        BY <4>1, <4>2
    <3>2. CASE ~(byte < u[i])
      <4>1. s[j][1] <= byte /\ byte < s[j][2]
        BY <2>2, <2>7, <2>9, <3>2
      <4>2. j \in 1..j
        BY <2>1
      <4> QED
        BY <4>1, <4>2
    <3> QED
      BY <3>1, <3>2
  <2>10. ASSUME NEW k \in 1..j PROVE s[k][2] <= u[j]
    <3>1. k = j \/ k \in 1..i
      BY <2>1
    <3>2. CASE k = j
      BY <2>7, <2>8, <3>2
    <3>3. CASE k \in 1..i
      <4>1. s[k][2] <= u[i] /\ s[k][2] \in Nat /\ u[i] \in Nat
        BY <1>2, <2>2, <2>4, <3>3
      <4> QED
        BY <2>8, <4>1
    <3> QED
      BY <3>1, <3>2, <3>3
  <2>11. Reached(j)
    BY <2>8, <2>9, <2>10
  <2> QED
    BY <2>11 DEF j
<1>6. R = Nat
  <2> HIDE DEF R
  <2>1. R \in SUBSET Nat
    BY DEF R
  <2> QED
    BY <1>4, <1>5, <2>1, Induction
<1>7. Reached(n)
  <2>1. n \in R
    BY <1>6
  <2> QED
    BY <2>1
<1>8. ASSUME u[n] < bytes PROVE FALSE
  <2>1. u[n] \in 0..(bytes - 1)
    BY <1>7, <1>8
  <2>2. PICK k \in 1..n : s[k][1] <= u[n] /\ u[n] < s[k][2]
    BY <1>3, <2>1
  <2>3. s[k][2] \in Nat /\ s[k][2] <= u[n] /\ u[n] \in Nat
    BY <1>2, <1>7
  <2> QED
    BY <2>2, <2>3
<1> QED
  BY <1>7, <1>8

----------------------------------------------------------------------------
\* The reading.

\* An entry's slice and range.
SliceOf(e) == [offset |-> data_start + e.start, length |-> Size(e)]
RangeOf(e) == <<e.start, e.end>>

FileType ==
  /\ mmap_len \in Usize /\ header_len \in Nat
  /\ entries \in Seq(Entry)
  /\ slices \in Seq([offset : Nat, length : Nat])
  /\ ranges \in PairSeq
  /\ verdict \in {"reading", "accepted", "truncated", "unfit", "untiled"}

\* Each entry read could be held by the file, and left its slice and range.
Recorded ==
  /\ data_start <= mmap_len
  /\ Len(slices) = Len(entries) /\ Len(ranges) = Len(entries)
  /\ \A i \in 1..Len(entries) :
       ~Unfit(entries[i]) /\ slices[i] = SliceOf(entries[i]) /\ ranges[i] = RangeOf(entries[i])

FileInv ==
  /\ FileType
  /\ verdict \in {"reading", "accepted", "untiled"} => Recorded
  /\ verdict = "truncated" => data_start > mmap_len /\ slices = <<>>
  /\ verdict = "unfit" => Len(entries) = 1 /\ Unfit(entries[1]) /\ slices = <<>>
  /\ verdict = "accepted" => Tiles
  /\ verdict = "untiled" => ~Tiles

\* It holds before the first entry is read,
LEMMA FileInitInv == FileInit => FileInv
<1> SUFFICES ASSUME FileInit PROVE FileInv
  OBVIOUS
<1>1. MaxUsize \in Nat /\ HeaderBytes \in Nat /\ MaxHeader \in Nat
  BY SafetensorsAssumption
<1>2. header_len \in Nat /\ mmap_len \in Usize /\ mmap_len \in Nat /\ data_start \in Nat
  BY <1>1 DEF FileInit, Usize, data_start
<1>3. entries = <<>> /\ slices = <<>> /\ ranges = <<>>
  BY DEF FileInit
<1>4. /\ entries \in Seq(Entry) /\ slices \in Seq([offset : Nat, length : Nat])
      /\ ranges \in PairSeq /\ Len(entries) = 0 /\ Len(slices) = 0 /\ Len(ranges) = 0
  BY <1>3, EmptySeq DEF PairSeq
<1>5. verdict = IF mmap_len < HeaderBytes \/ data_start > mmap_len THEN "truncated" ELSE "reading"
  BY DEF FileInit
<1>6. data_start = HeaderBytes + header_len
  BY DEF data_start
<1>7. \/ verdict = "truncated" /\ data_start > mmap_len
      \/ verdict = "reading" /\ data_start <= mmap_len
  <2>1. CASE mmap_len < HeaderBytes
    BY <1>1, <1>2, <1>5, <1>6, <2>1
  <2>2. CASE data_start > mmap_len
    BY <1>5, <2>2
  <2>3. CASE ~(mmap_len < HeaderBytes) /\ ~(data_start > mmap_len)
    BY <1>2, <1>5, <2>3
  <2> QED
    BY <2>1, <2>2, <2>3
<1>8. FileType
  BY <1>2, <1>4, <1>7 DEF FileType
<1>9. verdict = "reading" => Recorded
  <2>1. \A i \in 1..Len(entries) : FALSE
    BY <1>4
  <2> QED
    BY <1>4, <1>7, <2>1 DEF Recorded
<1> QED
  BY <1>3, <1>7, <1>8, <1>9 DEF FileInv

\* after each entry,
LEMMA ReadEntryInv ==
  ASSUME FileInv, NEW e \in Entry, ReadEntry(e)
  PROVE  FileInv'
<1>1. /\ verdict = "reading" /\ mmap_len' = mmap_len /\ header_len' = header_len
      /\ FileType /\ Recorded
  BY DEF ReadEntry, FileInv
<1>2. data_start' = data_start
  BY <1>1 DEF data_start
<1>3. EntryFits(e) <=> ~Unfit(e)
  BY <1>1, FitIsExact DEF FileType, Recorded
<1>4. Size(e)' = Size(e) /\ SliceOf(e)' = SliceOf(e)
  BY <1>2 DEF Size, SliceOf
<1>5. \A f : Unfit(f)' <=> Unfit(f)
  BY <1>1, <1>2 DEF Unfit, Size
<1>6. \A f : SliceOf(f)' = SliceOf(f) /\ RangeOf(f)' = RangeOf(f)
  BY <1>2 DEF SliceOf, RangeOf, Size
<1>7. MaxUsize \in Nat /\ HeaderBytes \in Nat /\ data_start \in Nat
  BY <1>1, SafetensorsAssumption DEF FileType, data_start
<1>8. CASE ~EntryFits(e)
  <2>1. entries' = <<e>> /\ verdict' = "unfit" /\ slices' = <<>> /\ ranges' = <<>>
    BY <1>8 DEF ReadEntry
  <2>2. Len(entries') = 1 /\ entries'[1] = e /\ entries' \in Seq(Entry)
    BY <2>1
  <2>3. FileType'
    BY <1>1, <2>1, <2>2, EmptySeq DEF FileType, PairSeq
  <2>4. Unfit(entries[1])'
    BY <1>1, <1>2, <1>3, <1>8, <2>2 DEF Unfit, Size
  <2> QED
    BY <2>1, <2>2, <2>3, <2>4 DEF FileInv
<1>9. CASE EntryFits(e)
  <2>1. /\ verdict' = verdict
        /\ entries' = Append(entries, e)
        /\ slices' = Append(slices, [offset |-> CheckedAdd(data_start, e.start),
                                     length |-> ByteLength(e)])
        /\ ranges' = Append(ranges, RangeOf(e))
    BY <1>9 DEF ReadEntry, RangeOf
  <2>2. /\ ByteLength(e) = Size(e) /\ Size(e) \in Nat
    <3>1. \A i \in 1..Len(e.shape) : e.shape[i] > 0
      BY <1>9 DEF EntryFits
    <3> QED
      BY <1>9, <3>1, LengthIsExact DEF EntryFits
  <2>3. CheckedAdd(data_start, e.start) = data_start + e.start
    BY <1>9 DEF EntryFits, CheckedAdd
  <2>4. slices' = Append(slices, SliceOf(e))
    BY <2>1, <2>2, <2>3 DEF SliceOf
  <2>5. e.start \in Nat /\ e.end \in Nat
    BY EntryType
  <2>6. SliceOf(e) \in [offset : Nat, length : Nat] /\ RangeOf(e) \in Nat \X Nat
    BY <1>7, <2>2, <2>5 DEF SliceOf, RangeOf
  <2>7. /\ entries' \in Seq(Entry) /\ Len(entries') = Len(entries) + 1
        /\ \A i \in 1..Len(entries) : entries'[i] = entries[i]
        /\ entries'[Len(entries) + 1] = e
    BY <1>1, <2>1, AppendProperties DEF FileType
  <2>8. /\ slices' \in Seq([offset : Nat, length : Nat]) /\ Len(slices') = Len(slices) + 1
        /\ \A i \in 1..Len(slices) : slices'[i] = slices[i]
        /\ slices'[Len(slices) + 1] = SliceOf(e)
    BY <1>1, <2>4, <2>6, AppendProperties DEF FileType
  <2>9. /\ ranges' \in PairSeq /\ Len(ranges') = Len(ranges) + 1
        /\ \A i \in 1..Len(ranges) : ranges'[i] = ranges[i]
        /\ ranges'[Len(ranges) + 1] = RangeOf(e)
    BY <1>1, <2>1, <2>6, AppendProperties DEF FileType, PairSeq
  <2>10. FileType'
    BY <1>1, <2>1, <2>7, <2>8, <2>9 DEF FileType, Usize
  <2>11. Recorded'
    <3>1. /\ data_start' <= mmap_len'
          /\ Len(slices') = Len(entries') /\ Len(ranges') = Len(entries')
      BY <1>1, <1>2, <2>7, <2>8, <2>9 DEF Recorded
    <3>2. ASSUME NEW i \in 1..Len(entries')
          PROVE  /\ ~Unfit(entries'[i])
                 /\ slices'[i] = SliceOf(entries'[i]) /\ ranges'[i] = RangeOf(entries'[i])
      <4>1. Len(entries) \in Nat
        BY <1>1, LenProperties DEF FileType
      <4>2. CASE i \in 1..Len(entries)
        BY <1>1, <2>7, <2>8, <2>9, <4>2 DEF Recorded
      <4>3. CASE i = Len(entries) + 1
        BY <1>1, <1>3, <1>9, <2>7, <2>8, <2>9, <4>3 DEF Recorded
      <4> QED
        BY <2>7, <4>1, <4>2, <4>3
    <3> QED
      BY <3>1, <3>2, <1>1, <1>2 DEF Recorded, Unfit, SliceOf, RangeOf, Size
  <2> QED
    BY <1>1, <2>1, <2>10, <2>11 DEF FileInv
<1> QED
  BY <1>8, <1>9

\* The scan of the ranges read, as a function.
LEMMA IndexedUntilIs ==
  ASSUME ranges \in PairSeq
  PROVE  \E u : Scan(u, Sorted(ranges), Len(ranges)) /\ IndexedUntil = u[Len(ranges)]
<1> DEFINE n == Len(ranges)
           s == Sorted(ranges)
           next(v, i) == IF v = Overflow THEN Overflow ELSE Follows(v, Sorted(ranges)[i])
           step == [x \in (1..n) \X Int |-> next(x[2], x[1])]
           u == CHOOSE f : f = [i \in 0..n |-> IF i = 0 THEN 0 ELSE next(f[i - 1], i)]
<1>1. n \in Nat /\ DOMAIN ranges = 1..n
  BY EarlierOrder
<1>2. \A i \in 1..n : s[i][2] \in Int
  <2>1. PICK p : SortOrder(ranges, p) /\ s = [i \in DOMAIN ranges |-> ranges[p[i]]]
    BY SortedProperties
  <2>2. \A i \in DOMAIN ranges : p[i] \in DOMAIN ranges
    BY <2>1 DEF SortOrder, Bijection, Injection, Surjection
  <2>3. \A i \in DOMAIN ranges : ranges[i] \in Nat \X Nat
    BY <1>1, ElementOfSeq DEF PairSeq
  <2>4. \A r \in Nat \X Nat : r[2] \in Int
    OBVIOUS
  <2> HIDE DEF s, n
  <2> QED
    BY <1>1, <2>1, <2>2, <2>3, <2>4
<1>3. \A v \in Int, i \in 1..n : next(v, i) \in Int
  BY <1>2 DEF Follows, Overflow
<1> HIDE DEF n, s, next
<1>4. step \in [(1..n) \X Int -> Int]
  BY <1>3
<1>5. \E f : Recursion(f, n, Int, 0, step)
  <2>1. 0 \in Int
    OBVIOUS
  <2> HIDE DEF step
  <2> QED
    BY <1>1, <1>4, <2>1, RecursionExists
<1>6. PICK f : Recursion(f, n, Int, 0, step)
  BY <1>5
<1>7. f \in [0..n -> Int] /\ f[0] = 0 /\ \A i \in 1..n : f[i] = step[<<i, f[i - 1]>>]
  BY <1>6 DEF Recursion
<1>8. \A i \in 1..n : f[i] = next(f[i - 1], i)
  <2>1. \A i \in 1..n : i - 1 \in 0..n
    BY <1>1
  <2>2. \A i \in 1..n : <<i, f[i - 1]>> \in (1..n) \X Int
    BY <1>7, <2>1
  <2> QED
    BY <1>7, <2>2
<1>9. \A i \in 0..n : i = 0 \/ i \in 1..n
  BY <1>1
<1>10. f = [i \in 0..n |-> IF i = 0 THEN 0 ELSE next(f[i - 1], i)]
  BY <1>7, <1>8, <1>9
<1>11. u = [i \in 0..n |-> IF i = 0 THEN 0 ELSE next(u[i - 1], i)]
  BY <1>10
<1>12. IndexedUntil = u[n]
  BY DEF IndexedUntil, n, next
<1> HIDE DEF u
<1> DEFINE T == {i \in Nat : i <= n => u[i] \in Int}
<1>13. 0 \in T
  <2>1. 0 \in 0..n
    BY <1>1
  <2> QED
    BY <1>11, <2>1
<1>14. ASSUME NEW i \in T PROVE i + 1 \in T
  <2> SUFFICES ASSUME i + 1 <= n PROVE u[i + 1] \in Int
    OBVIOUS
  <2> DEFINE j == i + 1
  <2>1. j \in 1..n /\ j \in 0..n /\ j # 0 /\ j - 1 = i /\ i <= n /\ i \in Nat
    BY <1>1
  <2>2. u[i] \in Int
    BY <2>1
  <2> HIDE DEF j
  <2>3. u[j] = next(u[i], j)
    BY <1>11, <2>1
  <2>4. u[j] \in Int
    BY <1>3, <2>1, <2>2, <2>3
  <2> QED
    BY <2>4 DEF j
<1>15. T = Nat
  <2> HIDE DEF T
  <2>1. T \in SUBSET Nat
    BY DEF T
  <2> QED
    BY <1>13, <1>14, <2>1, Induction
<1>16. \A i \in 0..n : u[i] \in Int
  BY <1>15
<1>17. u \in [0..n -> Int]
  BY <1>11, <1>16
<1>18. u[0] = 0 /\ \A i \in 1..n : u[i] = next(u[i - 1], i)
  <2>1. 0 \in 0..n /\ \A i \in 1..n : i \in 0..n /\ i # 0
    BY <1>1
  <2> QED
    BY <1>11, <2>1
<1>19. Scan(u, Sorted(ranges), Len(ranges))
  BY <1>17, <1>18 DEF Scan, next, n
<1> QED
  BY <1>12, <1>19 DEF n

\* Recorded ranges tile the data exactly when each byte is in one of them.
LEMMA TilesIsExact ==
  ASSUME FileType, Recorded
  PROVE  Tiles <=> EachOnce(ranges, mmap_len - data_start)
<1> DEFINE n == Len(ranges)
           bytes == mmap_len - data_start
<1>1. /\ ranges \in PairSeq /\ entries \in Seq(Entry) /\ n = Len(entries)
      /\ \A i \in 1..n : ~Unfit(entries[i]) /\ ranges[i] = RangeOf(entries[i])
  BY DEF FileType, Recorded
<1>2. n \in Nat /\ DOMAIN ranges = 1..n
  BY <1>1, EarlierOrder
<1>3. bytes \in Nat
  BY SafetensorsAssumption DEF FileType, Recorded, data_start, Usize
<1>4. \A i \in 1..n : /\ ranges[i][1] \in Nat /\ ranges[i][2] \in Nat
                      /\ ranges[i][1] < ranges[i][2] /\ ranges[i][2] <= bytes
  <2> SUFFICES ASSUME NEW i \in 1..n
               PROVE  /\ ranges[i][1] \in Nat /\ ranges[i][2] \in Nat
                      /\ ranges[i][1] < ranges[i][2] /\ ranges[i][2] <= bytes
    OBVIOUS
  <2> DEFINE e == entries[i]
  <2>1. e \in Entry /\ ~Unfit(e) /\ ranges[i][1] = e.start /\ ranges[i][2] = e.end
    BY <1>1, ElementOfSeq DEF RangeOf
  <2> HIDE DEF e, bytes, n
  <2>2. e.start \in Nat /\ e.end \in Nat /\ \A k \in 1..Len(e.shape) : e.shape[k] \in Nat
    BY <2>1, EntryType
  <2>3. \A k \in 1..Len(e.shape) : e.shape[k] # 0
    BY <2>1 DEF Unfit
  <2>4. \A k \in 1..Len(e.shape) : e.shape[k] > 0
    BY <2>2, <2>3
  <2>5. Size(e) \in Nat /\ Size(e) > 0
    BY <2>1, <2>4, LengthIsExact
  <2>6. e.end - e.start = Size(e) /\ ~(e.end > bytes)
    BY <2>1 DEF Unfit, bytes
  <2> QED
    BY <1>3, <2>1, <2>2, <2>5, <2>6
<1>5. PICK p : /\ SortOrder(ranges, p)
               /\ Sorted(ranges) = [i \in DOMAIN ranges |-> ranges[p[i]]]
  BY <1>1, SortedProperties
<1> DEFINE s == Sorted(ranges)
<1>6. DOMAIN s = 1..n /\ \A i \in 1..n : p[i] \in 1..n /\ s[i] = ranges[p[i]]
  BY <1>2, <1>5 DEF SortOrder, Bijection, Injection, Surjection
<1>7. InOrder(s, n, bytes)
  <2>1. \A i, j \in 1..n : i < j => ~Before(s[j], s[i])
    BY <1>2, <1>5, <1>6 DEF SortOrder
  <2>2. \A i \in 1..n : /\ s[i][1] \in Nat /\ s[i][2] \in Nat
                        /\ s[i][1] < s[i][2] /\ s[i][2] <= bytes
    BY <1>4, <1>6
  <2> HIDE DEF s, bytes, n
  <2>3. \A i, j \in 1..n : i < j => s[i][1] <= s[j][1]
    BY <2>1, <2>2 DEF Before
  <2> QED
    BY <2>2, <2>3 DEF InOrder
<1>8. EachOnce(s, bytes) <=> EachOnce(ranges, bytes)
  BY <1>1, <1>5, EachOnceSorted
<1>9. PICK u : Scan(u, Sorted(ranges), Len(ranges)) /\ IndexedUntil = u[Len(ranges)]
  BY <1>1, IndexedUntilIs
<1>10. Tiles <=> u[n] # Overflow /\ u[n] = bytes
  BY <1>9 DEF Tiles
<1>11. Scan(u, s, n)
  BY <1>9
<1> HIDE DEF s, bytes, n
<1>12. u[n] = bytes => EachOnce(s, bytes)
  BY <1>2, <1>3, <1>6, <1>7, <1>11, ScanPartitions
<1>13. EachOnce(s, bytes) => u[n] = bytes
  BY <1>2, <1>3, <1>6, <1>7, <1>11, PartitionScans
<1>14. u[n] = bytes => u[n] # Overflow
  BY <1>3 DEF Overflow
<1> QED
  BY <1>8, <1>10, <1>12, <1>13, <1>14 DEF bytes

\* What is said of a file does not depend on the verdict.
LEMMA SameFile ==
  ASSUME UNCHANGED <<mmap_len, header_len, entries, slices, ranges>>
  PROVE  Recorded' = Recorded /\ Tiles' = Tiles /\ \A e : Unfit(e)' = Unfit(e)
<1>1. data_start' = data_start
  BY DEF data_start
<1>2. \A e : Size(e)' = Size(e)
  BY DEF Size
<1>3. \A e : Unfit(e)' = Unfit(e)
  BY <1>1 DEF Unfit, Size
<1>4. \A e : SliceOf(e)' = SliceOf(e) /\ RangeOf(e)' = RangeOf(e)
  BY <1>1 DEF SliceOf, RangeOf, Size
<1>5. Recorded' = Recorded
  BY <1>1, <1>3, <1>4 DEF Recorded
<1>6. IndexedUntil' = IndexedUntil
  BY DEF IndexedUntil
<1>7. Tiles' = Tiles
  BY <1>1, <1>6 DEF Tiles
<1> QED
  BY <1>3, <1>5, <1>7

\* after the scan,
LEMMA FinishInv ==
  ASSUME FileInv, Finish
  PROVE  FileInv'
<1>1. /\ verdict = "reading" /\ verdict' = IF Tiles THEN "accepted" ELSE "untiled"
      /\ UNCHANGED <<mmap_len, header_len, entries, slices, ranges>>
      /\ FileType /\ Recorded
  BY DEF Finish, FileInv
<1>2. FileType'
  BY <1>1 DEF FileType
<1>3. data_start' = data_start
  BY <1>1 DEF data_start
<1>4. Recorded' /\ Tiles' = Tiles
  BY <1>1, SameFile
<1> QED
  BY <1>1, <1>2, <1>4 DEF FileInv

\* and so always.
LEMMA FileInvariant == FileSpec => []FileInv
<1>1. FileInv /\ [FileNext]_fileVars => FileInv'
  <2> SUFFICES ASSUME FileInv, [FileNext]_fileVars PROVE FileInv'
    OBVIOUS
  <2>1. CASE UNCHANGED fileVars
    <3>1. /\ mmap_len' = mmap_len /\ header_len' = header_len /\ entries' = entries
          /\ slices' = slices /\ ranges' = ranges /\ verdict' = verdict
      BY <2>1 DEF fileVars
    <3>2. Recorded' = Recorded /\ Tiles' = Tiles /\ \A e : Unfit(e)' = Unfit(e)
      BY <3>1, SameFile
    <3>3. FileType'
      BY <3>1 DEF FileInv, FileType
    <3>4. data_start' = data_start
      BY <3>1 DEF data_start
    <3>5. Unfit(entries[1])' = Unfit(entries[1])
      BY <3>1, <3>4 DEF Unfit, Size
    <3> QED
      BY <3>1, <3>2, <3>3, <3>4, <3>5 DEF FileInv
  <2>2. CASE Finish
    BY <2>2, FinishInv
  <2>3. ASSUME NEW e \in Entry, ReadEntry(e) PROVE FileInv'
    BY <2>3, ReadEntryInv
  <2> QED
    BY <2>1, <2>2, <2>3 DEF FileNext
<1> QED
  BY <1>1, FileInitInv, PTL DEF FileSpec

\* Slices recorded are where and as long as their entries say.
LEMMA RecordedSlices ==
  ASSUME FileType, Recorded, NEW i \in 1..Len(entries)
  PROVE  /\ entries[i].start \in Nat /\ entries[i].end \in Nat /\ Size(entries[i]) \in Nat
         /\ Size(entries[i]) = entries[i].end - entries[i].start
         /\ data_start + entries[i].end <= mmap_len
         /\ slices[i].offset = data_start + entries[i].start
         /\ slices[i].length = Size(entries[i])
         /\ data_start \in Nat /\ mmap_len \in Nat
<1> DEFINE e == entries[i]
<1>1. e \in Entry /\ ~Unfit(e) /\ slices[i] = SliceOf(e)
  BY ElementOfSeq DEF FileType, Recorded
<1>2. data_start \in Nat /\ mmap_len \in Nat
  BY SafetensorsAssumption DEF FileType, data_start, Usize
<1> HIDE DEF e
<1>3. e.start \in Nat /\ e.end \in Nat /\ \A k \in 1..Len(e.shape) : e.shape[k] \in Nat
  BY <1>1, EntryType
<1>4. \A k \in 1..Len(e.shape) : e.shape[k] > 0
  BY <1>1, <1>3 DEF Unfit
<1>5. Size(e) \in Nat
  BY <1>1, <1>4, LengthIsExact
<1>6. e.end - e.start = Size(e) /\ ~(e.end > mmap_len - data_start)
  BY <1>1 DEF Unfit
<1>7. data_start + e.end <= mmap_len
  BY <1>2, <1>3, <1>6
<1>8. slices[i].offset = data_start + e.start /\ slices[i].length = Size(e)
  BY <1>1 DEF SliceOf
<1> QED
  BY <1>2, <1>3, <1>5, <1>6, <1>7, <1>8 DEF e

\* The slices partition the data when the ranges do.
LEMMA PartitionedIs ==
  ASSUME FileType, Recorded
  PROVE  Partitioned <=> EachOnce(ranges, mmap_len - data_start)
<1> DEFINE n == Len(entries)
           bytes == mmap_len - data_start
<1>1. /\ n \in Nat /\ Len(slices) = n /\ DOMAIN ranges = 1..n
      /\ \A i \in 1..n : ranges[i] = RangeOf(entries[i])
  BY LenProperties, EarlierOrder DEF FileType, Recorded
<1>2. data_start \in Nat /\ mmap_len \in Nat /\ data_start <= mmap_len
  BY SafetensorsAssumption DEF FileType, data_start, Usize, Recorded
<1>3. ASSUME NEW i \in 1..n, NEW byte \in Nat
      PROVE  data_start + byte \in Bytes(slices[i]) <=> Covers(ranges[i], byte)
  <2> DEFINE e == entries[i]
  <2>1. /\ e.start \in Nat /\ e.end \in Nat /\ Size(e) \in Nat /\ Size(e) = e.end - e.start
        /\ slices[i].offset = data_start + e.start /\ slices[i].length = Size(e)
    BY RecordedSlices
  <2>2. ranges[i][1] = e.start /\ ranges[i][2] = e.end
    BY <1>1 DEF RangeOf
  <2> HIDE DEF e, n
  <2>3. Bytes(slices[i]) = (data_start + e.start)..(data_start + e.start + Size(e) - 1)
    BY <2>1 DEF Bytes
  <2>4. data_start + e.start + Size(e) - 1 = data_start + e.end - 1
    BY <1>2, <2>1
  <2>5. \A d, a, b, k \in Nat : d + k \in (d + a)..(d + b - 1) <=> a <= k /\ k < b
    OBVIOUS
  <2>6. Bytes(slices[i]) = (data_start + e.start)..(data_start + e.end - 1)
    BY <2>3, <2>4
  <2>7. data_start \in Nat /\ e.start \in Nat /\ e.end \in Nat /\ byte \in Nat
    BY <1>2, <2>1
  <2>8. data_start + byte \in (data_start + e.start)..(data_start + e.end - 1)
          <=> e.start <= byte /\ byte < e.end
    BY <2>5, <2>7
  <2>9. data_start + byte \in Bytes(slices[i]) <=> e.start <= byte /\ byte < e.end
    BY <2>6, <2>8
  <2> QED
    BY <2>2, <2>9 DEF Covers
<1> HIDE DEF n
<1>4. ASSUME Partitioned, NEW byte \in 0..(bytes - 1)
      PROVE  \E i \in 1..n :
               Covers(ranges[i], byte) /\ \A j \in 1..n : Covers(ranges[j], byte) => j = i
  <2>1. data_start + byte \in data_start..(mmap_len - 1) /\ byte \in Nat
    BY <1>2
  <2>2. PICK i \in 1..n : /\ data_start + byte \in Bytes(slices[i])
                          /\ \A j \in 1..n : data_start + byte \in Bytes(slices[j]) => j = i
    BY <1>1, <1>4, <2>1 DEF Partitioned
  <2> QED
    BY <1>3, <2>1, <2>2
<1>5. ASSUME EachOnce(ranges, bytes), NEW at \in data_start..(mmap_len - 1)
      PROVE  \E i \in 1..n :
               at \in Bytes(slices[i]) /\ \A j \in 1..n : at \in Bytes(slices[j]) => j = i
  <2> DEFINE byte == at - data_start
  <2>1. byte \in 0..(bytes - 1) /\ byte \in Nat /\ data_start + byte = at
    BY <1>2
  <2> HIDE DEF byte, bytes
  <2>2. PICK i \in 1..n : Covers(ranges[i], byte)
                          /\ \A j \in 1..n : Covers(ranges[j], byte) => j = i
    BY <1>1, <1>5, <2>1 DEF EachOnce
  <2>3. \A j \in 1..n : at \in Bytes(slices[j]) <=> Covers(ranges[j], byte)
    BY <1>3, <2>1
  <2> QED
    BY <2>2, <2>3
<1>6. Partitioned => EachOnce(ranges, bytes)
  BY <1>1, <1>4 DEF EachOnce
<1>7. EachOnce(ranges, bytes) => Partitioned
  BY <1>1, <1>5 DEF Partitioned
<1> QED
  BY <1>6, <1>7

\* Theorem: however the header's entries come, what a tensor may be read
\* through lies behind the header and inside the mapping, whatever the widths.
THEOREM SlicesAreInside == FileSpec => []SlicesInsideMapping
<1>1. FileInv => SlicesInsideMapping
  <2> SUFFICES ASSUME FileInv, NEW i \in 1..Len(slices)
               PROVE  /\ slices[i].offset >= HeaderBytes + header_len
                      /\ slices[i].offset + slices[i].length <= mmap_len
                      /\ slices[i].length = Size(entries[i])
    BY DEF SlicesInsideMapping
  <2>1. slices # <<>>
    OBVIOUS
  <2>2. FileType /\ Recorded
    BY <2>1 DEF FileInv, FileType
  <2>3. i \in 1..Len(entries)
    BY <2>2 DEF Recorded
  <2> DEFINE e == entries[i]
  <2>4. /\ e.start \in Nat /\ e.end \in Nat /\ Size(e) \in Nat /\ Size(e) = e.end - e.start
        /\ data_start + e.end <= mmap_len /\ data_start \in Nat /\ mmap_len \in Nat
        /\ slices[i].offset = data_start + e.start /\ slices[i].length = Size(e)
    BY <2>2, <2>3, RecordedSlices
  <2> HIDE DEF e
  <2>5. slices[i].offset >= data_start /\ slices[i].offset + slices[i].length <= mmap_len
    BY <2>4
  <2> QED
    BY <2>4, <2>5 DEF e, data_start
<1> QED
  BY <1>1, FileInvariant, PTL

\* Theorem: whatever entries a header has, in whatever order, the checks, the
\* sort and the scan accept just the files whose slices partition the data,
\* and refuse no entry that a file of that length could hold.
THEOREM ParsingIsExact == FileSpec => []AcceptedArePartitioned
<1>1. FileInv => AcceptedArePartitioned
  <2> SUFFICES ASSUME FileInv PROVE AcceptedArePartitioned
    OBVIOUS
  <2>1. Recorded => (Tiles <=> Partitioned)
    BY TilesIsExact, PartitionedIs DEF FileInv
  <2>2. verdict \in {"reading", "accepted", "untiled"} =>
          data_start <= mmap_len /\ \A i \in 1..Len(entries) : ~Unfit(entries[i])
    BY DEF FileInv, Recorded
  <2>3. verdict = "accepted" => Partitioned
    BY <2>1 DEF FileInv
  <2>4. verdict = "untiled" => ~Partitioned
    BY <2>1 DEF FileInv
  <2>5. (verdict = "truncated" => data_start > mmap_len)
        /\ (verdict = "unfit" => Unfit(entries[1]))
    BY DEF FileInv
  <2> QED
    BY <2>2, <2>3, <2>4, <2>5 DEF AcceptedArePartitioned
<1> QED
  BY <1>1, FileInvariant, PTL
=============================================================================
