----------------------------- MODULE Checkpoint -----------------------------
(***************************************************************************)
(* Checkpoint::from_config: the shards a checkpoint's index names, or its  *)
(* single file, are read in order and their tensors collected under        *)
(* canonical names.  A raw name is a namespace and a module; names of      *)
(* different namespaces are the same tensor.  The convolutions tell        *)
(* whether the weights are in the layout of HF or of MLX, and with that    *)
(* whether norm weights are zero-centered (raw_hf).                        *)
(***************************************************************************)
EXTENDS Naturals, Sequences, FiniteSets

CONSTANTS Shards,      \* files of an indexed checkpoint; they are read sorted
          Namespaces,  \* "model.language_model." is "hf", "model." is "plain"
          Convs,       \* convolution modules
          Others,      \* other modules
          NoIndex,     \* there is no index file
          MaxNames,    \* bound on the names of an index
          MaxTensors   \* bound on the tensors of a shard

VARIABLES
  weight_map,   \* the index, a function from raw names to shards, or NoIndex
  quantized,    \* config.json has default quantization
  unread,       \* shards still to be read
  shards,       \* what was read: shard and contents, in order
  seen,         \* index names met in their shards
  tensors,      \* canonical name to raw_hf
  conv_layout,  \* of the convolutions so far, or "none"
  outcome       \* "reading", "refused" by a shard, "incomplete" or "opened"

vars == <<weight_map, quantized, unread, shards, seen, tensors, conv_layout, outcome>>

Names == [ns : Namespaces, module : Convs \cup Others]
Canonical(name) == name.module

\* A conv tensor's layout is read off its shape; other tensors have none.
Tensor == [name : [ns : Namespaces, module : Convs], layout : {"hf", "mlx", "ambiguous"}]
          \cup [name : [ns : Namespaces, module : Others], layout : {"none"}]

ASSUME CheckpointAssumption == IsFiniteSet(Names)

\* A shard holds each raw name once: parse_safetensors refuses duplicates.
Contents == {s \in SUBSET Tensor :
               Cardinality(s) <= MaxTensors
               /\ \A a, b \in s : a.name = b.name => a = b}

Indexes == UNION {[ns -> Shards] : ns \in {s \in SUBSET Names :
                                             s # {} /\ Cardinality(s) <= MaxNames}}

Init ==
  /\ weight_map \in Indexes \cup {NoIndex}
  /\ quantized \in BOOLEAN
  /\ unread = IF weight_map = NoIndex THEN {NoIndex}
                                      ELSE {weight_map[n] : n \in DOMAIN weight_map}
  /\ shards = <<>>
  /\ seen = {} /\ tensors = <<>>
  /\ conv_layout = "none"
  /\ outcome = "reading"

----------------------------------------------------------------------------
Layouts(contents) == {t.layout : t \in contents} \ {"none"}

\* (Mutated form: the index is not asked where a tensor belongs.)
PlacedAnywhere(shard, contents) ==
  weight_map # NoIndex => \A t \in contents : t.name \in DOMAIN weight_map

\* With an index, each tensor is in the shard the index names.
Placed(shard, contents) ==
  weight_map # NoIndex =>
    \A t \in contents : t.name \in DOMAIN weight_map /\ weight_map[t.name] = shard

\* (Mutated form: layouts are compared within one shard only.)
SameLayoutPerShard(contents) ==
  \A l \in Layouts(contents) : l # "ambiguous" /\ Layouts(contents) = {l}

\* One layout, and the one found before, for all convolutions.
SameLayout(contents) ==
  \A l \in Layouts(contents) :
    /\ l # "ambiguous"
    /\ Layouts(contents) = {l}
    /\ conv_layout \in {"none", l}

\* (Mutated form: a tensor replaces its namesake.)
DistinctInShard(contents) ==
  \A a, b \in contents : Canonical(a.name) = Canonical(b.name) => a = b

\* No two tensors of the checkpoint have the same canonical name.
Distinct(contents) ==
  /\ \A a, b \in contents : Canonical(a.name) = Canonical(b.name) => a = b
  /\ \A t \in contents : Canonical(t.name) \notin DOMAIN tensors

\* What the namespace says of a tensor.
RawHf(name) == name.ns = "hf" \/ (name.ns = "plain" /\ ~quantized)

ReadShard(shard, contents) ==
  /\ outcome = "reading"
  /\ shards' = Append(shards, [file |-> shard, contents |-> contents])
  /\ unread' = unread \ {shard}
  /\ IF /\ Placed(shard, contents)
        /\ SameLayout(contents)
        /\ Distinct(contents)
       THEN /\ seen' = IF weight_map = NoIndex THEN seen ELSE seen \cup {t.name : t \in contents}
            /\ tensors' = [c \in DOMAIN tensors \cup {Canonical(t.name) : t \in contents} |->
                             IF c \in DOMAIN tensors THEN tensors[c]
                             ELSE \E t \in contents : Canonical(t.name) = c /\ RawHf(t.name)]
            /\ conv_layout' = IF Layouts(contents) = {} THEN conv_layout
                                                         ELSE CHOOSE l \in Layouts(contents) : TRUE
            /\ UNCHANGED outcome
       ELSE /\ outcome' = "refused"
            /\ UNCHANGED <<seen, tensors, conv_layout>>
  /\ UNCHANGED <<weight_map, quantized>>

\* (Mutated form: the namespace decides even when there are convolutions.)
SettledByName == tensors

\* The convolutions overrule what the names said.
Settled ==
  IF conv_layout = "none" THEN tensors
                          ELSE [c \in DOMAIN tensors |-> conv_layout = "hf"]

\* (Mutated form: names of the index that no shard has are ignored.)
AllSeenLoosely == TRUE

AllSeen == weight_map # NoIndex => Cardinality(seen) = Cardinality(DOMAIN weight_map)

Open ==
  /\ outcome = "reading"
  /\ unread = {}
  /\ IF AllSeen THEN outcome' = "opened" /\ tensors' = Settled
                ELSE outcome' = "incomplete" /\ UNCHANGED tensors
  /\ UNCHANGED <<weight_map, quantized, unread, shards, seen, conv_layout>>

\* Files are read in the order of their names; any order of reading is
\* allowed here.
Next ==
  \/ \E shard \in unread, contents \in Contents : ReadShard(shard, contents)
  \/ Open

Spec == Init /\ [][Next]_vars

----------------------------------------------------------------------------
\* What is in the checkpoint, said of all its shards together.
Held == {h \in (1..Len(shards)) \X Tensor : h[2] \in shards[h[1]].contents}

Consistent ==
  /\ weight_map # NoIndex =>
       \A h \in Held : h[2].name \in DOMAIN weight_map
                       /\ weight_map[h[2].name] = shards[h[1]].file
  /\ \A g, h \in Held : Canonical(g[2].name) = Canonical(h[2].name) => g = h
  /\ Cardinality({h[2].layout : h \in Held} \ {"none"}) <= 1
  /\ \A h \in Held : h[2].layout # "ambiguous"

Total == weight_map # NoIndex => DOMAIN weight_map = {h[2].name : h \in Held}

\* Reading the shards one by one accepts exactly the checkpoints that are
\* consistent as a whole: each tensor in the one shard the index names, no
\* tensor twice under two names, one layout, and nothing of the index missing.
OpenIsExact ==
  CASE outcome = "reading"    -> Consistent
    [] outcome = "refused"    -> ~Consistent
    [] outcome = "incomplete" -> Consistent /\ ~Total
    [] outcome = "opened"     -> Consistent /\ Total

\* In an open checkpoint either all norm weights are taken as zero-centered
\* or none, and a convolution, where there is one, says which: loading never
\* shifts some norms of a model and leaves others as they are.
NormsAgree ==
  outcome = "opened" /\ (\E h \in Held : h[2].layout # "none") =>
    \A c \in DOMAIN tensors :
      tensors[c] <=> \E h \in Held : h[2].layout = "hf"
=============================================================================
