---------------------------- MODULE Safetensors ----------------------------
(***************************************************************************)
(* parse_safetensors: the entries of a file's header are read one after    *)
(* the other, each checked against the mapped length, and when all are     *)
(* read their ranges, sorted, must tile the data.  Arithmetic is on usize  *)
(* and checked.  What is accepted here is later sliced out of the mapping. *)
(* An entry stands for one name; JSON itself is left out.                  *)
(***************************************************************************)
EXTENDS Integers, Sequences, Functions

CONSTANTS MaxUsize,     \* usize::MAX
          HeaderBytes,  \* bytes of the header length, 8 in the format
          MaxHeader,    \* longest header
          Shapes,       \* shapes that headers give
          Items,        \* sizes of a dtype's items
          MaxEntries    \* bound on the entries of a header

ASSUME SafetensorsAssumption ==
  /\ MaxUsize \in Nat /\ HeaderBytes \in Nat /\ MaxHeader \in Nat
  /\ Shapes \subseteq Seq(Nat) /\ Items \subseteq Nat \ {0}

VARIABLES
  mmap_len,    \* bytes mapped
  header_len,  \* header length the file claims
  entries,     \* entries read: shape, item size and data offsets; after a
               \* refusal the one refused
  slices,      \* offset and length of each tensor
  ranges,      \* data offsets of each tensor
  verdict      \* "reading" and "accepted", or the error: "truncated", "unfit", "untiled"

fileVars == <<mmap_len, header_len, entries, slices, ranges, verdict>>

Usize == 0..MaxUsize
Overflow == -1

CheckedAdd(a, b) == IF a + b \in Usize THEN a + b ELSE Overflow
CheckedMul(a, b) == IF a = Overflow \/ a * b \notin Usize THEN Overflow ELSE a * b

Entry == [shape : Shapes, item : Items, start : Usize, end : Usize]

data_start == HeaderBytes + header_len

FileInit ==
  /\ mmap_len \in Usize
  /\ header_len \in 0..MaxHeader
  /\ entries = <<>> /\ slices = <<>> /\ ranges = <<>>
  /\ verdict = IF mmap_len < HeaderBytes \/ data_start > mmap_len THEN "truncated" ELSE "reading"

----------------------------------------------------------------------------
\* The bytes of a tensor: its elements, counted dimension by dimension,
\* times the size of one.
ByteLength(e) ==
  LET count[i \in 0..Len(e.shape)] ==
        IF i = 0 THEN 1 ELSE CheckedMul(count[i - 1], e.shape[i])
  IN  CheckedMul(count[Len(e.shape)], e.item)

\* (Mutated form: the end of the tensor wraps around.)
WrappedEnd(e) == (data_start + e.end) % (MaxUsize + 1)

AbsoluteEnd(e) == CheckedAdd(data_start, e.end)

\* An entry has no dimension of zero, and its offsets span its length and
\* end within the file.
EntryFits(e) ==
  /\ \A i \in 1..Len(e.shape) : e.shape[i] > 0
  /\ ByteLength(e) # Overflow
  /\ e.end >= e.start /\ e.end - e.start = ByteLength(e)
  /\ CheckedAdd(data_start, e.start) # Overflow
  /\ AbsoluteEnd(e) # Overflow
  /\ AbsoluteEnd(e) <= mmap_len

ReadEntry(e) ==
  /\ verdict = "reading"
  /\ IF EntryFits(e)
       THEN /\ entries' = Append(entries, e)
            /\ slices' = Append(slices, [offset |-> CheckedAdd(data_start, e.start),
                                           length |-> ByteLength(e)])
            /\ ranges' = Append(ranges, <<e.start, e.end>>)
            /\ UNCHANGED verdict
       ELSE /\ entries' = <<e>>
            /\ verdict' = "unfit"
            /\ slices' = <<>> /\ ranges' = <<>>
  /\ UNCHANGED <<mmap_len, header_len>>

Before(a, b) == a[1] < b[1] \/ (a[1] = b[1] /\ a[2] < b[2])

\* (Mutated form: a range may begin after the previous one ends.)
FollowsWithHole(until, range) == IF range[1] >= until THEN range[2] ELSE Overflow

\* Where the indexed data ends after one more range.
Follows(until, range) == IF range[1] = until THEN range[2] ELSE Overflow

\* sort_unstable on pairs.
Sorted(pairs) ==
  LET order == CHOOSE p \in Bijection(DOMAIN pairs, DOMAIN pairs) :
                 \A i, j \in DOMAIN pairs : i < j => ~Before(pairs[p[j]], pairs[p[i]])
  IN  [i \in DOMAIN pairs |-> pairs[order[i]]]

\* The scan over the sorted ranges.
IndexedUntil ==
  LET until[i \in 0..Len(ranges)] ==
        IF i = 0 THEN 0
        ELSE IF until[i - 1] = Overflow THEN Overflow
        ELSE Follows(until[i - 1], Sorted(ranges)[i])
  IN  until[Len(ranges)]

\* (Mutated form: bytes behind the last tensor are let through.)
TilesLoosely == IndexedUntil # Overflow

\* The sorted ranges leave no hole, overlap or trailing byte.
Tiles == IndexedUntil # Overflow /\ IndexedUntil = mmap_len - data_start

Finish ==
  /\ verdict = "reading"
  /\ verdict' = IF Tiles THEN "accepted" ELSE "untiled"
  /\ UNCHANGED <<mmap_len, header_len, entries, slices, ranges>>

FileNext ==
  \/ \E e \in Entry : Len(entries) < MaxEntries /\ ReadEntry(e)
  \/ Finish

FileSpec == FileInit /\ [][FileNext]_fileVars

----------------------------------------------------------------------------
\* The bytes of a tensor, without a limit to numbers.
Size(e) ==
  LET count[i \in 0..Len(e.shape)] == IF i = 0 THEN 1 ELSE count[i - 1] * e.shape[i]
  IN  count[Len(e.shape)] * e.item

\* A slice that a tensor may be read through lies behind the header and
\* inside the mapping, with no sum or product wrapped, even while reading.
SlicesInsideMapping ==
  \A i \in 1..Len(slices) :
    /\ slices[i].offset >= HeaderBytes + header_len
    /\ slices[i].offset + slices[i].length <= mmap_len
    /\ slices[i].length = Size(entries[i])

Bytes(t) == t.offset..(t.offset + t.length - 1)

\* Each byte behind the header belongs to exactly one tensor.
Partitioned ==
  \A byte \in data_start..(mmap_len - 1) :
    \E i \in 1..Len(slices) :
      /\ byte \in Bytes(slices[i])
      /\ \A j \in 1..Len(slices) : byte \in Bytes(slices[j]) => j = i

\* An entry that no file of this length could hold.
Unfit(e) ==
  \/ \E i \in 1..Len(e.shape) : e.shape[i] = 0
  \/ e.end - e.start # Size(e)
  \/ e.end > mmap_len - data_start

\* Files are accepted exactly when the header fits, every entry can be held
\* and the slices partition the data: sorting and scanning the ranges of
\* any order decides just that.
AcceptedArePartitioned ==
  /\ verdict = "accepted"  => Partitioned
  /\ verdict = "truncated" => data_start > mmap_len
  /\ verdict = "unfit"     => Unfit(entries[1])
  /\ verdict = "untiled"   => ~Partitioned
  /\ verdict \in {"reading", "accepted", "untiled"} =>
       data_start <= mmap_len /\ \A i \in 1..Len(entries) : ~Unfit(entries[i])
=============================================================================
