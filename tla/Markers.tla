------------------------------ MODULE Markers ------------------------------
(***************************************************************************)
(* Searching a text for markers when it arrives in pieces: where the first *)
(* one stands, and how much of the end of the text may still become one.   *)
(* A text is a sequence of symbols; one symbol stands for a run of         *)
(* characters that the markers tell apart.                                 *)
(***************************************************************************)
EXTENDS Integers, Sequences, FiniteSetsExt

Stands(text, marker, i) ==
  /\ i + Len(marker) - 1 <= Len(text)
  /\ SubSeq(text, i, i + Len(marker) - 1) = marker

Places(text, markers) ==
  {i \in 1..Len(text) : \E marker \in markers : Stands(text, marker, i)}

HasAny(text, markers) == Places(text, markers) # {}

First(places) == IF places = {} THEN 0 ELSE Min(places)

\* First place of a marker; 0 when there is none.
Find(text, markers) == First(Places(text, markers))

\* No marker stands inside one, but for its beginning.
Apart(markers) ==
  \A marker, inner \in markers : \A i \in 2..Len(marker) : ~Stands(marker, inner, i)

Suffix(text, n) == SubSeq(text, Len(text) - n + 1, Len(text))
Drop(text, n)   == SubSeq(text, n + 1, Len(text))
Take(text, n)   == SubSeq(text, 1, n)

\* (Mutated form: nothing is held back.)
HoldNothing(text, markers) == 0

\* Symbols to hold back: the longest suffix that begins a marker.
Held(text, markers) ==
  Max({0} \cup {n \in 1..Len(text) :
                \E marker \in markers :
                  n < Len(marker) /\ Suffix(text, n) = Take(marker, n)})
=============================================================================
