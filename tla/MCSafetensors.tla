--------------------------- MODULE MCSafetensors ---------------------------
(***************************************************************************)
(* usize of three bits: files of up to seven bytes, of which one gives the *)
(* header's length.  <<3, 3>> overflows alone and <<2, 2>> with items of   *)
(* two bytes; three entries tile in any order, overlap or leave a hole.    *)
(* <<3, 3, 0>> has no bytes, overflows and has a dimension of zero.        *)
(***************************************************************************)
EXTENDS Safetensors

MCShapes == {<<>>, <<2>>, <<2, 2>>, <<3, 3>>, <<3, 3, 0>>}
=============================================================================
