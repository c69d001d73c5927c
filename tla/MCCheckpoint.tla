---------------------------- MODULE MCCheckpoint ----------------------------
(***************************************************************************)
(* Two shards, two namespaces for the same tensors and two convolutions:   *)
(* layouts can differ within a shard and between shards, and a tensor can  *)
(* come again under its other name.                                        *)
(***************************************************************************)
EXTENDS Checkpoint
=============================================================================
