------------------------------- MODULE MCMtp -------------------------------
(***************************************************************************)
(* Three inputs over four slots: a truncated suffix of two is overwritten  *)
(* with other inputs, partly or wholly, before it is attended to.          *)
(***************************************************************************)
EXTENDS Mtp
=============================================================================
