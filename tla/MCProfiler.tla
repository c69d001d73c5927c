----------------------------- MODULE MCProfiler -----------------------------
(***************************************************************************)
(* Two kernels, two dispatches per frame, so that frames with one kernel   *)
(* twice, two kernels, and a third dispatch over the limit all occur.      *)
(***************************************************************************)
EXTENDS Profiler
=============================================================================
