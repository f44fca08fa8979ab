------------------------------ MODULE MCProfiler ------------------------------
(***************************************************************************)
(* Two threads, two reports each.                                          *)
(***************************************************************************)
EXTENDS Profiler

=============================================================================
