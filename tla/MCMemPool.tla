------------------------------ MODULE MCMemPool ------------------------------
(***************************************************************************)
(* An instance of MemPool for TLC: one address more than prewarm asks for, *)
(* so that the system may grant any address again.                         *)
(***************************************************************************)
EXTENDS MemPool

=============================================================================
