------------------------------ MODULE MCSession ------------------------------
(***************************************************************************)
(* An instance of Session for TLC.                                         *)
(***************************************************************************)
EXTENDS Session

=============================================================================
