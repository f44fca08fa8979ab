----------------------------- MODULE MCDepthSync -----------------------------
(***************************************************************************)
(* Instances of DepthSync for TLC.                                         *)
(***************************************************************************)
EXTENDS DepthSyncInv

\* The snapshot lists every level.
FullWindow == {Level}

\* The snapshot lists every level, or leaves the asks' or the bids' side out.
SomeWindows == {Level, {l \in Level : l[1]}, {l \in Level : ~l[1]}}

=============================================================================
