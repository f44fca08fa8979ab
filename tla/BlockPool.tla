------------------------------ MODULE BlockPool ------------------------------
(***************************************************************************)
(* What the pool promises its one client: the block it lends belongs to    *)
(* nobody else, a stock that is there is lent from before the system is    *)
(* asked, and memory pressure never takes the last block of the stock.     *)
(***************************************************************************)
CONSTANTS
    Blocks,     \* addresses the system can grant
    NULL        \* no block

VARIABLES
    free,       \* the stock
    lent        \* the block the client has, or NULL

poolVars == <<free, lent>>

PoolInit ==
    /\ free = {}
    /\ lent = NULL

Stock ==
    /\ \E b \in Blocks \ (free \cup {lent}) : free' = free \cup {b}
    /\ UNCHANGED lent

GiveUp ==
    /\ \E b \in free : free # {b} /\ free' = free \ {b}
    /\ UNCHANGED lent

Lend ==
    /\ lent = NULL
    /\ lent' \in IF free # {} THEN free ELSE Blocks
    /\ free' = free \ {lent'}

TakeBack ==
    /\ lent # NULL
    /\ free' = free \cup {lent}
    /\ lent' = NULL

Close ==
    /\ lent = NULL
    /\ free' = {}
    /\ UNCHANGED lent

PoolNext == Stock \/ GiveUp \/ Lend \/ TakeBack \/ Close

PoolSpec == PoolInit /\ [][PoolNext]_poolVars

=============================================================================
