-------------------------- MODULE MCSnapshotRequest --------------------------
(***************************************************************************)
(* An instance of SnapshotRequest for TLC.                                 *)
(***************************************************************************)
EXTENDS SnapshotRequest

\* One side of a body: up to two different prices, in either order.
Side ==
    {<<>>} \cup {<<<<p, q>>>> : p \in Prices, q \in Amounts \ {0}}
           \cup {s \in [1..2 -> Prices \X (Amounts \ {0})] : s[1][1] # s[2][1]}

SomeBodies == {[id |-> 2, bids |-> b, asks |-> a] : b \in Side, a \in Side}

SomeOldBooks == {<<[p \in {1} |-> 1], [p \in Prices |-> p]>>, <<EmptyLadder, [p \in {2} |-> 2]>>}

SomeWords == {-7, 0}

=============================================================================
