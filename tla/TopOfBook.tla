------------------------------ MODULE TopOfBook ------------------------------
(***************************************************************************)
(* What printTop reads of the two ladders: their first levels, in the      *)
(* order their maps keep, and the spread.                                  *)
(*                                                                         *)
(* The spread reads begin() of both maps without a look whether they are   *)
(* empty.  For an empty map that is the word behind its end: the build     *)
(* with iterator checks stops, the other reads whatever is there           *)
(* (Garbage).                                                              *)
(***************************************************************************)
EXTENDS PriceLadder, FiniteSets

CONSTANTS
    Levels,     \* printTop's argument
    Garbage     \* what a word behind the end of a map may hold

ASSUME TopAssumption == Prices \subseteq Int /\ Levels \in Nat \ {0} /\ Garbage \notin Int

\* The comparators of the maps: bids descending, asks ascending.
BeforeAscending(isbid, p, q) == p < q

Before(isbid, p, q) == IF isbid THEN p > q ELSE p < q

\* The number of levels an iterator passes before it comes to price p.
Ahead(m, isbid, p) == Cardinality({q \in DOMAIN m : Before(isbid, q, p)})

Price(m, isbid, k) == CHOOSE p \in DOMAIN m : Ahead(m, isbid, p) = k - 1

Rows(m) == IF Cardinality(DOMAIN m) < Levels THEN Cardinality(DOMAIN m) ELSE Levels

\* The rows printTop writes for one side, best price first.
Top(m, isbid) ==
    [k \in 1..Rows(m) |-> <<Price(m, isbid, k), m[Price(m, isbid, k)]>>]

IsEmpty(m) == DOMAIN m = {}

Spread(bids, asks) ==
    IF IsEmpty(bids) \/ IsEmpty(asks) THEN Garbage
    ELSE Price(asks, FALSE, 1) - Price(bids, TRUE, 1)

=============================================================================
