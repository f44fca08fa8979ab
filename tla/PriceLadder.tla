----------------------------- MODULE PriceLadder -----------------------------
(***************************************************************************)
(* One side of the order book.  The program keeps each side in a std::map  *)
(* from an integer price key to an integer amount; here a ladder is a      *)
(* function whose domain is the set of prices that have a level.  The      *)
(* order the map keeps (bids descending, asks ascending) matters only to   *)
(* the reader that walks it and is recovered from the price keys.          *)
(***************************************************************************)
EXTENDS Integers, Functions

CONSTANTS
    Prices,     \* the price keys
    Amounts     \* scaled quantities, 0 included

ASSUME LadderAssumption == 0 \in Amounts

(***************************************************************************)
(* A ladder never holds a level of amount 0: that amount is the wire's way *)
(* of saying "no level here".                                              *)
(***************************************************************************)
Ladder == UNION {[S -> Amounts \ {0}] : S \in SUBSET Prices}

EmptyLadder == [p \in {} |-> 0]

\* The amount resting at a price, 0 where the ladder has no level.
AmountAt(m, p) == IF p \in DOMAIN m THEN m[p] ELSE 0

\* map.insert_or_assign(price, amount)
InsertOrAssign(m, p, q) ==
    [x \in DOMAIN m \cup {p} |-> IF x = p THEN q ELSE m[x]]

\* map.erase(price): erasing an absent key is no error.
Erase(m, p) == Restrict(m, DOMAIN m \ {p})

(***************************************************************************)
(* The body both addingEntery and updateDepthBased have: amount 0 removes  *)
(* the level, any other amount replaces it.                                *)
(***************************************************************************)
SetLevelKeepsZero(m, p, q) == InsertOrAssign(m, p, q)

SetLevel(m, p, q) == IF q = 0 THEN Erase(m, p) ELSE InsertOrAssign(m, p, q)

=============================================================================
