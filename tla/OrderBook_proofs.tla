--------------------------- MODULE OrderBook_proofs ---------------------------
(***************************************************************************)
(* What the ladder operators return, and what the actions of the order     *)
(* book do to the amount it shows at each level.                           *)
(***************************************************************************)
EXTENDS OrderBook, TLAPS

(***************************************************************************)
(* Writing a level leaves a ladder: in particular amount 0 is never stored *)
(* (addingEntery and updateDepthBased erase instead).                      *)
(***************************************************************************)
LEMMA SetLevelType ==
  ASSUME NEW m \in Ladder, NEW p \in Prices, NEW q \in Amounts
  PROVE  SetLevel(m, p, q) \in Ladder
<1>1. PICK S \in SUBSET Prices : m \in [S -> Amounts \ {0}]
  BY DEF Ladder
<1>2. CASE q = 0
  <2>1. SetLevel(m, p, q) \in [S \ {p} -> Amounts \ {0}]
    BY <1>1, <1>2 DEF SetLevel, Erase, Restrict
  <2>2. QED  BY <2>1 DEF Ladder
<1>3. CASE q # 0
  <2>1. SetLevel(m, p, q) \in [S \cup {p} -> Amounts \ {0}]
    BY <1>1, <1>3 DEF SetLevel, InsertOrAssign
  <2>2. QED  BY <2>1 DEF Ladder
<1>4. QED  BY <1>2, <1>3

(***************************************************************************)
(* Writing a level changes that level and no other.                        *)
(***************************************************************************)
LEMMA SetLevelAmount ==
  ASSUME NEW m \in Ladder, NEW p \in Prices, NEW q \in Amounts, NEW x \in Prices
  PROVE  AmountAt(SetLevel(m, p, q), x) = IF x = p THEN q ELSE AmountAt(m, x)
<1>1. PICK S \in SUBSET Prices : m \in [S -> Amounts \ {0}]
  BY DEF Ladder
<1>2. CASE q = 0
  BY <1>1, <1>2 DEF SetLevel, Erase, Restrict, AmountAt
<1>3. CASE q # 0
  BY <1>1, <1>3 DEF SetLevel, InsertOrAssign, AmountAt
<1>4. QED  BY <1>2, <1>3

(***************************************************************************)
(* Loading a snapshot's list gives a ladder that shows exactly the list.   *)
(***************************************************************************)
LEMMA LadderOfType ==
  ASSUME NEW b \in BOOLEAN, NEW levels \in Depth
  PROVE  LadderOf(b, levels) \in Ladder
<1>1. PICK S \in SUBSET Level : levels \in [S -> Amounts]
  BY DEF Depth
<1> DEFINE T == {x \in Prices : <<b, x>> \in DOMAIN levels /\ levels[<<b, x>>] # 0}
<1>2. LadderOf(b, levels) \in [T -> Amounts \ {0}]
  BY <1>1 DEF LadderOf
<1>3. QED  BY <1>2 DEF Ladder

LEMMA LadderOfAmount ==
  ASSUME NEW b \in BOOLEAN, NEW levels \in Depth, NEW p \in Prices
  PROVE  AmountAt(LadderOf(b, levels), p) =
            IF <<b, p>> \in DOMAIN levels THEN levels[<<b, p>>] ELSE 0
BY DEF LadderOf, AmountAt

(***************************************************************************)
(* updateDepthBased, when it gets as far as the ladders, replaces the      *)
(* amount of the update's own level and leaves every other level alone.    *)
(***************************************************************************)
LEMMA ApplyShown ==
  ASSUME BookTypeOK, NEW Udp, Udp.isitBid \in BOOLEAN, Udp.price \in Prices,
         Udp.quantity \in Amounts, UpdateApply(Udp), NEW l \in Level
  PROVE  Shown(l)' = IF l = <<Udp.isitBid, Udp.price>> THEN Udp.quantity ELSE Shown(l)
<1>1. PICK b \in BOOLEAN, p \in Prices : l = <<b, p>>
  BY DEF Level
<1>2. /\ bids' = IF Udp.isitBid THEN SetLevel(bids, Udp.price, Udp.quantity) ELSE bids
      /\ asks' = IF Udp.isitBid THEN asks ELSE SetLevel(asks, Udp.price, Udp.quantity)
  BY DEF UpdateApply
<1>3. /\ AmountAt(SetLevel(bids, Udp.price, Udp.quantity), p)
            = IF p = Udp.price THEN Udp.quantity ELSE AmountAt(bids, p)
      /\ AmountAt(SetLevel(asks, Udp.price, Udp.quantity), p)
            = IF p = Udp.price THEN Udp.quantity ELSE AmountAt(asks, p)
  BY SetLevelAmount DEF BookTypeOK
<1>4. CASE b
  BY <1>1, <1>2, <1>3, <1>4 DEF Shown
<1>5. CASE ~b
  BY <1>1, <1>2, <1>3, <1>5 DEF Shown
<1>6. QED  BY <1>4, <1>5

LEMMA ApplyType ==
  ASSUME BookTypeOK, NEW Udp, Udp.isitBid \in BOOLEAN, Udp.price \in Prices,
         Udp.quantity \in Amounts, Udp.id_sequence \in Nat, UpdateApply(Udp)
  PROVE  BookTypeOK'
<1>1. /\ SetLevel(bids, Udp.price, Udp.quantity) \in Ladder
      /\ SetLevel(asks, Udp.price, Udp.quantity) \in Ladder
  BY SetLevelType DEF BookTypeOK
<1>2. bids' \in Ladder /\ asks' \in Ladder
  BY <1>1 DEF UpdateApply, BookTypeOK
<1>3. QED  BY <1>2 DEF UpdateApply, BookTypeOK, Joins

(***************************************************************************)
(* clearBooks and the addingEntery calls leave exactly the listed levels.  *)
(***************************************************************************)
LEMMA LoadShown ==
  ASSUME NEW levels \in Depth, LoadLevels(levels), NEW l \in Level
  PROVE  Shown(l)' = IF l \in DOMAIN levels THEN levels[l] ELSE 0
<1>1. PICK b \in BOOLEAN, p \in Prices : l = <<b, p>>
  BY DEF Level
<1>2. Shown(l)' = AmountAt(IF b THEN bids' ELSE asks', p)
  BY <1>1 DEF Shown
<1>3. (IF b THEN bids' ELSE asks') = LadderOf(b, levels)
  <2>1. CASE b = TRUE   BY <2>1 DEF LoadLevels
  <2>2. CASE b = FALSE  BY <2>2 DEF LoadLevels
  <2>3. QED  BY <2>1, <2>2
<1>4. QED  BY <1>1, <1>2, <1>3, LadderOfAmount

LEMMA LoadType ==
  ASSUME NEW levels \in Depth, LoadLevels(levels)
  PROVE  bids' \in Ladder /\ asks' \in Ladder
BY LadderOfType DEF LoadLevels

=============================================================================
