------------------------------ MODULE OrderBook ------------------------------
(***************************************************************************)
(* class orderbook: the two ladders and the three words that tie them to   *)
(* the exchange's update ids.  The global object obook has static storage, *)
(* so every word starts at zero.                                           *)
(*                                                                         *)
(* updateDepthBased is called once per price level of a depth event, not   *)
(* once per event.  It has three ways out, one action each: the update is  *)
(* older than the snapshot (UpdateStale), it starts beyond the next id     *)
(* (UpdateGap), or it is written into a ladder (UpdateApply).              *)
(***************************************************************************)
EXTENDS PriceLadder

VARIABLES
    bids,               \* the bid ladder
    asks,               \* the ask ladder
    lastId_Snapshot,    \* lastUpdateId of the last snapshot loaded
    localId,            \* last update id the book claims to reflect
    isin_Sync           \* a stream event has been joined to the snapshot

bookVars == <<bids, asks, lastId_Snapshot, localId, isin_Sync>>

(***************************************************************************)
(* A level is a side and a price; the first component is isitBid.          *)
(***************************************************************************)
Level == BOOLEAN \X Prices

\* What a snapshot or an event lists: an amount for each of some levels.
Depth == UNION {[S -> Amounts] : S \in SUBSET Level}

BookTypeOK ==
    /\ bids \in Ladder
    /\ asks \in Ladder
    /\ lastId_Snapshot \in Nat
    /\ localId \in Nat
    /\ isin_Sync \in BOOLEAN

BookInit ==
    /\ bids = EmptyLadder
    /\ asks = EmptyLadder
    /\ lastId_Snapshot = 0
    /\ localId = 0
    /\ isin_Sync = FALSE

\* What the book shows at a level of the market.
Shown(l) == AmountAt(IF l[1] THEN bids ELSE asks, l[2])

-----------------------------------------------------------------------------
(***************************************************************************)
(* updateDepthBased(Udp).  Udp is a DepthUpdate: price, quantity, isitBid, *)
(* U_first and id_sequence (the event's U and u).                          *)
(***************************************************************************)
NeverStale(Udp) == FALSE

StaleOffByOne(Udp) == ~isin_Sync /\ Udp.id_sequence <= lastId_Snapshot + 1

Stale(Udp) == ~isin_Sync /\ Udp.id_sequence <= lastId_Snapshot

Joins(Udp) ==
    /\ ~isin_Sync
    /\ Udp.U_first <= lastId_Snapshot + 1
    /\ Udp.id_sequence >= lastId_Snapshot + 1

GapOffByOne(Udp) == Udp.U_first > localId + 2

Gap(Udp) == Udp.U_first > localId + 1

UpdateStale(Udp) ==
    /\ Stale(Udp)
    /\ UNCHANGED bookVars

(***************************************************************************)
(* The gap branch clears isin_Sync, calls getRequestOrderBook (the caller  *)
(* composes that call with this action) and returns: this update is not    *)
(* written into any ladder, whatever the call does.                        *)
(***************************************************************************)
UpdateGap(Udp) ==
    /\ ~Stale(Udp)
    /\ Gap(Udp)
    /\ isin_Sync' = FALSE
    /\ UNCHANGED <<bids, asks, lastId_Snapshot, localId>>

UpdateApply(Udp) ==
    /\ ~Stale(Udp)
    /\ ~Gap(Udp)
    /\ isin_Sync' = (isin_Sync \/ Joins(Udp))
    /\ bids' = IF Udp.isitBid THEN SetLevel(bids, Udp.price, Udp.quantity) ELSE bids
    /\ asks' = IF Udp.isitBid THEN asks ELSE SetLevel(asks, Udp.price, Udp.quantity)
    /\ localId' = Udp.id_sequence
    /\ UNCHANGED lastId_Snapshot

-----------------------------------------------------------------------------
(***************************************************************************)
(* getRequestOrderBook, as far as it writes the book.  levels is what the  *)
(* body lists: a function from levels to amounts.  clearBooks comes first, *)
(* then addingEntery once per listed level, the bids before the asks, and  *)
(* only after the last one the three words are set.                        *)
(***************************************************************************)
LadderOf(isbid, levels) ==
    [p \in {x \in Prices : <<isbid, x>> \in DOMAIN levels /\ levels[<<isbid, x>>] # 0}
        |-> levels[<<isbid, p>>]]

LoadLevels(levels) ==
    /\ bids' = LadderOf(TRUE, levels)
    /\ asks' = LadderOf(FALSE, levels)

LoadSnapshot(id, levels) ==
    /\ LoadLevels(levels)
    /\ lastId_Snapshot' = id
    /\ localId' = id
    /\ isin_Sync' = FALSE

(***************************************************************************)
(* An exception after clearBooks: some of the entries are in, and the      *)
(* words are what they were.  The catch clause swallows the exception.     *)
(***************************************************************************)
LoadInterrupted(levels) ==
    /\ \E S \in SUBSET DOMAIN levels :
          /\ (\E l \in S : ~l[1]) => \A l \in DOMAIN levels : l[1] => l \in S
          /\ LoadLevels(Restrict(levels, S))
    /\ UNCHANGED <<lastId_Snapshot, localId, isin_Sync>>

=============================================================================
